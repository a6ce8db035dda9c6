--------------------------- MODULE AmlInfoProofs ---------------------------
(***************************************************************************)
(* Proofs about the store of the Amlogic driver, for every number and size *)
(* of its blocks, every sequence of saves and starts, and losses of power  *)
(* at any page and erase.                                                  *)
(***************************************************************************)
EXTENDS AmlInfo, WellFoundedInduction, TLAPS

-----------------------------------------------------------------------------
(***************************************************************************)
(* Least and greatest numbers.                                             *)
(***************************************************************************)
LessThan == {p \in Nat \X Nat : p[1] < p[2]}

LEMMA LeastNat ==
  ASSUME NEW S \in SUBSET Nat, S # {}
  PROVE  \E x \in S : \A y \in S : x <= y
<1>1. IsWellFoundedOn(LessThan, Nat)
  BY NatLessThanWellFounded DEF OpToRel, LessThan
<1>2. PICK z \in S : \A y \in S : ~(<<y, z>> \in LessThan)
  BY <1>1, WFMin
<1>3. \A y \in S : ~(y < z)
  BY <1>2 DEF LessThan
<1> QED BY <1>3

LEMMA MinIs ==
  ASSUME NEW S \in SUBSET Nat, S # {}
  PROVE  Min(S) \in S /\ \A y \in S : Min(S) <= y
BY LeastNat DEF Min

LEMMA GreatestNat ==
  ASSUME NEW n \in Nat, NEW S \in SUBSET (0 .. n), S # {}
  PROVE  \E x \in S : \A y \in S : y <= x
<1> DEFINE T == {n - x : x \in S}
<1>0. \A x \in S : n - x \in Nat
  OBVIOUS
<1>1. T \in SUBSET Nat /\ T # {}
  BY <1>0
<1>2. PICK z \in T : \A y \in T : z <= y
  BY <1>1, LeastNat
<1>3. PICK x \in S : z = n - x
  BY <1>2
<1>4. \A y \in S : n - x <= n - y
  BY <1>2, <1>3
<1> QED BY <1>4

LEMMA MaxIs ==
  ASSUME NEW n \in Nat, NEW S \in SUBSET (0 .. n), S # {}
  PROVE  Max(S) \in S /\ \A y \in S : y <= Max(S)
BY GreatestNat DEF Max

\* The blocks and the records of a block.
LEMMA Areas ==
  /\ Blk \in SUBSET Nat /\ Slot \in SUBSET Nat /\ Slot \in SUBSET (0 .. Slots) /\ 0 \in Slot
  /\ \A b \in Blk : b \in Nat /\ b \in 0 .. NBlk /\ b # 0
  /\ \A s \in Slot : s \in Nat /\ s < Slots
  /\ Slots \in Nat /\ Slots >= 1 /\ DataPages \in Nat /\ DataPages >= 1
  /\ RecPages = DataPages + 1 /\ TsSize \in Nat /\ TsSize >= 1
  /\ NBlk \in Nat /\ NBlk >= 3 /\ MaxSaves \in Nat /\ MaxTest \in Nat
BY InfoAssumption DEF Blk, Slot, RecPages

-----------------------------------------------------------------------------
(***************************************************************************)
(* A block: c is its contents.                                             *)
(***************************************************************************)
Rd(c) == {s \in Slot : c[s] # Torn}
Hd(c) == IF Rd(c) = {} THEN Torn ELSE c[Min(Rd(c))]

LEMMA HeadIs ==
  ASSUME NEW c, Hd(c).name # "none"
  PROVE  \E s \in Rd(c) : Hd(c) = c[s] /\ \A t \in Slot : t < s => c[t] = Torn
<1>1. Rd(c) # {}
  BY DEF Hd, Torn, Erased
<1>2. PICK m : m = Min(Rd(c))
  OBVIOUS
<1>3. m \in Rd(c) /\ \A t \in Rd(c) : m <= t
  BY <1>1, <1>2, MinIs, Areas DEF Rd
<1>4. m \in Nat
  BY <1>3, Areas DEF Rd
<1>5. ASSUME NEW t \in Slot, t < m PROVE c[t] = Torn
  <2>1. t \in Nat
    BY Areas
  <2>2. t \notin Rd(c)
    BY <1>3, <1>4, <1>5, <2>1
  <2> QED BY <1>3, <2>2 DEF Rd
<1> QED BY <1>1, <1>2, <1>3, <1>5 DEF Hd

LEMMA HeadBy ==
  ASSUME NEW c, NEW s \in Slot, c[s] # Torn, \A t \in Slot : t < s => c[t] = Torn
  PROVE  Hd(c) = c[s]
<1>1. s \in Rd(c)
  BY DEF Rd
<1>2. PICK m : m = Min(Rd(c))
  OBVIOUS
<1>3. m \in Rd(c) /\ m <= s
  BY <1>1, <1>2, MinIs, Areas DEF Rd
<1>4. m \in Slot /\ ~(m < s)
  BY <1>3 DEF Rd
<1>5. m \in Nat /\ s \in Nat
  BY <1>4, Areas
<1>6. m = s
  BY <1>3, <1>4, <1>5
<1> QED BY <1>1, <1>2, <1>6 DEF Hd

\* The head as the scan sees it.
LEMMA HeadOfBlock == \A b \in Blk : Head(b) = Hd(flash[b]) /\ Readable(b) = Rd(flash[b])
BY DEF Head, Readable, Hd, Rd

-----------------------------------------------------------------------------
(***************************************************************************)
(* Types.                                                                  *)
(***************************************************************************)
This   == info[save.n]

\* What is saved under a name.
SaveVal(n) == IF n = "nenv" THEN 0 .. MaxSaves \union {Bad} ELSE {Cfg, Bad}

Record == [name : Name \union {"none"}, ts : 0 .. TsSize - 1, val : Val,
           len : 0 .. RecPages, ruined : BOOLEAN]
RecordOK(q) == q \in Record /\ \A n \in Name : q.name = n => q.val \in SaveVal(n) \union {Pattern}

InfoType == [valid : BOOLEAN, blk : 0 .. NBlk, slot : Slot, ts : 0 .. TsSize - 1,
             update : BOOLEAN]
SaveType == [n : Name \union {"none"}, val : Val, blk : 0 .. NBlk, skip : 0 .. NBlk, slot : Slot,
             k : 0 .. DataPages, old : 0 .. NBlk, full : BOOLEAN, again : BOOLEAN,
             tests : 0 .. MaxTest, then : {"config", "fixcfg", "fixenv", "ready"}]

FlashOK == flash \in [Blk -> [Slot -> Record]] /\ \A b \in Blk, s \in Slot : RecordOK(flash[b][s])

\* The driver's tables and the locals of a save at each point of it.
PointOK ==
  /\ Saving => save.n \in Name /\ save.val \in SaveVal(save.n)
  /\ pc \in {"erase", "write", "test", "commit"} => save.blk \in Blk
  /\ pc \in {"eraseold", "testold", "finish"} => This.blk \in Blk
  /\ pc \in {"eraseold", "testold"} => save.old \in Blk
  /\ pc = "erase" => MovesTo(This)
  /\ pc \in {"write", "commit"} => SameBlk(This) \/ MovesTo(This)

TypeInv ==
  /\ FlashOK /\ bad \subseteq Blk /\ bbt \in Blk /\ reserved \subseteq Blk
  /\ info \in [Name -> InfoType] /\ \A n \in Name : info[n].valid => info[n].blk \in Blk
  /\ save \in SaveType /\ PointOK
  /\ pc \in {"off", "dead", "config", "fixcfg", "fixenv", "relocate", "ready",
             "getblk", "erase", "write", "test", "commit", "eraseold", "testold", "finish"}
  /\ torn \subseteq Name /\ unsaved \subseteq Name /\ stuck \subseteq Name
  /\ env \in 0 .. MaxSaves /\ saves \in 0 .. MaxSaves
  /\ accept \in [Name -> SUBSET Val]

LEMMA TypeInvGivesTypes == TypeInv => TypeOK
BY Areas DEF TypeInv, TypeOK, FlashOK, Record, InfoType, SaveType

LEMMA Constants ==
  /\ Erased \in Record /\ Torn \in Record /\ RecordOK(Erased) /\ RecordOK(Torn)
  /\ Erased.name = "none" /\ Torn.name = "none" /\ Erased # Torn /\ "none" \notin Name
  /\ NoInfo \in InfoType /\ ~NoInfo.valid
  /\ NoSave \in SaveType /\ NoSave.n = "none" /\ NoSave.then = "ready"
  /\ \A n \in Name : SaveVal(n) \subseteq Val /\ Pattern \notin SaveVal(n) /\ Absent \notin SaveVal(n)
<1>1. 0 \in 0 .. RecPages /\ 0 \in 0 .. TsSize - 1 /\ 0 \in 0 .. NBlk /\ 0 \in 0 .. DataPages /\ 0 \in 0 .. MaxTest
  BY Areas
<1>2. Absent \in Val /\ Pattern \in Val /\ Bad \in Val /\ Default \in Val
  BY DEF Val
<1>3. Erased \in Record /\ Torn \in Record /\ Erased.name = "none" /\ Torn.name = "none" /\ Erased # Torn
  BY <1>1, <1>2 DEF Erased, Torn, Record
<1>4. "none" \notin Name
  BY DEF Name
<1>5. RecordOK(Erased) /\ RecordOK(Torn)
  BY <1>3, <1>4 DEF RecordOK
<1>6. NoInfo \in InfoType /\ ~NoInfo.valid
  BY <1>1, Areas DEF NoInfo, InfoType
<1>7. NoSave \in SaveType /\ NoSave.n = "none" /\ NoSave.then = "ready"
  BY <1>1, <1>2, Areas DEF NoSave, SaveType
<1>8. \A n \in Name : SaveVal(n) \subseteq Val /\ Pattern \notin SaveVal(n) /\ Absent \notin SaveVal(n)
  BY Areas DEF SaveVal, Val, Default, Cfg, Pattern, Bad, Absent
<1> QED BY <1>3, <1>4, <1>5, <1>6, <1>7, <1>8

LEMMA SpoilOK ==
  ASSUME NEW q, RecordOK(q), NEW k \in 0 .. DataPages
  PROVE  RecordOK(Spoil(q, k)) /\ Spoil(q, k).name \in {q.name, "none"}
<1>1. CASE k = 0
  BY <1>1, Constants DEF Spoil
<1>2. CASE k # 0
  <2>1. PICK l : l = IF q.len < k THEN q.len ELSE k
    OBVIOUS
  <2>2. Spoil(q, k) = [q EXCEPT !.len = l, !.ruined = TRUE]
    BY <1>2, <2>1 DEF Spoil
  <2>3. l \in 0 .. RecPages
    BY <2>1, Areas DEF RecordOK, Record
  <2>4. /\ Spoil(q, k) \in Record /\ Spoil(q, k).name = q.name /\ Spoil(q, k).val = q.val
    BY <2>2, <2>3 DEF RecordOK, Record
  <2> QED BY <2>4 DEF RecordOK
<1> QED BY <1>1, <1>2

LEMMA ProgramOK ==
  ASSUME NEW q, RecordOK(q), NEW r, RecordOK(r), NEW k \in 0 .. DataPages
  PROVE  RecordOK(Program(q, k, r)) /\ Program(q, k, r).name \in {q.name, r.name, "none"}
<1>1. CASE q.ruined \/ q.len # k
  BY <1>1, SpoilOK DEF Program
<1>2. CASE ~(q.ruined \/ q.len # k)
  <2>1. k + 1 \in 0 .. RecPages
    BY Areas
  <2>2. Program(q, k, r) = [r EXCEPT !.len = k + 1]
    BY <1>2 DEF Program
  <2>3. /\ Program(q, k, r) \in Record /\ Program(q, k, r).name = r.name
        /\ Program(q, k, r).val = r.val
    BY <2>1, <2>2 DEF RecordOK, Record
  <2> QED BY <2>3 DEF RecordOK
<1> QED BY <1>1, <1>2

LEMMA TheRecordOK ==
  ASSUME TypeInv, Saving
  PROVE  /\ RecordOK(TheRecord) /\ TheRecord.name = save.n /\ TheRecord.val = save.val
         /\ TheRecord.len = RecPages /\ ~TheRecord.ruined
<1>1. save.n \in Name /\ save.val \in SaveVal(save.n) /\ save.val \in Val
      /\ info[save.n].ts \in 0 .. TsSize - 1
  BY Constants DEF TypeInv, PointOK, InfoType
<1>2. RecPages \in 0 .. RecPages
  BY Areas
<1> QED BY <1>1, <1>2 DEF TheRecord, RecordOK, Record

LEMMA FilledOK ==
  ASSUME TypeInv, Saving, NEW all \in BOOLEAN
  PROVE  Filled(all) \in [Slot -> Record] /\ \A s \in Slot : RecordOK(Filled(all)[s])
<1>1. PICK r : r = TheRecord
  OBVIOUS
<1>2. RecordOK(r)
  BY <1>1, TheRecordOK
<1>3. Pattern \in Val /\ 1 \in 0 .. RecPages
  BY Areas DEF Val
<1>4. PICK p : p = [r EXCEPT !.val = Pattern]
  OBVIOUS
<1>5. PICK h : h = [r EXCEPT !.val = Pattern, !.len = 1]
  OBVIOUS
<1>6. RecordOK(p) /\ RecordOK(h)
  BY <1>2, <1>3, <1>4, <1>5 DEF RecordOK, Record
<1>7. Filled(all) = [s \in Slot |-> IF all THEN p ELSE IF s = 0 THEN h ELSE Erased]
  BY <1>1, <1>4, <1>5 DEF Filled
<1>8. \A s \in Slot : RecordOK(Filled(all)[s])
  BY <1>6, <1>7, Constants
<1> QED BY <1>7, <1>8 DEF RecordOK

\* Flash contents after an operation on block b.
LEMMA WriteBlockOK ==
  ASSUME FlashOK, NEW b \in Blk, NEW c \in [Slot -> Record], \A s \in Slot : RecordOK(c[s]),
         flash' = [flash EXCEPT ![b] = c]
  PROVE  FlashOK'
BY DEF FlashOK, RecordOK, Record

LEMMA WriteSlotOK ==
  ASSUME FlashOK, NEW b \in Blk, NEW s \in Slot, NEW q, RecordOK(q),
         flash' = [flash EXCEPT ![b][s] = q]
  PROVE  FlashOK'
BY DEF FlashOK, RecordOK, Record

LEMMA BlankOK ==
  /\ Blank \in [Slot -> Record] /\ \A s \in Slot : RecordOK(Blank[s])
  /\ Unusable \in [Slot -> Record] /\ \A s \in Slot : RecordOK(Unusable[s])
BY Constants DEF Blank, Unusable

\* The contents of a block, and of the flash.
BlockOK(c)  == c \in [Slot -> Record] /\ \A s \in Slot : RecordOK(c[s])
FlashAs(f)  == f \in [Blk -> [Slot -> Record]] /\ \A b \in Blk : BlockOK(f[b])

LEMMA TableOK ==
  ASSUME NEW ok \in BOOLEAN
  PROVE  BlockOK(Table) /\ BlockOK(Zeroed(ok))
<1>1. RecPages \in 0 .. RecPages /\ 1 \in 0 .. RecPages /\ 0 \in Slot
  BY Areas
<1>2. PICK p, q : p = [Erased EXCEPT !.len = RecPages] /\ q = [Erased EXCEPT !.len = 1]
  OBVIOUS
<1>3. p \in Record /\ q \in Record /\ p.name = "none" /\ q.name = "none"
  BY <1>1, <1>2, Constants DEF Record
<1>4. RecordOK(p) /\ RecordOK(q)
  BY <1>3, Constants DEF RecordOK
<1>5. BlockOK(Table)
  BY <1>2, <1>3, <1>4 DEF BlockOK, Table
<1>6. Zeroed(ok) = [Blank EXCEPT ![0] = IF ok THEN q ELSE Torn]
  BY <1>2 DEF Zeroed
<1>7. BlockOK(Zeroed(ok))
  BY <1>1, <1>3, <1>4, <1>6, BlankOK, Constants DEF BlockOK
<1> QED BY <1>5, <1>7

\* What the test of a block leaves if it fails.
LEMMA TestLeftOK ==
  ASSUME TypeInv, Saving, NEW b \in Blk, NEW f \in TestLeft(b)
  PROVE  FlashAs(f) /\ \A x \in Blk \ {b} : f[x] = flash[x]
<1>1. FlashAs(flash)
  BY DEF TypeInv, FlashOK, FlashAs, BlockOK
<1>2. ASSUME NEW all \in BOOLEAN, f = [flash EXCEPT ![b] = Filled(all)]
      PROVE  FlashAs(f) /\ \A x \in Blk \ {b} : f[x] = flash[x]
  <2>1. BlockOK(Filled(all))
    BY FilledOK DEF BlockOK
  <2> QED BY <1>1, <1>2, <2>1 DEF FlashAs, BlockOK
<1> QED BY <1>1, <1>2 DEF TestLeft

\* The block that the bad block table moves to.
LEMMA TableBlkIs ==
  ASSUME NEW b, NEW c \in TableBlks(b)
  PROVE  c \in Blk /\ c \notin reserved
<1>1. PICK F : F # {} /\ F \subseteq FreeBlks(reserved, 0) /\ c = Min(F)
  BY DEF TableBlks
<1>2. F \in SUBSET Nat
  BY <1>1, Areas DEF FreeBlks
<1>3. c \in F
  BY <1>1, <1>2, MinIs
<1> QED BY <1>1, <1>3 DEF FreeBlks

\* A block is marked bad.
LEMMA MarkBadOK ==
  ASSUME TypeInv, NEW b \in Blk, NEW f, FlashAs(f), NEW ok \in BOOLEAN, NEW done,
         MarkBad(b, f, ok, done)
  PROVE  FlashOK' /\ bad' \subseteq Blk /\ bbt' \in Blk /\ reserved' \subseteq Blk /\ b \in bad'
<1>1. bad' \subseteq Blk /\ b \in bad' /\ bbt \in Blk /\ reserved \subseteq Blk
  BY DEF MarkBad, TypeInv
<1>2. CASE flash' = f /\ reserved' = reserved \ done /\ bbt' = bbt
  BY <1>1, <1>2 DEF FlashOK, FlashAs, BlockOK, RecordOK, Record
<1>3. ASSUME NEW c \in TableBlks(b), flash' = [f EXCEPT ![c] = Table, ![bbt] = Zeroed(ok)],
             bbt' = c, reserved' = (reserved \union {c}) \ ({bbt} \union done)
      PROVE  FlashOK' /\ bbt' \in Blk /\ reserved' \subseteq Blk
  <2>1. c \in Blk /\ BlockOK(Table) /\ BlockOK(Zeroed(ok))
    BY TableBlkIs, TableOK
  <2>2. flash' \in [Blk -> [Slot -> Record]] /\ \A x \in Blk : BlockOK(flash'[x])
    BY <1>1, <1>3, <2>1 DEF FlashAs, BlockOK
  <2>3. FlashOK'
    BY <2>2 DEF FlashOK, BlockOK, RecordOK, Record
  <2> QED BY <1>1, <1>3, <2>1, <2>3
<1> QED BY <1>1, <1>2, <1>3 DEF MarkBad

(***************************************************************************)
(* The scan of a block of item n: where its records end, and which of them *)
(* is taken.                                                               *)
(***************************************************************************)
Stop(n, c) == {s \in Rd(c) : c[s].name # n}
End(n, c)  == IF Stop(n, c) = {} THEN Slots ELSE Min(Stop(n, c))
List(n, c) == {s \in Rd(c) : c[s].name = n}
PlaceIn(n, c) == IF FullBlk(n) THEN Min(List(n, c)) ELSE Max({t \in List(n, c) : t < End(n, c)})
MetIn(n, c) ==
  \E t \in Slot \ Rd(c) : t < IF FullBlk(n) THEN PlaceIn(n, c) ELSE End(n, c)

LEMMA ScanIs ==
  ASSUME NEW n \in Name, NEW b, b = ValidBlk(n, Found(n)), b \in Blk
  PROVE  Scan(n) = IF Found(n) = {} THEN NoInfo
                   ELSE [valid |-> TRUE, blk |-> b, slot |-> PlaceIn(n, flash[b]),
                         ts |-> flash[b][PlaceIn(n, flash[b])].ts, update |-> MetIn(n, flash[b])]
<1>1. Readable(b) = Rd(flash[b])
  BY HeadOfBlock
<1> QED BY <1>1 DEF Scan, PlaceIn, MetIn, Stop, End, List

LEMMA EndIs ==
  ASSUME NEW n \in Name, NEW c
  PROVE  /\ End(n, c) \in 0 .. Slots
         /\ End(n, c) # Slots => End(n, c) \in Stop(n, c)
         /\ \A s \in Stop(n, c) : End(n, c) <= s
<1>1. CASE Stop(n, c) = {}
  BY <1>1, Areas DEF End
<1>2. CASE Stop(n, c) # {}
  <2>1. Stop(n, c) \in SUBSET Nat
    BY Areas DEF Stop, Rd
  <2>2. End(n, c) \in Stop(n, c) /\ \A s \in Stop(n, c) : End(n, c) <= s
    BY <1>2, <2>1, MinIs DEF End
  <2>3. End(n, c) \in Slot
    BY <2>2 DEF Stop, Rd
  <2>4. End(n, c) \in 0 .. Slots
    BY <2>3, Areas
  <2> QED BY <2>2, <2>4
<1> QED BY <1>1, <1>2

LEMMA PlaceIs ==
  ASSUME NEW n \in Name, NEW c, Hd(c).name = n
  PROVE  /\ PlaceIn(n, c) \in Slot /\ c[PlaceIn(n, c)].name = n
         /\ FullBlk(n) => \A t \in List(n, c) : PlaceIn(n, c) <= t
         /\ ~FullBlk(n) => /\ PlaceIn(n, c) < End(n, c)
                           /\ \A t \in List(n, c) : t < End(n, c) => t <= PlaceIn(n, c)
<1>1. PICK h \in Rd(c) : Hd(c) = c[h] /\ \A t \in Slot : t < h => c[t] = Torn
  BY HeadIs, Constants
<1>2. h \in List(n, c) /\ h \in Slot
  BY <1>1 DEF List, Rd
<1>3. h < End(n, c)
  <2>1. PICK e : e = End(n, c)
    OBVIOUS
  <2>2. e \in 0 .. Slots /\ (e # Slots => e \in Stop(n, c))
    BY <2>1, EndIs
  <2>3. CASE e = Slots
    BY <1>2, <2>1, <2>3, Areas
  <2>4. CASE e # Slots
    <3>1. e \in Slot /\ c[e] # Torn /\ c[e].name # n
      BY <2>2, <2>4 DEF Stop, Rd
    <3>2. ~(e < h) /\ e # h
      BY <1>1, <3>1
    <3>3. e \in Nat /\ h \in Nat
      BY <1>2, <3>1, Areas
    <3> QED BY <2>1, <3>2, <3>3
  <2> QED BY <2>3, <2>4
<1>4. CASE FullBlk(n)
  <2>1. List(n, c) \in SUBSET Nat
    BY Areas DEF List, Rd
  <2>2. PlaceIn(n, c) \in List(n, c) /\ \A t \in List(n, c) : PlaceIn(n, c) <= t
    BY <1>2, <1>4, <2>1, MinIs DEF PlaceIn
  <2> QED BY <1>4, <2>2 DEF List, Rd
<1>5. CASE ~FullBlk(n)
  <2>1. PICK T : T = {t \in List(n, c) : t < End(n, c)}
    OBVIOUS
  <2>2. T \in SUBSET (0 .. Slots) /\ T # {}
    BY <1>2, <1>3, <2>1, Areas DEF List, Rd
  <2>3. Max(T) \in T /\ \A t \in T : t <= Max(T)
    BY <2>2, MaxIs, Areas
  <2>4. PlaceIn(n, c) = Max(T)
    BY <1>5, <2>1 DEF PlaceIn
  <2> QED BY <1>5, <2>1, <2>3, <2>4 DEF List, Rd
<1> QED BY <1>4, <1>5

\* Of the blocks found one is taken.
LEMMA ValidBlkIs ==
  ASSUME FlashOK, NEW n \in Name, NEW F \in SUBSET Blk, F # {}
  PROVE  ValidBlk(n, F) \in F
<1>0. F \in SUBSET Nat
  BY Areas
<1>1. CASE FullBlk(n)
  BY <1>0, <1>1, MinIs DEF ValidBlk
<1>2. CASE ~FullBlk(n)
  <2>1. PICK M : M = {b \in F : \A c \in F : Head(b).ts >= Head(c).ts}
    OBVIOUS
  <2>2. \A b \in F : Head(b).ts \in 0 .. TsSize
    <3> SUFFICES ASSUME NEW b \in F PROVE Head(b).ts \in 0 .. TsSize
      OBVIOUS
    <3>1. Torn.ts = 0
      BY DEF Torn, Erased
    <3>2. Readable(b) # {} => Min(Readable(b)) \in Slot
      BY MinIs, Areas DEF Readable
    <3>3. \A s \in Slot : flash[b][s].ts \in 0 .. TsSize - 1
      BY DEF FlashOK, Record
    <3>4. Head(b) = Torn \/ \E s \in Slot : Head(b) = flash[b][s]
      BY <3>2 DEF Head
    <3>5. Head(b).ts = 0 \/ Head(b).ts \in 0 .. TsSize - 1
      BY <3>1, <3>3, <3>4
    <3> QED BY <3>5, Areas
  <2>3. PICK T : T = {Head(b).ts : b \in F}
    OBVIOUS
  <2>4. T \in SUBSET (0 .. TsSize) /\ T # {} /\ TsSize \in Nat
    BY <2>2, <2>3, Areas
  <2>5. PICK x \in T : \A y \in T : y <= x
    BY <2>4, GreatestNat
  <2>6. PICK b \in F : x = Head(b).ts
    BY <2>3, <2>5
  <2>7. \A c \in F : x >= Head(c).ts
    BY <2>2, <2>3, <2>5, <2>6
  <2>8. b \in M
    BY <2>1, <2>6, <2>7
  <2>9. M \in SUBSET Nat /\ M \subseteq F
    BY <1>0, <2>1
  <2>10. Min(M) \in M
    BY <2>8, <2>9, MinIs
  <2>11. ValidBlk(n, F) = Min(M)
    BY <1>2, <2>1 DEF ValidBlk
  <2> QED BY <2>9, <2>10, <2>11
<1> QED BY <1>1, <1>2

\* What the scan leaves in nand_arg_info.
LEMMA ScanOutcome ==
  ASSUME FlashOK, NEW n \in Name
  PROVE  /\ Scan(n) \in InfoType
         /\ Found(n) = {} => Scan(n) = NoInfo
         /\ Found(n) # {} =>
              \E b \in Found(n) :
                /\ b = ValidBlk(n, Found(n)) /\ b \in Blk /\ Hd(flash[b]).name = n
                /\ Scan(n).valid /\ Scan(n).blk = b /\ Scan(n).slot = PlaceIn(n, flash[b])
                /\ Scan(n).update = MetIn(n, flash[b])
                /\ flash[b][Scan(n).slot].name = n
<1>1. CASE Found(n) = {}
  BY <1>1, Constants DEF Scan
<1>2. CASE Found(n) # {}
  <2>0. Found(n) \in SUBSET Blk
    BY DEF Found
  <2>1. PICK b \in Found(n) : b = ValidBlk(n, Found(n))
    BY <1>2, <2>0, ValidBlkIs
  <2>2. b \in Blk /\ Hd(flash[b]).name = n
    BY HeadOfBlock DEF Found
  <2>3. PICK s \in Slot : s = PlaceIn(n, flash[b]) /\ flash[b][s].name = n
    BY <2>2, PlaceIs
  <2>4. PICK u \in BOOLEAN : u = MetIn(n, flash[b])
    BY DEF MetIn
  <2>5. Scan(n) = [valid |-> TRUE, blk |-> b, slot |-> s, ts |-> flash[b][s].ts, update |-> u]
    BY <1>2, <2>1, <2>2, <2>3, <2>4, ScanIs
  <2>6. flash[b][s].ts \in 0 .. TsSize - 1 /\ b \in 0 .. NBlk
    BY <2>2, Areas DEF FlashOK, Record
  <2>7. Scan(n) \in InfoType
    BY <2>5, <2>6 DEF InfoType
  <2>8. Scan(n).valid /\ Scan(n).blk = b /\ Scan(n).slot = s /\ Scan(n).update = u
    BY <2>5
  <2> QED BY <1>2, <2>1, <2>2, <2>3, <2>4, <2>7, <2>8
<1> QED BY <1>1, <1>2

\* What is read at a place.
LEMMA ReadOutcome ==
  ASSUME FlashOK, NEW n \in Name, NEW i \in InfoType, i.valid => i.blk \in Blk
  PROVE  ReadAt(n, i) \in IF i.valid THEN SaveVal(n) ELSE {Absent}
<1>1. CASE ~i.valid
  BY <1>1 DEF ReadAt
<1>2. CASE i.valid
  <2>1. PICK q : q = flash[i.blk][i.slot]
    OBVIOUS
  <2>2. RecordOK(q)
    BY <1>2, <2>1 DEF FlashOK, InfoType
  <2>3. ReadAt(n, i) = IF q.name = n /\ q.len >= DataPages /\ q.val # Pattern THEN q.val ELSE Bad
    BY <1>2, <2>1 DEF ReadAt
  <2>4. Bad \in SaveVal(n)
    BY DEF SaveVal
  <2> QED BY <1>2, <2>2, <2>3, <2>4 DEF RecordOK
<1> QED BY <1>1, <1>2

-----------------------------------------------------------------------------
(***************************************************************************)
(* The types are preserved.                                                *)
(***************************************************************************)
TablesOK == info \in [Name -> InfoType] /\ \A n \in Name : info[n].valid => info[n].blk \in Blk

\* A save begins, or its second copy does.
LEMMA WriteAgainOK ==
  ASSUME TablesOK, NEW n \in Name, NEW i \in InfoType, i.valid => i.blk \in Blk,
         NEW s, WriteAgain(i, n, s)
  PROVE  TablesOK' /\ save' = s /\ pc' = "getblk"
<1>1. PICK t : t = (i.ts + 1) % TsSize
  OBVIOUS
<1>2. t \in 0 .. TsSize - 1
  BY <1>1, Areas DEF InfoType
<1>3. PICK j : j = [i EXCEPT !.ts = t]
  OBVIOUS
<1>4. j \in InfoType /\ (j.valid => j.blk \in Blk)
  BY <1>2, <1>3 DEF InfoType
<1>5. info' = [info EXCEPT ![n] = j]
  BY <1>1, <1>3 DEF WriteAgain
<1> QED BY <1>4, <1>5 DEF TablesOK, WriteAgain

LEMMA SaveInfoOK ==
  ASSUME TypeInv, NEW n \in Name, NEW v \in SaveVal(n),
         NEW then \in {"config", "fixcfg", "fixenv", "ready"}, SaveInfo(n, v, then)
  PROVE  /\ TablesOK' /\ save' \in SaveType /\ PointOK' /\ pc' = "getblk"
         /\ accept' \in [Name -> SUBSET Val] /\ unsaved' \subseteq Name
         /\ save' = [NoSave EXCEPT !.n = n, !.val = v, !.then = then]
         /\ save'.n = n /\ save'.val = v
<1>1. v \in Val
  BY Constants
<1>2. PICK s : s = [NoSave EXCEPT !.n = n, !.val = v, !.then = then]
  OBVIOUS
<1>3. s \in SaveType /\ s.n = n /\ s.val = v
  BY <1>1, <1>2, Constants DEF SaveType
<1>4. TablesOK /\ info[n] \in InfoType /\ (info[n].valid => info[n].blk \in Blk)
  BY DEF TypeInv, TablesOK
<1>5. TablesOK' /\ save' = s /\ pc' = "getblk"
  BY <1>2, <1>4, WriteAgainOK DEF SaveInfo
<1>6. PointOK'
  BY <1>3, <1>5 DEF PointOK, Saving
<1>7. accept' \in [Name -> SUBSET Val] /\ unsaved' \subseteq Name
  BY <1>1 DEF SaveInfo, TypeInv
<1> QED BY <1>2, <1>3, <1>5, <1>6, <1>7

\* A save returns.
LEMMA ReturnOK ==
  ASSUME TypeInv, Saving, NEW ok \in BOOLEAN, NEW i \in InfoType, i.valid => i.blk \in Blk,
         Return(ok, i)
  PROVE  /\ TablesOK' /\ save' = NoSave /\ save' \in SaveType /\ PointOK'
         /\ pc' \in {"fixcfg", "dead", "fixenv", "relocate", "ready"}
         /\ stuck' \subseteq Name
<1>0. save.n \in Name /\ save.then \in {"config", "fixcfg", "fixenv", "ready"} /\ TablesOK
  BY DEF TypeInv, PointOK, SaveType, TablesOK
<1>1. pc' \in {"fixcfg", "dead", "fixenv", "relocate", "ready"}
  BY <1>0 DEF Return
<1>2. PICK u \in BOOLEAN : u = (i.update /\ save.then \notin {"fixcfg", "fixenv"})
  OBVIOUS
<1>3. PICK j : j = [i EXCEPT !.update = u]
  OBVIOUS
<1>4. j \in InfoType /\ (j.valid => j.blk \in Blk)
  BY <1>3 DEF InfoType
<1>5. info' = [info EXCEPT ![save.n] = j]
  BY <1>2, <1>3 DEF Return
<1>6. TablesOK'
  BY <1>0, <1>4, <1>5 DEF TablesOK
<1>7. save' = NoSave /\ save' \in SaveType
  BY Constants DEF Return
<1>8. PointOK'
  BY <1>1 DEF PointOK, Saving
<1>9. stuck' \subseteq Name
  BY <1>0 DEF Return, TypeInv
<1> QED BY <1>1, <1>6, <1>7, <1>8, <1>9

LEMMA TypeInit == Init => TypeInv
<1> SUFFICES ASSUME Init PROVE TypeInv
  OBVIOUS
<1>0. BlockOK(Table) /\ BlockOK(Blank) /\ 1 \in Blk
  <2>1. BlockOK(Table)
    BY TableOK
  <2>2. BlockOK(Blank)
    BY BlankOK DEF BlockOK
  <2> QED BY <2>1, <2>2, Areas DEF Blk
<1>1. FlashOK
  BY <1>0 DEF Init, FlashOK, BlockOK
<1>2. info \in [Name -> InfoType] /\ \A n \in Name : info[n].valid => info[n].blk \in Blk
  BY Constants DEF Init
<1>3. save \in SaveType /\ PointOK
  BY Constants DEF Init, PointOK, Saving
<1>4. accept \in [Name -> SUBSET Val]
  BY DEF Init, Val
<1>5. env \in 0 .. MaxSaves /\ saves \in 0 .. MaxSaves
  BY Areas DEF Init, Default
<1> QED BY <1>0, <1>1, <1>2, <1>3, <1>4, <1>5 DEF Init, TypeInv

LEMMA TypeGetBlk ==
  ASSUME TypeInv, GetBlk
  PROVE  TypeInv'
<1>0. /\ pc = "getblk" /\ Saving /\ save.n \in Name /\ save \in SaveType
      /\ info[save.n] \in InfoType /\ save.val \in SaveVal(save.n) /\ TablesOK
      /\ (info[save.n].valid => info[save.n].blk \in Blk) /\ save.blk \in 0 .. NBlk
  BY DEF GetBlk, Saving, TypeInv, PointOK, TablesOK, SaveType
<1>1. FlashOK' /\ bad' = bad /\ bbt' = bbt /\ reserved' = reserved /\ torn' = torn /\ unsaved' = unsaved
      /\ env' = env /\ saves' = saves /\ accept' = accept
  BY DEF GetBlk, FlashOK, TypeInv, counters, Return, RecordOK, Record
<1>2. PICK i : i = info[save.n]
  OBVIOUS
<1>3. CASE SameBlk(i) /\ pc' = "write" /\ info' = info /\ stuck' = stuck
           /\ save' = [save EXCEPT !.blk = i.blk, !.slot = i.slot + 1, !.k = 0]
  <2>1. i.valid /\ i.slot + 1 \in Slot /\ i.blk \in Blk /\ i.blk \in 0 .. NBlk /\ 0 \in 0 .. DataPages
    BY <1>0, <1>2, <1>3, Areas DEF SameBlk, InfoType, Slot
  <2>2. save' \in SaveType /\ save'.n = save.n /\ save'.val = save.val /\ save'.blk = i.blk
    BY <1>0, <1>3, <2>1 DEF SaveType
  <2>3. PointOK'
    BY <1>0, <1>2, <1>3, <2>1, <2>2 DEF PointOK, Saving, SameBlk, This
  <2>4. TablesOK'
    BY <1>0, <1>3 DEF TablesOK, InfoType
  <2> QED BY <1>1, <1>3, <2>2, <2>3, <2>4 DEF TypeInv, TablesOK
<1>4. CASE /\ ~SameBlk(i) /\ FreeBlks(reserved, save.blk) # {} /\ pc' = "erase" /\ info' = info /\ stuck' = stuck
           /\ save' = [save EXCEPT !.blk = Min(FreeBlks(reserved, save.blk)), !.skip = save.blk,
                                   !.slot = 0, !.k = 0,
                                   !.full = i.valid /\ ~i.update /\ ~FullBlk(save.n)]
  <2>1. PICK b : b = Min(FreeBlks(reserved, save.blk))
    OBVIOUS
  <2>2. b \in Blk /\ b \in 0 .. NBlk /\ 0 \in 0 .. DataPages /\ 0 \in Slot
    BY <1>4, <2>1, MinIs, Areas DEF FreeBlks
  <2>3. PICK f \in BOOLEAN : f = (i.valid /\ ~i.update /\ ~FullBlk(save.n))
    BY <1>0, <1>2 DEF FullBlk, InfoType
  <2>4. save' = [save EXCEPT !.blk = b, !.skip = save.blk, !.slot = 0, !.k = 0, !.full = f]
    BY <1>4, <2>1, <2>3
  <2>5. save' \in SaveType /\ save'.n = save.n /\ save'.val = save.val /\ save'.blk = b /\ save'.full = f
    BY <1>0, <2>2, <2>4 DEF SaveType
  <2>6. MovesTo(This)'
    BY <1>0, <1>2, <1>4, <2>3, <2>5 DEF MovesTo, This
  <2>7. PointOK'
    BY <1>0, <1>4, <2>2, <2>5, <2>6 DEF PointOK, Saving
  <2>8. TablesOK'
    BY <1>0, <1>4 DEF TablesOK, InfoType
  <2> QED BY <1>1, <1>4, <2>5, <2>7, <2>8 DEF TypeInv, TablesOK
<1>5. CASE Return(FALSE, i)
  <2>1. /\ TablesOK' /\ save' \in SaveType /\ PointOK' /\ stuck' \subseteq Name
        /\ pc' \in {"fixcfg", "dead", "fixenv", "relocate", "ready"}
    BY <1>0, <1>2, <1>5, ReturnOK
  <2> QED BY <1>1, <2>1 DEF TypeInv, TablesOK
<1> QED BY <1>2, <1>3, <1>4, <1>5 DEF GetBlk

LEMMA TypeErase ==
  ASSUME TypeInv, EraseFree \/ EraseFreeFails
  PROVE  TypeInv'
<1>0. /\ pc = "erase" /\ Saving /\ save.n \in Name /\ save \in SaveType /\ MovesTo(This)
      /\ info[save.n] \in InfoType /\ save.val \in SaveVal(save.n) /\ TablesOK
      /\ (info[save.n].valid => info[save.n].blk \in Blk) /\ save.blk \in Blk
  BY DEF EraseFree, EraseFreeFails, Saving, TypeInv, PointOK, TablesOK, SaveType
<1>1. CASE EraseFree
  <2>1. FlashOK'
    BY <1>0, <1>1, BlankOK, WriteBlockOK DEF EraseFree, EraseBlk, TypeInv
  <2>2. PointOK'
    BY <1>0, <1>1 DEF PointOK, Saving, EraseFree, ram, MovesTo, This
  <2> QED BY <1>1, <2>1, <2>2 DEF EraseFree, TypeInv, ram, history, counters
<1>2. CASE EraseFreeFails
  <2>0. FlashOK' /\ bad' \subseteq Blk /\ bbt' \in Blk /\ reserved' \subseteq Blk
    <3>1. FlashAs(flash)
      BY DEF TypeInv, FlashOK, FlashAs, BlockOK
    <3> QED BY <1>0, <1>2, <3>1, MarkBadOK DEF EraseFreeFails
  <2>1. /\ FlashOK' /\ bad' \subseteq Blk /\ bbt' \in Blk /\ reserved' \subseteq Blk
        /\ torn' = torn /\ unsaved' = unsaved /\ env' = env /\ saves' = saves /\ accept' = accept
    BY <1>2, <2>0 DEF EraseFreeFails
  <2>2. PICK next : next = {b \in FreeBlks(reserved', save.skip) : b > save.blk}
    OBVIOUS
  <2>3. CASE next # {} /\ save' = [save EXCEPT !.blk = Min(next)] /\ UNCHANGED <<pc, info, stuck, wfail>>
    <3>1. PICK b : b = Min(next)
      OBVIOUS
    <3>2. b \in Blk /\ b \in 0 .. NBlk
      BY <2>2, <2>3, <3>1, MinIs, Areas DEF FreeBlks
    <3>3. save' \in SaveType /\ save'.n = save.n /\ save'.val = save.val /\ save'.blk = b
          /\ save'.full = save.full
      BY <1>0, <2>3, <3>1, <3>2 DEF SaveType
    <3>4. PointOK'
      BY <1>0, <2>3, <3>2, <3>3 DEF PointOK, Saving, MovesTo, This
    <3> QED BY <2>1, <2>3, <3>3, <3>4 DEF TypeInv
  <2>4. CASE Return(FALSE, info[save.n])
    <3>1. /\ TablesOK' /\ save' \in SaveType /\ PointOK' /\ stuck' \subseteq Name
          /\ pc' \in {"fixcfg", "dead", "fixenv", "relocate", "ready"}
      BY <1>0, <2>4, ReturnOK
    <3> QED BY <2>1, <3>1 DEF TypeInv, TablesOK
  <2> QED BY <1>2, <2>2, <2>3, <2>4 DEF EraseFreeFails
<1> QED BY <1>1, <1>2

LEMMA TypeWrite ==
  ASSUME TypeInv, WritePage \/ WriteFails
  PROVE  TypeInv'
<1>0. /\ pc = "write" /\ Saving /\ save.n \in Name /\ save \in SaveType
      /\ (SameBlk(This) \/ MovesTo(This))
      /\ info[save.n] \in InfoType /\ save.val \in SaveVal(save.n) /\ TablesOK
      /\ (info[save.n].valid => info[save.n].blk \in Blk) /\ save.blk \in Blk
  BY DEF WritePage, WriteFails, Saving, TypeInv, PointOK, TablesOK, SaveType
<1>1. save.slot \in Slot /\ save.k \in 0 .. DataPages
  BY <1>0 DEF SaveType
<1>2. PICK q : q = flash[save.blk][save.slot]
  OBVIOUS
<1>3. RecordOK(q) /\ FlashOK
  BY <1>0, <1>1, <1>2 DEF TypeInv, FlashOK
<1>4. CASE WritePage
  <2>1. PICK r : r = Program(q, save.k, TheRecord)
    OBVIOUS
  <2>2. RecordOK(r)
    BY <1>0, <1>1, <1>3, <2>1, ProgramOK, TheRecordOK
  <2>3. flash' = [flash EXCEPT ![save.blk][save.slot] = r]
    BY <1>0, <1>1, <1>2, <1>4, <2>1 DEF WritePage, TypeInv, FlashOK
  <2>4. FlashOK'
    BY <1>0, <1>1, <1>3, <2>2, <2>3, WriteSlotOK
  <2>5. /\ save' \in SaveType /\ save'.n = save.n /\ save'.val = save.val /\ save'.blk = save.blk
        /\ save'.full = save.full /\ pc' \in {"write", "commit"}
    <3>1. CASE save.k + 1 < RecPages /\ save' = [save EXCEPT !.k = @ + 1] /\ pc' = pc
      <4>1. save.k + 1 \in 0 .. DataPages
        BY <1>1, <3>1, Areas
      <4> QED BY <1>0, <3>1, <4>1 DEF SaveType
    <3>2. CASE save.slot + 1 < Slots /\ save' = [save EXCEPT !.k = 0, !.slot = @ + 1] /\ pc' = pc
      <4>1. save.slot + 1 \in Slot /\ 0 \in 0 .. DataPages
        BY <1>1, <3>2, Areas DEF Slot
      <4> QED BY <1>0, <3>2, <4>1 DEF SaveType
    <3>3. CASE save' = save /\ pc' = "commit"
      BY <1>0, <3>3
    <3> QED BY <1>0, <1>4, <3>1, <3>2, <3>3 DEF WritePage
  <2>6. info' = info
    BY <1>4 DEF WritePage
  <2>7. PointOK'
    BY <1>0, <2>5, <2>6 DEF PointOK, Saving, MovesTo, This, SameBlk
  <2> QED BY <1>4, <2>4, <2>5, <2>6, <2>7 DEF WritePage, TypeInv, history, counters
<1>5. CASE WriteFails
  <2>1. PICK r : r = Spoil(q, save.k)
    OBVIOUS
  <2>2. RecordOK(r)
    BY <1>1, <1>3, <2>1, SpoilOK
  <2>3. flash' = [flash EXCEPT ![save.blk][save.slot] = r]
    BY <1>0, <1>1, <1>2, <1>5, <2>1 DEF WriteFails, TypeInv, FlashOK
  <2>4. FlashOK'
    BY <1>0, <1>1, <1>3, <2>2, <2>3, WriteSlotOK
  <2>5. bad' = bad /\ bbt' = bbt /\ reserved' = reserved /\ torn' = torn /\ unsaved' = unsaved
        /\ env' = env /\ saves' = saves /\ accept' = accept
    BY <1>5 DEF WriteFails
  <2>6. CASE Return(FALSE, info[save.n])
    <3>1. /\ TablesOK' /\ save' \in SaveType /\ PointOK' /\ stuck' \subseteq Name
          /\ pc' \in {"fixcfg", "dead", "fixenv", "relocate", "ready"}
      BY <1>0, <2>6, ReturnOK
    <3> QED BY <2>4, <2>5, <3>1 DEF TypeInv, TablesOK
  <2>7. CASE /\ save.tests < MaxTest /\ save' = [save EXCEPT !.tests = @ + 1]
             /\ pc' = "test" /\ info' = info /\ stuck' = stuck
    <3>1. save.tests + 1 \in 0 .. MaxTest
      BY <1>0, <2>7, Areas DEF SaveType
    <3>2. save' \in SaveType /\ save'.n = save.n /\ save'.val = save.val /\ save'.blk = save.blk
      BY <1>0, <2>7, <3>1 DEF SaveType
    <3>3. PointOK'
      BY <1>0, <2>7, <3>2 DEF PointOK, Saving
    <3> QED BY <2>4, <2>5, <2>7, <3>2, <3>3 DEF TypeInv
  <2> QED BY <1>5, <2>6, <2>7 DEF WriteFails
<1> QED BY <1>4, <1>5

LEMMA TypeTest ==
  ASSUME TypeInv, TestPasses \/ TestFails
  PROVE  TypeInv'
<1>0. /\ pc = "test" /\ Saving /\ save.n \in Name /\ save \in SaveType
      /\ save.val \in SaveVal(save.n) /\ save.blk \in Blk /\ FlashOK
  BY DEF TestPasses, TestFails, Saving, TypeInv, PointOK
<1>1. FlashOK' /\ bad' \subseteq Blk /\ bbt' \in Blk /\ reserved' \subseteq Blk
  <2>1. CASE TestPasses
    <3>1. FlashOK'
      BY <1>0, <2>1, BlankOK, WriteBlockOK DEF TestPasses, EraseBlk
    <3> QED BY <2>1, <3>1 DEF TestPasses, ram, TypeInv
  <2>2. CASE TestFails
    <3>1. PICK f \in TestLeft(save.blk), ok \in BOOLEAN : MarkBad(save.blk, f, ok, {})
      BY <2>2 DEF TestFails
    <3>2. FlashAs(f)
      BY <1>0, TestLeftOK
    <3> QED BY <1>0, <3>1, <3>2, MarkBadOK
  <2> QED BY <2>1, <2>2
<1>2. pc' = "getblk" /\ UNCHANGED <<info, save, env, accept, unsaved, stuck, torn, saves>>
  BY DEF TestPasses, TestFails, ram, history, counters
<1>3. PointOK'
  BY <1>0, <1>2 DEF PointOK, Saving
<1> QED BY <1>1, <1>2, <1>3 DEF TypeInv

\* The tables after the record is written.
LEMMA CommitTo ==
  ASSUME TypeInv, Commit
  PROVE  LET i == info[save.n]  j == info'[save.n] IN
         /\ info' = [info EXCEPT ![save.n] = j]
         /\ j \in InfoType /\ j.valid = i.valid /\ j.blk = save.blk /\ j.ts = i.ts /\ j.update = i.update
         /\ ~i.valid => j.slot = i.slot
         /\ i.valid /\ MovesTo(i) => j.slot = 0
         /\ ~MovesTo(i) => SameBlk(i) /\ j.slot = i.slot + 1
         /\ save' = [save EXCEPT !.old = save'.old] /\ save'.old \in 0 .. NBlk
         /\ save'.n = save.n /\ save'.val = save.val /\ save'.again = save.again
         /\ save'.then = save.then
         /\ save' \in SaveType /\ save'.tests = save.tests /\ save'.full = save.full
         /\ i.valid /\ MovesTo(i) => save'.old = i.blk
<1>0. /\ pc = "commit" /\ Saving /\ save.n \in Name /\ save \in SaveType
      /\ (SameBlk(info[save.n]) \/ MovesTo(info[save.n]))
      /\ info[save.n] \in InfoType /\ info \in [Name -> InfoType]
      /\ (info[save.n].valid => info[save.n].blk \in Blk) /\ save.blk \in Blk
  BY DEF Commit, Saving, TypeInv, PointOK, This
<1>1. PICK i : i = info[save.n]
  OBVIOUS
<1>2. PICK s : s = IF ~i.valid THEN i.slot ELSE IF MovesTo(i) THEN 0 ELSE i.slot + 1
  OBVIOUS
<1>3. s \in Slot
  BY <1>0, <1>1, <1>2, Areas DEF SameBlk, InfoType, Slot
<1>4. PICK j : j = [i EXCEPT !.blk = save.blk, !.slot = s]
  OBVIOUS
<1>5. save.blk \in 0 .. NBlk /\ i \in InfoType
  BY <1>0, <1>1, Areas
<1>6. j \in InfoType /\ j.valid = i.valid /\ j.blk = save.blk /\ j.slot = s /\ j.ts = i.ts
      /\ j.update = i.update
  BY <1>3, <1>4, <1>5 DEF InfoType
<1>7. info' = [info EXCEPT ![save.n] = j]
  BY <1>1, <1>2, <1>4 DEF Commit
<1>8. j = info'[save.n]
  BY <1>0, <1>7
<1>9. PICK o : o = IF i.valid /\ MovesTo(i) THEN i.blk ELSE 0
  OBVIOUS
<1>10. o \in 0 .. NBlk
  <2>1. i.blk \in 0 .. NBlk /\ 0 \in 0 .. NBlk
    BY <1>5, Areas DEF InfoType
  <2> QED BY <1>9, <2>1
<1>11. save' = [save EXCEPT !.old = o]
  BY <1>1, <1>9 DEF Commit
<1>12. save' \in SaveType /\ save'.old = o /\ save'.n = save.n /\ save'.val = save.val
       /\ save'.again = save.again /\ save'.then = save.then /\ save'.full = save.full
       /\ save'.tests = save.tests
  BY <1>0, <1>10, <1>11 DEF SaveType
<1>13. ~MovesTo(i) => SameBlk(i) /\ i.valid
  BY <1>0, <1>1 DEF MovesTo
<1>14. /\ ~i.valid => j.slot = i.slot
       /\ i.valid /\ MovesTo(i) => j.slot = 0
       /\ ~MovesTo(i) => SameBlk(i) /\ j.slot = i.slot + 1
  BY <1>2, <1>6, <1>13
<1>15. i.valid /\ MovesTo(i) => save'.old = i.blk
  BY <1>9, <1>12
<1> QED BY <1>1, <1>6, <1>7, <1>8, <1>10, <1>11, <1>12, <1>14, <1>15

LEMMA TypeCommit ==
  ASSUME TypeInv, Commit
  PROVE  TypeInv'
<1>0. /\ pc = "commit" /\ Saving /\ save.n \in Name /\ save.val \in SaveVal(save.n)
      /\ info[save.n] \in InfoType /\ info \in [Name -> InfoType]
      /\ (info[save.n].valid => info[save.n].blk \in Blk) /\ save.blk \in Blk
      /\ \A n \in Name : info[n].valid => info[n].blk \in Blk
  BY DEF Commit, Saving, TypeInv, PointOK
<1>1. PICK j : j = info'[save.n]
  OBVIOUS
<1>2. info' = [info EXCEPT ![save.n] = j] /\ j \in InfoType /\ j.blk = save.blk
  BY <1>1, CommitTo
<1>3. TablesOK'
  BY <1>0, <1>2 DEF TablesOK
<1>4. save' \in SaveType /\ save'.n = save.n /\ save'.val = save.val
  BY CommitTo
<1>5. pc' \in {"eraseold", "finish"} /\ (pc' = "eraseold" => save'.old \in Blk)
  BY <1>0, CommitTo DEF Commit
<1>6. PointOK'
  BY <1>0, <1>1, <1>2, <1>4, <1>5 DEF PointOK, Saving, This
<1>7. reserved' \subseteq Blk
  BY <1>0 DEF Commit, TypeInv
<1>8. FlashOK'
  BY DEF Commit, TypeInv, FlashOK, RecordOK, Record
<1> QED BY <1>3, <1>4, <1>5, <1>6, <1>7, <1>8 DEF Commit, TypeInv, TablesOK, history, counters

LEMMA TypeEraseOld ==
  ASSUME TypeInv, EraseOld \/ EraseOldFails \/ TestOldPasses
  PROVE  TypeInv'
<1>0. /\ pc \in {"eraseold", "testold"} /\ Saving /\ save.n \in Name /\ save.val \in SaveVal(save.n)
      /\ save.old \in Blk /\ This.blk \in Blk /\ FlashOK
  BY DEF EraseOld, EraseOldFails, TestOldPasses, Saving, TypeInv, PointOK
<1>1. FlashOK' /\ UNCHANGED <<bad, bbt>>
  <2>1. CASE EraseBlk(save.old) /\ UNCHANGED <<bad, bbt>>
    BY <1>0, <2>1, BlankOK, WriteBlockOK DEF EraseBlk, TypeInv
  <2>2. CASE UNCHANGED <<flash, bad, bbt>>
    BY <1>0, <2>2 DEF FlashOK, RecordOK, Record
  <2> QED BY <2>1, <2>2 DEF EraseOld, EraseOldFails, TestOldPasses
<1>2. /\ pc' \in {"testold", "finish"}
      /\ UNCHANGED <<info, save, env, accept, unsaved, stuck, torn, saves>>
      /\ reserved' \subseteq reserved
  BY DEF EraseOld, EraseOldFails, TestOldPasses, ram, history, counters
<1>3. PointOK'
  BY <1>0, <1>2 DEF PointOK, Saving, This
<1> QED BY <1>1, <1>2, <1>3 DEF TypeInv

LEMMA TypeTestOld ==
  ASSUME TypeInv, TestOldFails \/ MarkOldFails
  PROVE  TypeInv'
<1>0. /\ pc = "testold" /\ Saving /\ save.n \in Name /\ save.val \in SaveVal(save.n)
      /\ save.old \in Blk /\ This.blk \in Blk /\ info[save.n] \in InfoType
      /\ (info[save.n].valid => info[save.n].blk \in Blk)
  BY DEF TestOldFails, MarkOldFails, Saving, TypeInv, PointOK
<1>1. FlashOK' /\ bad' \subseteq Blk /\ bbt' \in Blk /\ reserved' \subseteq Blk
  <2>1. PICK f \in TestLeft(save.old), ok \in BOOLEAN, done \in SUBSET Blk : MarkBad(save.old, f, ok, done)
    BY <1>0 DEF TestOldFails, MarkOldFails
  <2>2. FlashAs(f)
    BY <1>0, TestLeftOK
  <2> QED BY <1>0, <2>1, <2>2, MarkBadOK
<1>2. UNCHANGED <<env, accept, unsaved, torn, saves>>
  BY DEF TestOldFails, MarkOldFails, history
<1>3. CASE TestOldFails
  <2>1. pc' = "finish" /\ UNCHANGED <<info, save, stuck>>
    BY <1>3 DEF TestOldFails, history
  <2>2. PointOK'
    BY <1>0, <2>1 DEF PointOK, Saving, This
  <2> QED BY <1>1, <1>2, <2>1, <2>2 DEF TypeInv
<1>4. CASE MarkOldFails
  <2>1. /\ TablesOK' /\ save' \in SaveType /\ PointOK' /\ stuck' \subseteq Name
        /\ pc' \in {"fixcfg", "dead", "fixenv", "relocate", "ready"}
    BY <1>0, <1>4, ReturnOK DEF MarkOldFails
  <2> QED BY <1>1, <1>2, <2>1 DEF TypeInv, TablesOK
<1> QED BY <1>3, <1>4

LEMMA TypeFinish ==
  ASSUME TypeInv, Finish
  PROVE  TypeInv'
<1>0. /\ pc = "finish" /\ Saving /\ save.n \in Name /\ save.val \in SaveVal(save.n)
      /\ info[save.n] \in InfoType /\ This.blk \in Blk /\ save \in SaveType /\ TablesOK
  BY DEF Finish, Saving, TypeInv, PointOK, TablesOK
<1>1. /\ UNCHANGED <<flash, bad, bbt, reserved, env, saves>>
  BY DEF Finish, counters
<1>2. FlashOK'
  BY <1>1 DEF TypeInv, FlashOK, RecordOK, Record
<1>3. PICK i : i = info[save.n]
  OBVIOUS
<1>4. CASE /\ WriteAgain([i EXCEPT !.valid = TRUE, !.update = FALSE], save.n,
                      [save EXCEPT !.again = TRUE, !.full = FALSE])
           /\ UNCHANGED <<accept, unsaved, stuck, torn>>
  <2>1. PICK j : j = [i EXCEPT !.valid = TRUE, !.update = FALSE]
    OBVIOUS
  <2>2. j \in InfoType /\ j.blk \in Blk
    BY <1>0, <1>3, <2>1 DEF InfoType, This
  <2>3. PICK s : s = [save EXCEPT !.again = TRUE, !.full = FALSE]
    OBVIOUS
  <2>4. s \in SaveType /\ s.n = save.n /\ s.val = save.val
    BY <1>0, <2>3 DEF SaveType
  <2>5. TablesOK' /\ save' = s /\ pc' = "getblk"
    BY <1>0, <1>4, <2>1, <2>2, <2>3, WriteAgainOK
  <2>6. PointOK'
    BY <1>0, <2>4, <2>5 DEF PointOK, Saving
  <2> QED BY <1>1, <1>2, <1>4, <2>4, <2>5, <2>6 DEF TypeInv, TablesOK
<1>5. CASE /\ Return(TRUE, [i EXCEPT !.valid = TRUE])
           /\ accept' = [accept EXCEPT ![save.n] = {save.val}]
           /\ torn' = torn \ {save.n}
           /\ unsaved' = unsaved \ {save.n}
  <2>1. PICK j : j = [i EXCEPT !.valid = TRUE]
    OBVIOUS
  <2>2. j \in InfoType /\ j.blk \in Blk
    BY <1>0, <1>3, <2>1 DEF InfoType, This
  <2>3. /\ TablesOK' /\ save' \in SaveType /\ PointOK' /\ stuck' \subseteq Name
        /\ pc' \in {"fixcfg", "dead", "fixenv", "relocate", "ready"}
    BY <1>0, <1>5, <2>1, <2>2, ReturnOK
  <2>4. accept' \in [Name -> SUBSET Val]
    BY <1>0, <1>5, Constants DEF TypeInv
  <2> QED BY <1>1, <1>2, <1>5, <2>3, <2>4 DEF TypeInv, TablesOK
<1> QED BY <1>3, <1>4, <1>5 DEF Finish

LEMMA TypeStart ==
  ASSUME TypeInv, Start
  PROVE  TypeInv'
<1>0. FlashOK /\ pc = "off"
  BY DEF TypeInv, Start
<1>1. \A n \in Name : Scan(n) \in InfoType /\ (Scan(n).valid => Scan(n).blk \in Blk)
  BY <1>0, ScanOutcome, Constants
<1>2. PICK cnf : cnf = Scan("ncnf")
  OBVIOUS
<1>3. PICK nenv : nenv = IF ReadAt("ncnf", cnf) = Bad THEN NoInfo ELSE Scan("nenv")
  OBVIOUS
<1>4. /\ info' = [n \in Name |-> IF n = "ncnf" THEN cnf ELSE nenv]
      /\ reserved' = {bbt} \union {i.blk : i \in {j \in {cnf, nenv} : j.valid}}
      /\ pc' \in {"dead", "config"}
  BY <1>2, <1>3 DEF Start
<1>5. /\ cnf \in InfoType /\ (cnf.valid => cnf.blk \in Blk)
      /\ nenv \in InfoType /\ (nenv.valid => nenv.blk \in Blk)
  BY <1>1, <1>2, <1>3, Constants DEF Name
<1>6. TablesOK'
  BY <1>4, <1>5 DEF TablesOK
<1>7. reserved' \subseteq Blk
  BY <1>4, <1>5 DEF TypeInv
<1>8. accept' \in [Name -> SUBSET Val]
  <2>1. \A n \in Name : AtStart(n) \in Val
    BY <1>0, <1>1, ReadOutcome, Constants DEF AtStart, Val
  <2> QED BY <2>1 DEF Start
<1>9. UNCHANGED <<flash, bad, bbt, save, env, torn, saves>> /\ unsaved' = {} /\ stuck' = {}
  BY DEF Start, counters
<1>10. FlashOK'
  BY <1>0, <1>9 DEF FlashOK, RecordOK, Record
<1>11. PointOK'
  BY <1>4 DEF PointOK, Saving
<1> QED BY <1>4, <1>6, <1>7, <1>8, <1>9, <1>10, <1>11 DEF TypeInv, TablesOK

\* The steps of a start and the saveenv command.
LEMMA TypeRun ==
  ASSUME TypeInv, Config \/ FixConfig \/ FixEnv \/ Relocate \/ Saveenv
  PROVE  TypeInv'
<1>0. FlashOK /\ TablesOK /\ "ncnf" \in Name /\ "nenv" \in Name
  BY DEF TypeInv, TablesOK, Name
<1>1. \A n \in Name : /\ ReadAt(n, info[n]) \in IF info[n].valid THEN SaveVal(n) ELSE {Absent}
                      /\ (info[n].valid => ReadAt(n, info[n]) \in SaveVal(n))
  BY <1>0, ReadOutcome DEF TablesOK
<1>2. UNCHANGED <<flash, bad, bbt, reserved, stuck, torn>>
  BY DEF Config, FixConfig, FixEnv, Relocate, Saveenv
<1>3. FlashOK'
  BY <1>0, <1>2 DEF FlashOK, RecordOK, Record
<1>4. ASSUME NEW n \in Name, NEW v \in SaveVal(n), NEW then \in {"config", "fixcfg", "fixenv", "ready"},
             SaveInfo(n, v, then), env' \in 0 .. MaxSaves, saves' \in 0 .. MaxSaves
      PROVE  TypeInv'
  <2>1. /\ TablesOK' /\ save' \in SaveType /\ PointOK' /\ pc' = "getblk"
        /\ accept' \in [Name -> SUBSET Val] /\ unsaved' \subseteq Name
    BY <1>4, SaveInfoOK
  <2> QED BY <1>2, <1>3, <1>4, <2>1 DEF TypeInv, TablesOK
<1>5. ASSUME UNCHANGED <<info, save, accept, unsaved>>, pc' \in {"fixcfg", "fixenv", "relocate", "ready"},
             env' \in 0 .. MaxSaves, saves' \in 0 .. MaxSaves
      PROVE  TypeInv'
  <2>1. PointOK'
    BY <1>5 DEF PointOK, Saving
  <2> QED BY <1>2, <1>3, <1>5, <2>1 DEF TypeInv
<1>6. env \in 0 .. MaxSaves /\ saves \in 0 .. MaxSaves /\ MaxSaves \in Nat
  BY Areas DEF TypeInv
<1>7. Cfg \in SaveVal("ncnf") /\ Default \in SaveVal("nenv") /\ Default \in 0 .. MaxSaves
  BY <1>6 DEF SaveVal, Default
<1>8. CASE Config
  BY <1>0, <1>4, <1>5, <1>6, <1>7, <1>8 DEF Config, counters
<1>9. CASE FixConfig
  BY <1>0, <1>1, <1>4, <1>5, <1>6, <1>9 DEF FixConfig, counters
<1>10. CASE FixEnv
  BY <1>0, <1>1, <1>4, <1>5, <1>6, <1>10 DEF FixEnv, counters
<1>11. CASE Relocate
  <2>1. saves' = saves
    BY <1>11 DEF Relocate, counters
  <2>2. CASE env' = Default /\ SaveInfo("nenv", Default, "ready")
    BY <1>0, <1>4, <1>6, <1>7, <2>1, <2>2
  <2>3. PICK v : v = ReadAt("nenv", info["nenv"])
    OBVIOUS
  <2>4. CASE v \notin {Bad, Absent} /\ env' = v /\ pc' = "ready" /\ UNCHANGED <<info, save, accept, unsaved>>
    <3>1. v \in SaveVal("nenv") \union {Absent}
      BY <1>0, <1>1, <2>3
    <3>2. v \in 0 .. MaxSaves
      BY <2>4, <3>1 DEF SaveVal
    <3> QED BY <1>5, <1>6, <2>1, <2>4, <3>2
  <2> QED BY <1>11, <2>2, <2>3, <2>4 DEF Relocate
<1>12. CASE Saveenv
  <2>1. saves' \in 0 .. MaxSaves /\ env' = saves' /\ SaveInfo("nenv", saves', "ready")
    BY <1>6, <1>12 DEF Saveenv
  <2>2. saves' \in SaveVal("nenv")
    BY <2>1 DEF SaveVal
  <2> QED BY <1>0, <1>4, <2>1, <2>2
<1> QED BY <1>8, <1>9, <1>10, <1>11, <1>12

LEMMA TypeCrash ==
  ASSUME TypeInv, Crash
  PROVE  TypeInv'
<1>0. FlashOK /\ save \in SaveType
  BY DEF TypeInv
<1>1. FlashOK'
  <2>1. CASE flash' = flash
    BY <1>0, <2>1 DEF FlashOK, RecordOK, Record
  <2>2. CASE pc = "write" /\ flash' = [flash EXCEPT ![save.blk][save.slot] = Spoil(@, save.k)]
    <3>1. save.blk \in Blk /\ save.slot \in Slot /\ save.k \in 0 .. DataPages
      BY <1>0, <2>2 DEF SaveType, TypeInv, PointOK
    <3>2. PICK r : r = Spoil(flash[save.blk][save.slot], save.k)
      OBVIOUS
    <3>3. RecordOK(r)
      BY <1>0, <3>1, <3>2, SpoilOK DEF FlashOK
    <3>4. flash' = [flash EXCEPT ![save.blk][save.slot] = r]
      BY <1>0, <2>2, <3>1, <3>2 DEF FlashOK
    <3> QED BY <1>0, <3>1, <3>3, <3>4, WriteSlotOK
  <2>3. CASE pc \in {"erase", "test"} /\ flash' = [flash EXCEPT ![save.blk] = Unusable]
    <3>1. save.blk \in Blk
      BY <2>3 DEF TypeInv, PointOK
    <3> QED BY <1>0, <2>3, <3>1, BlankOK, WriteBlockOK
  <2>4. CASE pc = "eraseold" /\ flash' = [flash EXCEPT ![save.old] = Unusable]
    <3>1. save.old \in Blk
      BY <2>4 DEF TypeInv, PointOK
    <3> QED BY <1>0, <2>4, <3>1, BlankOK, WriteBlockOK
  <2>5. ASSUME NEW b \in Blk, Saving, flash' \in TestLeft(b)
        PROVE  FlashOK'
    <3>1. PICK f \in TestLeft(b) : flash' = f
      BY <2>5
    <3>2. FlashAs(f)
      BY <2>5, <3>1, TestLeftOK
    <3> QED BY <3>1, <3>2 DEF FlashOK, FlashAs, BlockOK, RecordOK, Record
  <2>6. /\ pc = "test" => save.blk \in Blk /\ Saving
        /\ pc = "testold" => save.old \in Blk /\ Saving
    BY DEF TypeInv, PointOK, Saving
  <2>7. CASE pc = "testold" /\ flash' = [flash EXCEPT ![save.old] = Unusable]
    BY <1>0, <2>6, <2>7, BlankOK, WriteBlockOK
  <2> QED BY <2>1, <2>2, <2>3, <2>4, <2>5, <2>6, <2>7 DEF Crash
<1>2. /\ torn' \subseteq Name /\ info' = [n \in Name |-> NoInfo] /\ reserved' = {} /\ save' = NoSave
      /\ env' = 0 /\ pc' = "off" /\ UNCHANGED <<bad, bbt, accept, unsaved, stuck, saves>>
  BY DEF Crash, TypeInv, Default
<1>3. TablesOK'
  BY <1>2, Constants DEF TablesOK
<1>4. PointOK'
  BY <1>2 DEF PointOK, Saving
<1>5. save' \in SaveType /\ 0 \in 0 .. MaxSaves
  BY <1>2, Constants, Areas
<1> QED BY <1>1, <1>2, <1>3, <1>4, <1>5 DEF TypeInv, TablesOK

LEMMA TypeStep == TypeInv /\ [Next]_vars => TypeInv'
<1> SUFFICES ASSUME TypeInv, [Next]_vars PROVE TypeInv'
  OBVIOUS
<1>1. CASE UNCHANGED vars
  BY <1>1 DEF TypeInv, vars, ram, history, counters, FlashOK, RecordOK, Record, PointOK, Saving, This,
     MovesTo, SameBlk
<1>2. CASE SaveStep
  BY <1>2, TypeGetBlk, TypeErase, TypeWrite, TypeTest, TypeCommit, TypeEraseOld, TypeTestOld,
     TypeFinish DEF SaveStep
<1>3. CASE StartStep \/ Saveenv
  BY <1>3, TypeStart, TypeRun DEF StartStep
<1>4. CASE Crash
  BY <1>4, TypeCrash
<1> QED BY <1>1, <1>2, <1>3, <1>4 DEF Next, Rest

\* The same for the places and the values at each point of a save.
THEOREM InfoTypeInv == Spec => []TypeInv
BY TypeInit, TypeStep, PTL DEF Spec

\* The variables keep their types: in particular a block that the driver is
\* to erase or to write is always one of the reserved area, and the records
\* never run past the end of a block (amlnand_save_info_by_name()).
THEOREM InfoTypeCorrect == Spec => []TypeOK
BY InfoTypeInv, TypeInvGivesTypes, PTL

-----------------------------------------------------------------------------
(***************************************************************************)
(* A save ends.                                                            *)
(***************************************************************************)
\* What is left to do is counted in natural numbers.
LEMMA LeftNat ==
  ASSUME TypeInv', Saving'
  PROVE  \A i \in 1 .. 5 : Left'[i] \in Nat
<1>1. /\ save'.tests \in 0 .. MaxTest /\ save'.blk \in 0 .. NBlk /\ save'.slot \in Slot
      /\ save'.k \in 0 .. DataPages
  BY DEF TypeInv, SaveType
<1>2. save'.slot \in Nat /\ save'.slot < Slots
  BY <1>1, Areas
<1>3. /\ MaxTest - save'.tests \in Nat /\ NBlk - save'.blk \in Nat
      /\ Slots - save'.slot \in Nat /\ RecPages - save'.k \in Nat
  <2>1. MaxTest - save'.tests \in Nat /\ NBlk - save'.blk \in Nat
    BY <1>1, Areas
  <2>2. Slots - save'.slot \in Nat
    BY <1>2, Areas
  <2>3. RecPages - save'.k \in Nat
    BY <1>1, Areas
  <2> QED BY <2>1, <2>2, <2>3
<1>4. Stage' \in Nat
  BY DEF Stage, Saving
<1> QED BY <1>3, <1>4 DEF Left

\* A step within a save leaves it less to do.
LEMMA StepLess ==
  ASSUME TypeInv, TypeInv', SaveStep, Saving, Saving'
  PROVE  Less(Left', Left)
<1> DEFINE SameRound == save'.again = save.again /\ save'.tests = save.tests
           Same      == SameRound /\ pc' = pc
<1>0. /\ save.tests \in Int /\ save.blk \in Int /\ save.slot \in Int /\ save.k \in Int
      /\ save'.tests \in Int /\ save'.blk \in Int /\ save'.slot \in Int /\ save'.k \in Int
      /\ MaxTest \in Int /\ NBlk \in Int /\ Slots \in Int /\ RecPages \in Int
  <2>1. save \in SaveType /\ save' \in SaveType
    BY DEF TypeInv
  <2>2. save.slot \in Slot /\ save'.slot \in Slot
    BY <2>1 DEF SaveType
  <2>3. save.slot \in Int /\ save'.slot \in Int
    BY <2>2, InfoAssumption DEF Slot
  <2> QED BY <2>1, <2>3, Areas DEF SaveType
<1>1. ASSUME NEW ok \in BOOLEAN, Return(ok, info[save.n]) PROVE FALSE
  BY <1>1 DEF Return, Saving, TypeInv, SaveType
<1>2. ASSUME SameRound, Stage' < Stage PROVE Less(Left', Left)
  BY <1>2 DEF Left, Less
<1>3. ASSUME Same, pc = "erase", save'.blk > save.blk PROVE Less(Left', Left)
  <2>1. NBlk - save'.blk < NBlk - save.blk
    BY <1>0, <1>3
  <2> QED BY <1>3, <2>1 DEF Left, Less, Stage
<1>4. ASSUME Same, pc = "write", save'.slot > save.slot PROVE Less(Left', Left)
  <2>1. Slots - save'.slot < Slots - save.slot
    BY <1>0, <1>4
  <2> QED BY <1>4, <2>1 DEF Left, Less, Stage
<1>5. ASSUME Same, pc = "write", save'.slot = save.slot, save'.k > save.k PROVE Less(Left', Left)
  <2>1. RecPages - save'.k < RecPages - save.k
    BY <1>0, <1>5
  <2> QED BY <1>5, <2>1 DEF Left, Less, Stage
<1>6. CASE GetBlk
  <2>1. SameRound /\ pc = "getblk" /\ pc' \in {"write", "erase"}
    BY <1>1, <1>6 DEF GetBlk, TypeInv, SaveType
  <2> QED BY <1>2, <2>1 DEF Stage
<1>7. CASE EraseFree \/ TestPasses \/ TestFails \/ EraseOld \/ EraseOldFails
           \/ TestOldPasses \/ TestOldFails
  <2>1. save' = save /\ <<pc, pc'>> \in {<<"erase", "write">>, <<"test", "getblk">>,
          <<"eraseold", "finish">>, <<"eraseold", "testold">>, <<"testold", "finish">>}
    BY <1>7 DEF EraseFree, TestPasses, TestFails, EraseOld, EraseOldFails, TestOldPasses,
       TestOldFails, ram
  <2> QED BY <1>2, <2>1 DEF Stage
<1>8. CASE Commit
  <2>1. SameRound /\ pc = "commit" /\ pc' \in {"eraseold", "finish"}
    BY <1>8 DEF Commit, TypeInv, SaveType
  <2> QED BY <1>2, <2>1 DEF Stage
<1>9. CASE EraseFreeFails
  <2>1. PICK next : /\ next = {b \in FreeBlks(reserved', save.skip) : b > save.blk}
                    /\ next # {} /\ save' = [save EXCEPT !.blk = Min(next)] /\ pc' = pc
    BY <1>1, <1>9 DEF EraseFreeFails
  <2>2. next \in SUBSET Nat
    BY <2>1, Areas DEF FreeBlks
  <2>3. Min(next) \in next
    BY <2>1, <2>2, MinIs
  <2>4. Same /\ save'.blk = Min(next) /\ pc = "erase"
    BY <1>9, <2>1 DEF EraseFreeFails, TypeInv, SaveType
  <2>5. save'.blk > save.blk
    BY <2>1, <2>3, <2>4
  <2> QED BY <1>3, <2>4, <2>5
<1>10. CASE WritePage
  <2>1. CASE save' = [save EXCEPT !.k = @ + 1] /\ pc' = pc
    <3>1. Same /\ save'.slot = save.slot /\ save'.k = save.k + 1
      BY <2>1 DEF TypeInv, SaveType
    <3> QED BY <1>0, <1>5, <1>10, <3>1 DEF WritePage
  <2>2. CASE save' = [save EXCEPT !.k = 0, !.slot = @ + 1] /\ pc' = pc
    <3>1. Same /\ save'.slot = save.slot + 1
      BY <2>2 DEF TypeInv, SaveType
    <3> QED BY <1>0, <1>4, <1>10, <3>1 DEF WritePage
  <2>3. CASE save' = save /\ pc' = "commit"
    BY <1>2, <1>10, <2>3 DEF WritePage, Stage
  <2> QED BY <1>10, <2>1, <2>2, <2>3 DEF WritePage
<1>11. CASE WriteFails
  <2>1. save' = [save EXCEPT !.tests = @ + 1]
    BY <1>1, <1>11 DEF WriteFails
  <2>2. save'.again = save.again /\ save'.tests = save.tests + 1
    BY <2>1 DEF TypeInv, SaveType
  <2>3. MaxTest - save'.tests < MaxTest - save.tests
    BY <1>0, <2>2
  <2> QED BY <2>2, <2>3 DEF Left, Less
<1>12. CASE MarkOldFails
  BY <1>1, <1>12 DEF MarkOldFails
<1>13. CASE Finish
  <2>1. ASSUME NEW i, Return(TRUE, i) PROVE FALSE
    BY <2>1 DEF Return, Saving, TypeInv, SaveType
  <2>2. ~save.again /\ save' = [save EXCEPT !.again = TRUE, !.full = FALSE]
    BY <1>13, <2>1 DEF Finish, WriteAgain
  <2>3. save'.again
    BY <2>2 DEF TypeInv, SaveType
  <2> QED BY <2>2, <2>3 DEF Left, Less
<1> QED BY <1>6, <1>7, <1>8, <1>9, <1>10, <1>11, <1>12, <1>13 DEF SaveStep

\* A save comes to an end however many operations of the flash fail, and in
\* whatever order: the loops of amlnand_save_info_by_name() over blocks,
\* records, pages, tests and copies run down a lexicographic measure.
THEOREM SavesEnd == Spec => SaveEnds
<1>1. TypeInv /\ TypeInv' /\ [Next]_vars =>
        [Saving /\ Saving' => (\A i \in 1 .. 5 : Left'[i] \in Nat) /\ Less(Left', Left)]_vars
  <2> SUFFICES ASSUME TypeInv, TypeInv', Next, Saving, Saving'
               PROVE  (\A i \in 1 .. 5 : Left'[i] \in Nat) /\ Less(Left', Left)
    OBVIOUS
  <2>1. SaveStep
    BY DEF Next, StartStep, Start, Config, FixConfig, FixEnv, Relocate, Saveenv, Crash, Rest, Saving
  <2> QED BY <2>1, LeftNat, StepLess
<1> QED BY <1>1, InfoTypeInv, PTL DEF Spec, SaveEnds

-----------------------------------------------------------------------------
(***************************************************************************)
(* Who owns which block.  The items and the bad block table have blocks of *)
(* their own, all of them in reserved_blk[], and the block that a save     *)
(* erases or writes is neither another item's nor the table's.             *)
(***************************************************************************)
KnownBlocks == \A n \in Name : info[n].valid => info[n].blk \in reserved
OwnBlocks   == \A m, n \in Name : m # n /\ info[m].valid /\ info[n].valid => info[m].blk # info[n].blk
Spares(b)   == \A n \in Name \ {save.n} : info[n].valid => info[n].blk # b

PointPlace ==
  /\ pc \in {"erase", "write", "test", "commit"} => Spares(save.blk) /\ save.blk # bbt
  /\ pc \in {"getblk", "erase", "write", "test", "commit"} /\ save.full => ~SameBlk(This)
  /\ pc = "erase" => save.blk \notin reserved /\ ~SameBlk(This)
  /\ pc \in {"write", "commit"} => IF SameBlk(This) THEN save.blk = This.blk
                                   ELSE save.blk \notin reserved
  /\ pc \in {"eraseold", "testold", "finish"} =>
       Spares(This.blk) /\ This.blk \in reserved /\ This.blk # bbt
  /\ pc \in {"eraseold", "testold"} =>
       Spares(save.old) /\ save.old # This.blk /\ save.old \in reserved /\ save.old # bbt

TablePlace ==
  /\ flash[bbt] = Table /\ (bad = {} => bbt = 1)
  /\ pc # "off" => bbt \in reserved
  /\ \A n \in Name : info[n].valid => info[n].blk # bbt

PlaceInv ==
  /\ pc = "off" => \A n \in Name : ~info[n].valid
  /\ KnownBlocks /\ OwnBlocks /\ PointPlace /\ TablePlace

\* What a return and the begin of a copy leave in the tables.
LEMMA ReturnTo ==
  ASSUME TypeInv, Saving, NEW ok \in BOOLEAN, NEW i \in InfoType, Return(ok, i)
  PROVE  LET j == info'[save.n] IN
         /\ info' = [info EXCEPT ![save.n] = j] /\ j \in InfoType
         /\ j.valid = i.valid /\ j.blk = i.blk /\ j.slot = i.slot /\ j.ts = i.ts
         /\ j.update = (i.update /\ save.then \notin {"fixcfg", "fixenv"})
         /\ save' = NoSave /\ pc' \in {"fixcfg", "dead", "fixenv", "relocate", "ready"}
         /\ \A n \in Name \ {save.n} : info'[n] = info[n]
<1>0. save.n \in Name /\ info \in [Name -> InfoType]
      /\ save.then \in {"config", "fixcfg", "fixenv", "ready"}
  BY DEF TypeInv, PointOK, SaveType
<1>1. pc' \in {"fixcfg", "dead", "fixenv", "relocate", "ready"} /\ save' = NoSave
  BY <1>0 DEF Return
<1>2. PICK u \in BOOLEAN : u = (i.update /\ save.then \notin {"fixcfg", "fixenv"})
  OBVIOUS
<1>3. PICK j : j = [i EXCEPT !.update = u]
  OBVIOUS
<1>4. /\ j \in InfoType /\ j.valid = i.valid /\ j.blk = i.blk /\ j.slot = i.slot /\ j.ts = i.ts
      /\ j.update = u
  BY <1>3 DEF InfoType
<1>5. info' = [info EXCEPT ![save.n] = j]
  BY <1>2, <1>3 DEF Return
<1>6. j = info'[save.n] /\ \A n \in Name \ {save.n} : info'[n] = info[n]
  BY <1>0, <1>5
<1> QED BY <1>1, <1>2, <1>4, <1>5, <1>6

LEMMA AgainTo ==
  ASSUME TypeInv, NEW n \in Name, NEW i \in InfoType, NEW s, WriteAgain(i, n, s)
  PROVE  LET j == info'[n] IN
         /\ info' = [info EXCEPT ![n] = j] /\ j \in InfoType
         /\ j.valid = i.valid /\ j.blk = i.blk /\ j.slot = i.slot /\ j.update = i.update
         /\ save' = s /\ pc' = "getblk"
         /\ \A m \in Name \ {n} : info'[m] = info[m]
<1>0. info \in [Name -> InfoType]
  BY DEF TypeInv
<1>1. PICK t : t = (i.ts + 1) % TsSize
  OBVIOUS
<1>2. t \in 0 .. TsSize - 1
  BY <1>1, Areas DEF InfoType
<1>3. PICK j : j = [i EXCEPT !.ts = t]
  OBVIOUS
<1>4. /\ j \in InfoType /\ j.valid = i.valid /\ j.blk = i.blk /\ j.slot = i.slot
      /\ j.update = i.update
  BY <1>2, <1>3 DEF InfoType
<1>5. info' = [info EXCEPT ![n] = j]
  BY <1>1, <1>3 DEF WriteAgain
<1>6. j = info'[n] /\ \A m \in Name \ {n} : info'[m] = info[m]
  BY <1>0, <1>5
<1>7. save' = s /\ pc' = "getblk"
  BY DEF WriteAgain
<1> QED BY <1>4, <1>5, <1>6, <1>7

\* The items stay where they are and a save has not taken a block yet.
LEMMA PlaceMoved ==
  ASSUME PlaceInv, flash'[bbt'] = Table, bad' = {} => bbt' = 1, bbt' \in reserved',
         \A n \in Name : info[n].valid => info[n].blk \in reserved' /\ info[n].blk # bbt',
         \A n \in Name : info'[n].valid = info[n].valid /\ info'[n].blk = info[n].blk,
         pc' \in {"dead", "config", "fixcfg", "fixenv", "relocate", "ready", "getblk"},
         pc' = "getblk" /\ save'.full => ~SameBlk(This)'
  PROVE  PlaceInv'
<1>1. KnownBlocks' /\ OwnBlocks'
  BY DEF PlaceInv, KnownBlocks, OwnBlocks
<1>2. PointPlace'
  BY DEF PointPlace
<1>3. TablePlace'
  BY DEF TablePlace
<1> QED BY <1>1, <1>2, <1>3 DEF PlaceInv

LEMMA PlaceKept ==
  ASSUME PlaceInv, pc # "off", UNCHANGED <<bad, bbt, reserved>>, flash'[bbt] = flash[bbt],
         \A n \in Name : info'[n].valid = info[n].valid /\ info'[n].blk = info[n].blk,
         pc' \in {"dead", "config", "fixcfg", "fixenv", "relocate", "ready", "getblk"},
         pc' = "getblk" => ~save'.full
  PROVE  PlaceInv'
<1>1. /\ flash'[bbt'] = Table /\ (bad' = {} => bbt' = 1) /\ bbt' \in reserved'
      /\ \A n \in Name : info[n].valid => info[n].blk \in reserved' /\ info[n].blk # bbt'
  BY DEF PlaceInv, KnownBlocks, TablePlace
<1> QED BY <1>1, PlaceMoved

\* Marking a block bad moves the table to a block that is nobody's; the
\* blocks in use stay in reserved_blk[], but for those that are released.
LEMMA MarkBadPlace ==
  ASSUME TypeInv, NEW b \in Blk, NEW f, FlashAs(f), f[bbt] = Table, bbt \in reserved,
         NEW ok \in BOOLEAN, NEW done \in SUBSET (reserved \ {bbt}), MarkBad(b, f, ok, done)
  PROVE  /\ flash'[bbt'] = Table /\ bbt' \in reserved' /\ bad' # {}
         /\ \A x \in reserved \ {bbt} : /\ x # bbt' /\ flash'[x] = f[x]
                                        /\ x \notin done => x \in reserved'
<1>1. bad' # {} /\ bbt \in Blk /\ reserved \subseteq Blk
  BY DEF MarkBad, TypeInv
<1>2. CASE flash' = f /\ reserved' = reserved \ done /\ bbt' = bbt
  BY <1>1, <1>2
<1>3. ASSUME NEW c \in TableBlks(b), flash' = [f EXCEPT ![c] = Table, ![bbt] = Zeroed(ok)],
             bbt' = c, reserved' = (reserved \union {c}) \ ({bbt} \union done)
      PROVE  /\ flash'[bbt'] = Table /\ bbt' \in reserved'
             /\ \A x \in reserved \ {bbt} : /\ x # bbt' /\ flash'[x] = f[x]
                                            /\ x \notin done => x \in reserved'
  <2>1. c \in Blk /\ c \notin reserved /\ c # bbt
    BY TableBlkIs
  <2> QED BY <1>1, <1>3, <2>1 DEF FlashAs
<1> QED BY <1>1, <1>2, <1>3 DEF MarkBad

LEMMA PlaceGetBlk ==
  ASSUME TypeInv, PlaceInv, GetBlk
  PROVE  PlaceInv'
<1>0. /\ pc = "getblk" /\ Saving /\ save.n \in Name /\ save \in SaveType
      /\ info[save.n] \in InfoType /\ UNCHANGED <<flash, bad, bbt, reserved>>
      /\ (info[save.n].valid => info[save.n].blk \in Blk)
      /\ KnownBlocks /\ OwnBlocks /\ (save.full => ~SameBlk(This)) /\ TablePlace
  BY DEF GetBlk, Saving, TypeInv, PointOK, PlaceInv, PointPlace
<1>2. PICK i : i = info[save.n]
  OBVIOUS
<1>3. CASE SameBlk(i) /\ pc' = "write" /\ info' = info
           /\ save' = [save EXCEPT !.blk = i.blk, !.slot = i.slot + 1, !.k = 0]
  <2>1. save'.n = save.n /\ save'.blk = i.blk /\ save'.full = save.full
    BY <1>0, <1>3 DEF SaveType
  <2>2. SameBlk(This)' /\ ~save'.full
    BY <1>0, <1>2, <1>3, <2>1 DEF SameBlk, This
  <2>3. KnownBlocks' /\ OwnBlocks'
    BY <1>0, <1>3 DEF KnownBlocks, OwnBlocks
  <2>4. i.valid
    BY <1>3 DEF SameBlk
  <2>5. Spares(save.blk)'
    BY <1>0, <1>2, <1>3, <2>1, <2>4 DEF Spares, OwnBlocks
  <2>6. save'.blk # bbt'
    BY <1>0, <1>2, <2>1, <2>4 DEF TablePlace
  <2>7. PointPlace'
    BY <1>2, <1>3, <2>1, <2>2, <2>5, <2>6 DEF PointPlace, This
  <2>8. TablePlace'
    BY <1>0, <1>3 DEF TablePlace
  <2> QED BY <1>3, <2>3, <2>7, <2>8 DEF PlaceInv
<1>4. CASE /\ ~SameBlk(i) /\ FreeBlks(reserved, save.blk) # {} /\ pc' = "erase" /\ info' = info
           /\ save' = [save EXCEPT !.blk = Min(FreeBlks(reserved, save.blk)), !.skip = save.blk,
                                   !.slot = 0, !.k = 0,
                                   !.full = i.valid /\ ~i.update /\ ~FullBlk(save.n)]
  <2>1. PICK b : b = Min(FreeBlks(reserved, save.blk))
    OBVIOUS
  <2>2. b \notin reserved
    BY <1>4, <2>1, MinIs, Areas DEF FreeBlks
  <2>3. save'.n = save.n /\ save'.blk = b
    BY <1>0, <1>4, <2>1 DEF SaveType
  <2>4. ~SameBlk(This)'
    BY <1>0, <1>2, <1>4, <2>3 DEF SameBlk, This
  <2>5. KnownBlocks' /\ OwnBlocks'
    BY <1>0, <1>4 DEF KnownBlocks, OwnBlocks
  <2>6. Spares(save.blk)'
    BY <1>0, <1>4, <2>2, <2>3 DEF Spares, KnownBlocks
  <2>7. save'.blk # bbt'
    BY <1>0, <2>2, <2>3 DEF TablePlace
  <2>8. PointPlace'
    BY <1>0, <1>4, <2>2, <2>3, <2>4, <2>6, <2>7 DEF PointPlace
  <2>9. TablePlace'
    BY <1>0, <1>4 DEF TablePlace
  <2> QED BY <1>4, <2>5, <2>8, <2>9 DEF PlaceInv
<1>5. CASE Return(FALSE, i)
  <2>1. /\ info'[save.n].valid = i.valid /\ info'[save.n].blk = i.blk
        /\ pc' \in {"fixcfg", "dead", "fixenv", "relocate", "ready"}
        /\ \A n \in Name \ {save.n} : info'[n] = info[n]
    BY <1>0, <1>2, <1>5, ReturnTo
  <2>2. \A n \in Name : info'[n].valid = info[n].valid /\ info'[n].blk = info[n].blk
    BY <1>2, <2>1
  <2>3. pc' # "getblk" /\ pc' \in {"dead", "config", "fixcfg", "fixenv", "relocate", "ready", "getblk"}
    BY <2>1
  <2> QED BY <1>0, <2>2, <2>3, PlaceKept
<1> QED BY <1>2, <1>3, <1>4, <1>5 DEF GetBlk

LEMMA PlaceErase ==
  ASSUME TypeInv, PlaceInv, EraseFree \/ EraseFreeFails
  PROVE  PlaceInv'
<1>0. /\ pc = "erase" /\ Saving /\ save.n \in Name /\ save \in SaveType /\ save.blk \in Blk
      /\ info[save.n] \in InfoType /\ Spares(save.blk) /\ save.blk \notin reserved
      /\ KnownBlocks /\ OwnBlocks /\ ~SameBlk(This) /\ TablePlace /\ save.blk # bbt
      /\ FlashOK /\ bbt \in Blk
  BY DEF EraseFree, EraseFreeFails, Saving, TypeInv, PointOK, PlaceInv, PointPlace
<1>1. CASE EraseFree
  <2>1. pc' = "write" /\ UNCHANGED <<info, save, reserved, bad, bbt>>
    BY <1>1 DEF EraseFree, ram
  <2>2. KnownBlocks' /\ OwnBlocks' /\ Spares(save.blk)' /\ ~SameBlk(This)'
    BY <1>0, <2>1 DEF KnownBlocks, OwnBlocks, Spares, SameBlk, This
  <2>3. PointPlace'
    BY <1>0, <2>1, <2>2 DEF PointPlace
  <2>4. flash'[bbt] = flash[bbt]
    BY <1>0, <1>1 DEF EraseFree, EraseBlk, FlashOK
  <2>5. TablePlace'
    BY <1>0, <2>1, <2>4 DEF TablePlace
  <2> QED BY <2>1, <2>2, <2>3, <2>5 DEF PlaceInv
<1>2. CASE EraseFreeFails
  <2>0. /\ flash'[bbt'] = Table /\ bbt' \in reserved' /\ bad' # {}
        /\ \A n \in Name : info[n].valid => info[n].blk \in reserved' /\ info[n].blk # bbt'
    <3>1. FlashAs(flash)
      BY <1>0 DEF FlashOK, FlashAs, BlockOK
    <3>2. PICK ok \in BOOLEAN : MarkBad(save.blk, flash, ok, {})
      BY <1>2 DEF EraseFreeFails
    <3>3. /\ flash'[bbt'] = Table /\ bbt' \in reserved' /\ bad' # {}
          /\ \A x \in reserved \ {bbt} : x # bbt' /\ x \in reserved'
      BY <1>0, <3>1, <3>2, MarkBadPlace DEF TablePlace
    <3> QED BY <1>0, <3>3 DEF TablePlace, KnownBlocks
  <2>1. PICK next : next = {b \in FreeBlks(reserved', save.skip) : b > save.blk}
    OBVIOUS
  <2>2. CASE next # {} /\ save' = [save EXCEPT !.blk = Min(next)] /\ UNCHANGED <<pc, info, stuck, wfail>>
    <3>1. PICK b : b = Min(next)
      OBVIOUS
    <3>2. b \notin reserved'
      BY <2>1, <2>2, <3>1, MinIs, Areas DEF FreeBlks
    <3>3. save'.n = save.n /\ save'.blk = b
      BY <1>0, <2>2, <3>1 DEF SaveType
    <3>4. KnownBlocks' /\ OwnBlocks' /\ ~SameBlk(This)'
      BY <1>0, <2>0, <2>2, <3>3 DEF KnownBlocks, OwnBlocks, SameBlk, This
    <3>5. Spares(save.blk)' /\ save'.blk # bbt'
      BY <2>0, <2>2, <3>2, <3>3 DEF Spares
    <3>6. PointPlace'
      BY <1>0, <2>2, <3>2, <3>3, <3>4, <3>5 DEF PointPlace
    <3>7. TablePlace'
      BY <2>0, <2>2 DEF TablePlace
    <3> QED BY <1>0, <2>2, <3>4, <3>6, <3>7 DEF PlaceInv
  <2>3. CASE Return(FALSE, info[save.n])
    <3>1. /\ info'[save.n].valid = info[save.n].valid /\ info'[save.n].blk = info[save.n].blk
          /\ pc' \in {"fixcfg", "dead", "fixenv", "relocate", "ready"}
          /\ \A n \in Name \ {save.n} : info'[n] = info[n]
      BY <1>0, <2>3, ReturnTo
    <3>2. \A n \in Name : info'[n].valid = info[n].valid /\ info'[n].blk = info[n].blk
      BY <3>1
    <3>3. pc' # "getblk" /\ pc' \in {"dead", "config", "fixcfg", "fixenv", "relocate", "ready", "getblk"}
      BY <3>1
    <3> QED BY <2>0, <3>2, <3>3, PlaceMoved
  <2> QED BY <1>2, <2>1, <2>2, <2>3 DEF EraseFreeFails
<1> QED BY <1>1, <1>2

LEMMA PlaceWrite ==
  ASSUME TypeInv, PlaceInv, WritePage \/ WriteFails
  PROVE  PlaceInv'
<1>0. /\ pc = "write" /\ Saving /\ save.n \in Name /\ save \in SaveType
      /\ UNCHANGED <<reserved, bad, bbt>> /\ TablePlace /\ save.blk # bbt
      /\ info[save.n] \in InfoType /\ Spares(save.blk) /\ (save.full => ~SameBlk(This))
      /\ (IF SameBlk(This) THEN save.blk = This.blk ELSE save.blk \notin reserved)
      /\ KnownBlocks /\ OwnBlocks /\ FlashOK /\ bbt \in Blk
  BY DEF WritePage, WriteFails, Saving, TypeInv, PointOK, PlaceInv, PointPlace
<1>f. flash'[bbt] = flash[bbt]
  BY <1>0 DEF WritePage, WriteFails, FlashOK
<1>1. CASE info' = info /\ save'.n = save.n /\ save'.blk = save.blk /\ save'.full = save.full
           /\ pc' \in {"write", "commit", "test"}
  <2>1. This' = This /\ SameBlk(This)' = SameBlk(This)
    BY <1>1 DEF SameBlk, This
  <2>2. KnownBlocks' /\ OwnBlocks' /\ Spares(save.blk)'
    BY <1>0, <1>1 DEF KnownBlocks, OwnBlocks, Spares
  <2>3. PointPlace'
    BY <1>0, <1>1, <2>1, <2>2 DEF PointPlace
  <2>4. TablePlace'
    BY <1>0, <1>f, <1>1 DEF TablePlace
  <2> QED BY <1>1, <2>2, <2>3, <2>4 DEF PlaceInv
<1>2. CASE WritePage
  <2>1. info' = info /\ save'.n = save.n /\ save'.blk = save.blk /\ save'.full = save.full
        /\ pc' \in {"write", "commit", "test"}
    BY <1>0, <1>2 DEF WritePage, SaveType
  <2> QED BY <1>1, <2>1
<1>3. CASE WriteFails
  <2>1. CASE Return(FALSE, info[save.n])
    <3>1. /\ info'[save.n].valid = info[save.n].valid /\ info'[save.n].blk = info[save.n].blk
          /\ pc' \in {"fixcfg", "dead", "fixenv", "relocate", "ready"}
          /\ \A n \in Name \ {save.n} : info'[n] = info[n]
      BY <1>0, <2>1, ReturnTo
    <3>2. \A n \in Name : info'[n].valid = info[n].valid /\ info'[n].blk = info[n].blk
      BY <3>1
    <3>3. pc' # "getblk" /\ pc' \in {"dead", "config", "fixcfg", "fixenv", "relocate", "ready", "getblk"}
      BY <3>1
    <3> QED BY <1>0, <1>f, <3>2, <3>3, PlaceKept
  <2>2. CASE save' = [save EXCEPT !.tests = @ + 1] /\ pc' = "test" /\ info' = info
    <3>1. save'.n = save.n /\ save'.blk = save.blk /\ save'.full = save.full
      BY <1>0, <2>2 DEF SaveType
    <3> QED BY <1>1, <2>2, <3>1
  <2> QED BY <1>3, <2>1, <2>2 DEF WriteFails
<1> QED BY <1>2, <1>3

LEMMA PlaceTest ==
  ASSUME TypeInv, PlaceInv, TestPasses \/ TestFails
  PROVE  PlaceInv'
<1>0. /\ pc = "test" /\ Saving /\ pc' = "getblk" /\ UNCHANGED <<info, save>> /\ save.blk \in Blk
      /\ KnownBlocks /\ OwnBlocks /\ (save.full => ~SameBlk(This)) /\ TablePlace /\ save.blk # bbt
      /\ FlashOK /\ bbt \in Blk
  BY DEF TestPasses, TestFails, ram, Saving, TypeInv, PointOK, PlaceInv, PointPlace
<1>1. /\ flash'[bbt'] = Table /\ bbt' \in reserved' /\ (bad' = {} => bbt' = 1)
      /\ \A n \in Name : info[n].valid => info[n].blk \in reserved' /\ info[n].blk # bbt'
  <2>1. CASE TestPasses
    <3>1. flash'[bbt] = flash[bbt]
      BY <1>0, <2>1 DEF TestPasses, EraseBlk, FlashOK
    <3>2. UNCHANGED <<bad, bbt, reserved>>
      BY <2>1 DEF TestPasses, ram
    <3> QED BY <1>0, <3>1, <3>2 DEF TablePlace, KnownBlocks
  <2>2. CASE TestFails
    <3>1. PICK f \in TestLeft(save.blk), ok \in BOOLEAN : MarkBad(save.blk, f, ok, {})
      BY <2>2 DEF TestFails
    <3>2. FlashAs(f) /\ f[bbt] = flash[bbt]
      BY <1>0, TestLeftOK
    <3>3. /\ flash'[bbt'] = Table /\ bbt' \in reserved' /\ bad' # {}
          /\ \A x \in reserved \ {bbt} : x # bbt' /\ x \in reserved'
      BY <1>0, <3>1, <3>2, MarkBadPlace DEF TablePlace
    <3> QED BY <1>0, <3>3 DEF TablePlace, KnownBlocks
  <2> QED BY <2>1, <2>2
<1>2. SameBlk(This)' = SameBlk(This) /\ save'.full = save.full
  BY <1>0 DEF SameBlk, This
<1> QED BY <1>0, <1>1, <1>2, PlaceMoved

LEMMA PlaceCommit ==
  ASSUME TypeInv, PlaceInv, Commit
  PROVE  PlaceInv'
<1>0. /\ pc = "commit" /\ Saving /\ save.n \in Name /\ info \in [Name -> InfoType]
      /\ Spares(save.blk) /\ (save.full => ~SameBlk(This))
      /\ (IF SameBlk(This) THEN save.blk = This.blk ELSE save.blk \notin reserved)
      /\ KnownBlocks /\ OwnBlocks /\ (SameBlk(This) \/ MovesTo(This)) /\ TablePlace
      /\ save.blk # bbt /\ UNCHANGED <<flash, bad, bbt>>
  BY DEF Commit, Saving, TypeInv, PointOK, PlaceInv, PointPlace
<1>1. PICK i : i = info[save.n]
  OBVIOUS
<1>2. PICK j : j = info'[save.n]
  OBVIOUS
<1>3. /\ info' = [info EXCEPT ![save.n] = j] /\ j.valid = i.valid /\ j.blk = save.blk
      /\ save'.n = save.n /\ (i.valid /\ MovesTo(i) => save'.old = i.blk)
  BY <1>1, <1>2, CommitTo
<1>4. MovesTo(i) => ~SameBlk(i)
  BY <1>0, <1>1 DEF MovesTo, SameBlk, This
<1>5. reserved \subseteq reserved' /\ save.blk \in reserved'
  <2>1. reserved' = IF MovesTo(i) THEN reserved \union {save.blk} ELSE reserved
    BY <1>1 DEF Commit
  <2>2. ~MovesTo(i) => save.blk \in reserved
    BY <1>0, <1>1 DEF KnownBlocks, SameBlk, This
  <2> QED BY <2>1, <2>2
<1>6. \A n \in Name \ {save.n} : info'[n] = info[n]
  BY <1>0, <1>3
<1>7. KnownBlocks'
  BY <1>0, <1>2, <1>3, <1>5, <1>6 DEF KnownBlocks
<1>8. OwnBlocks'
  BY <1>0, <1>2, <1>3, <1>6 DEF OwnBlocks, Spares
<1>9. Spares(This.blk)' /\ This.blk' \in reserved' /\ This.blk' # bbt'
  BY <1>0, <1>2, <1>3, <1>5, <1>6 DEF Spares, This
<1>10. pc' = IF i.valid /\ MovesTo(i) THEN "eraseold" ELSE "finish"
  BY <1>1 DEF Commit
<1>11. ASSUME i.valid, MovesTo(i) PROVE /\ Spares(save.old)' /\ save'.old # This.blk'
                                              /\ save'.old \in reserved' /\ save'.old # bbt'
  <2>1. save'.old = i.blk /\ i.blk \in reserved /\ save.blk \notin reserved /\ i.blk # bbt
    BY <1>0, <1>1, <1>3, <1>4, <1>11 DEF KnownBlocks, This, TablePlace
  <2>2. This.blk' = save.blk
    BY <1>2, <1>3 DEF This
  <2>3. Spares(save.old)'
    BY <1>0, <1>1, <1>3, <1>6, <1>11, <2>1 DEF Spares, OwnBlocks
  <2> QED BY <1>0, <1>5, <2>1, <2>2, <2>3
<1>12. PointPlace'
  BY <1>9, <1>10, <1>11 DEF PointPlace
<1>13. TablePlace'
  BY <1>0, <1>2, <1>3, <1>5, <1>6 DEF TablePlace
<1> QED BY <1>7, <1>8, <1>10, <1>12, <1>13 DEF PlaceInv

LEMMA PlaceEraseOld ==
  ASSUME TypeInv, PlaceInv, EraseOld \/ EraseOldFails \/ TestOldPasses \/ TestOldFails \/ MarkOldFails
  PROVE  PlaceInv'
<1>0. /\ pc \in {"eraseold", "testold"} /\ Saving /\ save.n \in Name /\ save.old \in Blk
      /\ KnownBlocks /\ OwnBlocks /\ Spares(This.blk) /\ This.blk \in reserved /\ This.blk # bbt
      /\ Spares(save.old) /\ save.old # This.blk /\ save.old \in reserved /\ save.old # bbt
      /\ TablePlace /\ FlashOK /\ bbt \in Blk /\ info[save.n] \in InfoType
  BY DEF EraseOld, EraseOldFails, TestOldPasses, TestOldFails, MarkOldFails, Saving, TypeInv, PointOK,
     PlaceInv, PointPlace
<1>1. ASSUME flash'[bbt'] = Table, bbt' \in reserved', bad' = {} => bbt' = 1, pc' = "finish",
             UNCHANGED <<info, save>>,
             \A x \in reserved \ {bbt} : x # bbt' /\ (x # save.old => x \in reserved')
      PROVE  PlaceInv'
  <2>1. KnownBlocks'
    BY <1>0, <1>1 DEF KnownBlocks, Spares, This, TablePlace
  <2>2. OwnBlocks' /\ Spares(This.blk)' /\ This.blk' \in reserved' /\ This.blk' # bbt'
    BY <1>0, <1>1 DEF OwnBlocks, Spares, This
  <2>3. PointPlace'
    BY <1>1, <2>2 DEF PointPlace
  <2>4. TablePlace'
    BY <1>0, <1>1 DEF TablePlace, KnownBlocks
  <2> QED BY <1>1, <2>1, <2>2, <2>3, <2>4 DEF PlaceInv
<1>2. CASE EraseOld \/ TestOldPasses
  <2>1. flash'[bbt] = flash[bbt]
    BY <1>0, <1>2 DEF EraseOld, TestOldPasses, EraseBlk, FlashOK
  <2>2. /\ pc' = "finish" /\ UNCHANGED <<info, save, bad, bbt>>
        /\ reserved' = reserved \ {save.old}
    BY <1>2 DEF EraseOld, TestOldPasses
  <2>3. /\ flash'[bbt'] = Table /\ bbt' \in reserved' /\ (bad' = {} => bbt' = 1)
        /\ \A x \in reserved \ {bbt} : x # bbt' /\ (x # save.old => x \in reserved')
    BY <1>0, <2>1, <2>2 DEF TablePlace
  <2> QED BY <1>1, <2>2, <2>3
<1>3. CASE EraseOldFails
  <2>1. pc' = "testold" /\ UNCHANGED <<flash, info, save, reserved, bad, bbt>>
    BY <1>3 DEF EraseOldFails, ram
  <2>2. KnownBlocks' /\ OwnBlocks' /\ TablePlace'
    BY <1>0, <2>1 DEF KnownBlocks, OwnBlocks, TablePlace
  <2>3. PointPlace'
    BY <1>0, <2>1 DEF PointPlace, Spares, This
  <2> QED BY <2>1, <2>2, <2>3 DEF PlaceInv
<1>4. ASSUME NEW f \in TestLeft(save.old), NEW ok \in BOOLEAN, NEW done \in SUBSET {save.old},
             MarkBad(save.old, f, ok, done)
      PROVE  /\ flash'[bbt'] = Table /\ bbt' \in reserved' /\ bad' # {}
             /\ \A x \in reserved \ {bbt} : x # bbt' /\ (x \notin done => x \in reserved')
  <2>1. FlashAs(f) /\ f[bbt] = flash[bbt]
    BY <1>0, TestLeftOK
  <2>2. done \in SUBSET (reserved \ {bbt})
    BY <1>0, <1>4
  <2> QED BY <1>0, <1>4, <2>1, <2>2, MarkBadPlace DEF TablePlace
<1>5. CASE TestOldFails
  <2>1. PICK f \in TestLeft(save.old) : MarkBad(save.old, f, TRUE, {save.old})
    BY <1>5 DEF TestOldFails
  <2>2. pc' = "finish" /\ UNCHANGED <<info, save>>
    BY <1>5 DEF TestOldFails
  <2> QED BY <1>1, <1>4, <2>1, <2>2
<1>6. CASE MarkOldFails
  <2>1. PICK f \in TestLeft(save.old) : MarkBad(save.old, f, FALSE, {})
    BY <1>6 DEF MarkOldFails
  <2>2. /\ flash'[bbt'] = Table /\ bbt' \in reserved' /\ bad' # {}
        /\ \A n \in Name : info[n].valid => info[n].blk \in reserved' /\ info[n].blk # bbt'
    <3>1. {} \in SUBSET {save.old}
      OBVIOUS
    <3>2. /\ flash'[bbt'] = Table /\ bbt' \in reserved' /\ bad' # {}
          /\ \A x \in reserved \ {bbt} : x # bbt' /\ (x \notin {} => x \in reserved')
      BY <1>4, <2>1, <3>1
    <3> QED BY <1>0, <3>2 DEF TablePlace, KnownBlocks
  <2>3. Return(FALSE, info[save.n])
    BY <1>6 DEF MarkOldFails
  <2>4. /\ info'[save.n].valid = info[save.n].valid /\ info'[save.n].blk = info[save.n].blk
        /\ pc' \in {"fixcfg", "dead", "fixenv", "relocate", "ready"}
        /\ \A n \in Name \ {save.n} : info'[n] = info[n]
    BY <1>0, <2>3, ReturnTo
  <2>5. \A n \in Name : info'[n].valid = info[n].valid /\ info'[n].blk = info[n].blk
    BY <2>4
  <2>6. pc' # "getblk" /\ pc' \in {"dead", "config", "fixcfg", "fixenv", "relocate", "ready", "getblk"}
    BY <2>4
  <2> QED BY <2>2, <2>5, <2>6, PlaceMoved
<1> QED BY <1>2, <1>3, <1>5, <1>6

LEMMA PlaceFinish ==
  ASSUME TypeInv, PlaceInv, Finish
  PROVE  PlaceInv'
<1>0. /\ pc = "finish" /\ Saving /\ save.n \in Name /\ info[save.n] \in InfoType /\ save \in SaveType
      /\ UNCHANGED <<flash, bad, bbt, reserved>> /\ KnownBlocks /\ OwnBlocks /\ TablePlace
      /\ Spares(This.blk) /\ This.blk \in reserved /\ This.blk # bbt
  BY DEF Finish, Saving, TypeInv, PointOK, PlaceInv, PointPlace
<1>1. PICK i : i = info[save.n]
  OBVIOUS
<1>2. PICK j : j = [i EXCEPT !.valid = TRUE, !.update = FALSE]
  OBVIOUS
<1>3. PICK k : k = [i EXCEPT !.valid = TRUE]
  OBVIOUS
<1>4. PICK s : s = [save EXCEPT !.again = TRUE, !.full = FALSE]
  OBVIOUS
<1>5. j \in InfoType /\ j.blk = i.blk /\ j.valid /\ k \in InfoType /\ k.blk = i.blk /\ k.valid
  BY <1>0, <1>1, <1>2, <1>3 DEF InfoType
<1>6. ~s.full
  BY <1>0, <1>4 DEF SaveType
<1>7. /\ info'[save.n].valid /\ info'[save.n].blk = i.blk
      /\ \A n \in Name \ {save.n} : info'[n] = info[n]
      /\ \/ pc' \in {"dead", "config", "fixcfg", "fixenv", "relocate", "ready"}
         \/ pc' = "getblk" /\ ~save'.full
  <2>1. CASE WriteAgain(j, save.n, s)
    BY <1>0, <1>5, <1>6, <2>1, AgainTo
  <2>2. CASE Return(TRUE, k)
    BY <1>0, <1>5, <2>2, ReturnTo
  <2> QED BY <1>1, <1>2, <1>3, <1>4, <2>1, <2>2 DEF Finish
<1>8. KnownBlocks' /\ OwnBlocks'
  BY <1>0, <1>1, <1>7 DEF KnownBlocks, OwnBlocks, Spares, This
<1>9. PointPlace' /\ pc' # "off"
  BY <1>7 DEF PointPlace
<1>10. TablePlace'
  BY <1>0, <1>1, <1>7, <1>9 DEF TablePlace, This
<1> QED BY <1>8, <1>9, <1>10 DEF PlaceInv

\* The scan takes the block of the table for no item's.
LEMMA TableNone == Hd(Table).name = "none"
<1>1. PICK p : p = [Erased EXCEPT !.len = RecPages]
  OBVIOUS
<1>2. p.name = "none" /\ p # Torn
  BY <1>1 DEF Erased, Torn
<1>3. Table = [t \in Slot |-> p] /\ 0 \in Slot
  BY <1>1, Areas DEF Table
<1>4. Table[0] # Torn /\ \A t \in Slot : t < 0 => Table[t] = Torn
  BY <1>2, <1>3, Areas
<1> QED BY <1>2, <1>3, <1>4, HeadBy

LEMMA PlaceStart ==
  ASSUME TypeInv, PlaceInv, Start
  PROVE  PlaceInv'
<1>0. FlashOK /\ UNCHANGED <<flash, bad, bbt>> /\ TablePlace
  BY DEF TypeInv, Start, PlaceInv
<1>1. PICK cnf : cnf = Scan("ncnf")
  OBVIOUS
<1>2. PICK nenv : nenv = IF ReadAt("ncnf", cnf) = Bad THEN NoInfo ELSE Scan("nenv")
  OBVIOUS
<1>3. /\ info' = [n \in Name |-> IF n = "ncnf" THEN cnf ELSE nenv]
      /\ reserved' = {bbt} \union {i.blk : i \in {j \in {cnf, nenv} : j.valid}}
      /\ pc' \in {"dead", "config"}
  BY <1>1, <1>2 DEF Start
<1>4. \A n \in Name : Scan(n).valid => Hd(flash[Scan(n).blk]).name = n
  BY <1>0, ScanOutcome, Constants
<1>5. cnf.valid /\ nenv.valid => cnf.blk # nenv.blk
  BY <1>1, <1>2, <1>4, Constants DEF Name
<1>6. KnownBlocks' /\ OwnBlocks'
  BY <1>3, <1>5 DEF KnownBlocks, OwnBlocks, Name
<1>7. PointPlace'
  BY <1>3 DEF PointPlace
<1>8. cnf.valid => cnf.blk # bbt
  BY <1>0, <1>1, <1>4, TableNone, Constants DEF TablePlace, Name
<1>9. nenv.valid => nenv.blk # bbt
  BY <1>0, <1>2, <1>4, TableNone, Constants DEF TablePlace, Name
<1>10. TablePlace'
  BY <1>0, <1>3, <1>8, <1>9 DEF TablePlace, Name
<1> QED BY <1>3, <1>6, <1>7, <1>10 DEF PlaceInv

LEMMA PlaceRun ==
  ASSUME TypeInv, PlaceInv, Config \/ FixConfig \/ FixEnv \/ Relocate \/ Saveenv
  PROVE  PlaceInv' /\ \A n \in Name : /\ info'[n].valid = info[n].valid
                                      /\ info'[n].blk = info[n].blk /\ info'[n].slot = info[n].slot
<1>0. "ncnf" \in Name /\ "nenv" \in Name /\ info \in [Name -> InfoType]
  BY DEF TypeInv, Name
<1>1. pc # "off" /\ UNCHANGED <<flash, bad, bbt, reserved>>
  BY DEF Config, FixConfig, FixEnv, Relocate, Saveenv
<1>2. ASSUME NEW n \in Name, NEW v, NEW then, SaveInfo(n, v, then)
      PROVE  /\ \A m \in Name : /\ info'[m].valid = info[m].valid
                                /\ info'[m].blk = info[m].blk /\ info'[m].slot = info[m].slot
             /\ pc' = "getblk" /\ ~save'.full
  <2>1. PICK s : s = [NoSave EXCEPT !.n = n, !.val = v, !.then = then]
    OBVIOUS
  <2>2. ~s.full
    BY <2>1 DEF NoSave
  <2>3. WriteAgain(info[n], n, s)
    BY <1>2, <2>1 DEF SaveInfo
  <2> QED BY <1>0, <2>2, <2>3, AgainTo
<1>3. \/ pc' \in {"fixcfg", "fixenv", "relocate", "ready"} /\ info' = info
      \/ \E n, v, then : n \in Name /\ SaveInfo(n, v, then)
  BY <1>0 DEF Config, FixConfig, FixEnv, Relocate, Saveenv
<1>4. CASE pc' \in {"fixcfg", "fixenv", "relocate", "ready"} /\ info' = info
  <2>1. \A n \in Name : info'[n].valid = info[n].valid /\ info'[n].blk = info[n].blk
                         /\ info'[n].slot = info[n].slot
    BY <1>4
  <2>2. pc' # "getblk" /\ pc' \in {"dead", "config", "fixcfg", "fixenv", "relocate", "ready", "getblk"}
    BY <1>4
  <2> QED BY <1>1, <2>1, <2>2, PlaceKept
<1>5. CASE \E n, v, then : n \in Name /\ SaveInfo(n, v, then)
  BY <1>1, <1>2, <1>5, PlaceKept
<1> QED BY <1>3, <1>4, <1>5

LEMMA PlaceInit == Init => PlaceInv
BY Constants, Areas DEF Init, PlaceInv, KnownBlocks, OwnBlocks, PointPlace, TablePlace, Blk

LEMMA PlaceStep == TypeInv /\ PlaceInv /\ [Next]_vars => PlaceInv'
<1> SUFFICES ASSUME TypeInv, PlaceInv, [Next]_vars PROVE PlaceInv'
  OBVIOUS
<1>1. CASE UNCHANGED vars
  BY <1>1 DEF PlaceInv, vars, ram, KnownBlocks, OwnBlocks, PointPlace, TablePlace, Spares, This, SameBlk
<1>2. CASE SaveStep
  BY <1>2, PlaceGetBlk, PlaceErase, PlaceWrite, PlaceTest, PlaceCommit, PlaceEraseOld, PlaceFinish
     DEF SaveStep
<1>3. CASE StartStep \/ Saveenv
  BY <1>3, PlaceStart, PlaceRun DEF StartStep
<1>4. CASE Crash
  <2>1. pc' = "off" /\ (\A n \in Name : ~info'[n].valid) /\ UNCHANGED <<bad, bbt>>
    BY <1>4, Constants DEF Crash
  <2>2. FlashOK /\ bbt \in Blk /\ TablePlace
    BY DEF TypeInv, PlaceInv
  <2>3. flash'[bbt] = flash[bbt]
    <3>1. ASSUME NEW b \in Blk, Saving, flash' \in TestLeft(b), b # bbt PROVE flash'[bbt] = flash[bbt]
      BY <2>2, <3>1, TestLeftOK
    <3>2. pc \in {"erase", "write", "test"} => save.blk \in Blk /\ save.blk # bbt
      BY DEF TypeInv, PointOK, PlaceInv, PointPlace
    <3>3. pc \in {"eraseold", "testold"} => save.old \in Blk /\ save.old # bbt
      BY DEF TypeInv, PointOK, PlaceInv, PointPlace
    <3>4. CASE \E c : \/ pc \in {"erase", "write", "test"} /\ flash' = [flash EXCEPT ![save.blk] = c]
                      \/ pc \in {"eraseold", "testold"} /\ flash' = [flash EXCEPT ![save.old] = c]
      BY <2>2, <3>2, <3>3, <3>4 DEF FlashOK
    <3>5. CASE pc = "test" /\ flash' \in TestLeft(save.blk)
      BY <3>1, <3>2, <3>5 DEF Saving
    <3>6. CASE pc = "testold" /\ flash' \in TestLeft(save.old)
      BY <3>1, <3>3, <3>6 DEF Saving
    <3> QED BY <1>4, <3>4, <3>5, <3>6 DEF Crash
  <2>4. TablePlace'
    BY <2>1, <2>2, <2>3 DEF TablePlace
  <2> QED BY <2>1, <2>4 DEF PlaceInv, KnownBlocks, OwnBlocks, PointPlace
<1> QED BY <1>1, <1>2, <1>3, <1>4 DEF Next, Rest

\* Items and the bad block table have blocks of their own, and the block that
\* a save works on is another item's or the table's at no moment of it.
THEOREM BlocksAreOwn == Spec => []PlaceInv
BY InfoTypeInv, PlaceInit, PlaceStep, PTL DEF Spec

\* A step changes neither the place of an item nor its block, unless the item
\* is the one that is being saved or power is lost.
LEMMA OtherKept ==
  ASSUME TypeInv, PlaceInv, [Next]_vars, NEW n \in Name, info[n].valid, info'[n].valid,
         Saving => save.n # n
  PROVE  /\ info'[n].blk = info[n].blk /\ info'[n].slot = info[n].slot
         /\ flash'[info[n].blk] = flash[info[n].blk]
<1>0. /\ FlashOK /\ info[n].blk \in Blk /\ info[n] \in InfoType
      /\ (Saving => save.n \in Name /\ info[save.n] \in InfoType)
  BY DEF TypeInv, PointOK
<1>1. PICK b : b = info[n].blk
  OBVIOUS
<1>2. Saving => /\ pc \in {"erase", "write", "test", "commit"} => b # save.blk
                /\ pc \in {"eraseold", "testold"} => b # save.old
  BY <1>1 DEF PlaceInv, PointPlace, Spares
<1>b. /\ b \in reserved \ {bbt} /\ flash[bbt] = Table /\ (Saving => bbt \in reserved)
      /\ (pc \in {"erase", "test"} => save.blk \in Blk /\ save.blk # bbt)
      /\ (pc = "testold" => save.old \in Blk /\ save.old \in reserved \ {bbt})
  BY <1>1 DEF PlaceInv, KnownBlocks, TablePlace, PointPlace, TypeInv, PointOK, Saving
<1>m. ASSUME Saving, NEW x \in Blk, x # b, x # bbt, NEW f, f = flash \/ f \in TestLeft(x),
             NEW ok \in BOOLEAN, NEW done \in SUBSET (reserved \ {bbt}), MarkBad(x, f, ok, done)
      PROVE  flash'[b] = flash[b]
  <2>1. FlashAs(flash) /\ bbt \in Blk /\ b \in Blk
    BY <1>0, <1>1 DEF FlashOK, FlashAs, BlockOK, TypeInv
  <2>2. FlashAs(f) /\ f[bbt] = flash[bbt] /\ f[b] = flash[b]
    BY <1>m, <2>1, TestLeftOK
  <2> QED BY <1>b, <1>m, <2>2, MarkBadPlace
<1>3. ASSUME NEW x, NEW c, x # b, flash' = [flash EXCEPT ![x] = c]
      PROVE  flash'[b] = flash[b]
  BY <1>0, <1>1, <1>3 DEF FlashOK
<1>4. CASE SaveStep
  <2>0. Saving /\ save.n # n /\ save.n \in Name /\ info[save.n] \in InfoType
    BY <1>0, <1>4 DEF SaveStep, GetBlk, EraseFree, EraseFreeFails, WritePage, WriteFails, TestPasses,
       TestFails, Commit, EraseOld, EraseOldFails, TestOldPasses, TestOldFails, MarkOldFails, Finish, Saving
  <2>1. ASSUME NEW ok \in BOOLEAN, NEW i \in InfoType, Return(ok, i) PROVE info'[n] = info[n]
    BY <2>0, <2>1, ReturnTo
  <2>2. CASE info' = info /\ flash' = flash
    BY <2>2
  <2>3. CASE GetBlk
    <3>1. flash' = flash /\ (info' = info \/ Return(FALSE, info[save.n]))
      BY <2>3 DEF GetBlk
    <3>2. info'[n] = info[n]
      BY <2>0, <2>1, <3>1
    <3> QED BY <3>1, <3>2
  <2>4. CASE EraseFree
    <3>1. info' = info /\ flash' = [flash EXCEPT ![save.blk] = Blank] /\ b # save.blk
      BY <1>2, <2>0, <2>4 DEF EraseFree, EraseBlk, ram
    <3> QED BY <1>1, <1>3, <3>1
  <2>5. CASE EraseFreeFails
    <3>1. pc = "erase" /\ (info' = info \/ Return(FALSE, info[save.n]))
      BY <2>5 DEF EraseFreeFails
    <3>2. info'[n] = info[n]
      BY <2>0, <2>1, <3>1
    <3>3. PICK ok \in BOOLEAN : MarkBad(save.blk, flash, ok, {})
      BY <2>5 DEF EraseFreeFails
    <3>4. flash'[b] = flash[b]
      BY <1>2, <1>b, <1>m, <2>0, <3>1, <3>3
    <3> QED BY <1>1, <3>2, <3>4
  <2>6. CASE WritePage \/ WriteFails
    <3>1. /\ b # save.blk /\ (info' = info \/ Return(FALSE, info[save.n]))
      BY <1>2, <2>0, <2>6 DEF WritePage, WriteFails
    <3>2. flash'[b] = flash[b]
      BY <1>0, <1>1, <2>6, <3>1 DEF WritePage, WriteFails, FlashOK
    <3>3. info'[n] = info[n]
      BY <2>0, <2>1, <3>1
    <3> QED BY <1>1, <3>2, <3>3
  <2>7. CASE TestPasses \/ TestFails
    <3>1. pc = "test" /\ b # save.blk /\ info' = info
      BY <1>2, <2>0, <2>7 DEF TestPasses, TestFails, ram
    <3>2. CASE flash' = [flash EXCEPT ![save.blk] = Blank]
      BY <1>1, <1>3, <3>1, <3>2
    <3>3. CASE \E f \in TestLeft(save.blk), ok \in BOOLEAN : MarkBad(save.blk, f, ok, {})
      BY <1>1, <1>b, <1>m, <2>0, <3>1, <3>3
    <3> QED BY <2>7, <3>2, <3>3 DEF TestPasses, TestFails, EraseBlk
  <2>8. CASE Commit
    <3>1. flash' = flash
      BY <2>8 DEF Commit
    <3>2. info' = [info EXCEPT ![save.n] = info'[save.n]]
      BY <2>8, CommitTo
    <3>3. info'[n] = info[n]
      BY <2>0, <3>2 DEF TypeInv
    <3> QED BY <3>1, <3>3
  <2>9. CASE EraseOld \/ EraseOldFails \/ TestOldPasses
    <3>1. b # save.old /\ info' = info
      BY <1>2, <2>0, <2>9 DEF EraseOld, EraseOldFails, TestOldPasses, ram
    <3>2. flash' = flash \/ flash' = [flash EXCEPT ![save.old] = Blank]
      BY <2>9 DEF EraseOld, EraseOldFails, TestOldPasses, EraseBlk
    <3>3. flash'[b] = flash[b]
      BY <1>3, <3>1, <3>2
    <3> QED BY <1>1, <3>1, <3>3
  <2>11. CASE TestOldFails \/ MarkOldFails
    <3>1. pc = "testold" /\ b # save.old /\ (info' = info \/ Return(FALSE, info[save.n]))
      BY <1>2, <2>0, <2>11 DEF TestOldFails, MarkOldFails
    <3>2. info'[n] = info[n]
      BY <2>0, <2>1, <3>1
    <3>3. PICK f \in TestLeft(save.old), ok \in BOOLEAN, done \in SUBSET {save.old} :
                 MarkBad(save.old, f, ok, done)
      BY <2>11 DEF TestOldFails, MarkOldFails
    <3>4. done \in SUBSET (reserved \ {bbt})
      BY <1>b, <3>1, <3>3
    <3>5. flash'[b] = flash[b]
      BY <1>b, <1>m, <2>0, <3>1, <3>3, <3>4
    <3> QED BY <1>1, <3>2, <3>5
  <2>10. CASE Finish
    <3>1. flash' = flash
      BY <2>10 DEF Finish
    <3>2. PICK j : j = [info[save.n] EXCEPT !.valid = TRUE, !.update = FALSE]
      OBVIOUS
    <3>3. PICK k : k = [info[save.n] EXCEPT !.valid = TRUE]
      OBVIOUS
    <3>4. j \in InfoType /\ k \in InfoType
      BY <2>0, <3>2, <3>3 DEF InfoType
    <3>5. PICK s : s = [save EXCEPT !.again = TRUE, !.full = FALSE]
      OBVIOUS
    <3>6. WriteAgain(j, save.n, s) \/ Return(TRUE, k)
      BY <2>10, <3>2, <3>3, <3>5 DEF Finish
    <3>7. WriteAgain(j, save.n, s) => info'[n] = info[n]
      BY <2>0, <3>4, AgainTo
    <3>8. info'[n] = info[n]
      BY <2>1, <3>4, <3>6, <3>7
    <3> QED BY <3>1, <3>8
  <2> QED BY <1>4, <2>3, <2>4, <2>5, <2>6, <2>7, <2>8, <2>9, <2>10, <2>11 DEF SaveStep
<1>5. CASE Config \/ FixConfig \/ FixEnv \/ Relocate \/ Saveenv
  <2>1. flash' = flash
    BY <1>5 DEF Config, FixConfig, FixEnv, Relocate, Saveenv
  <2> QED BY <1>5, <2>1, PlaceRun
<1>6. CASE Start
  BY <1>6 DEF Start, PlaceInv
<1>7. CASE Crash
  BY <1>7, Constants DEF Crash
<1>8. CASE UNCHANGED vars
  BY <1>8 DEF vars, ram
<1> QED BY <1>4, <1>5, <1>6, <1>7, <1>8 DEF Next, StartStep, Rest

\* Saving one item never touches the record of another one: a save, whatever
\* blocks it tests and erases, and the search for a free block
\* (amlnand_get_free_block()) leave the other items' records as they are.
THEOREM OthersAreUntouched == Spec => OthersUntouched
<1>1. ASSUME TypeInv, PlaceInv, [Next]_vars
      PROVE  [\A n \in Name : info[n].valid /\ info'[n].valid /\ (pc # "ready" => save.n # n) =>
                ReadAt(n, info[n])' = ReadAt(n, info[n])]_vars
  <2> SUFFICES ASSUME NEW n \in Name, info[n].valid, info'[n].valid, pc # "ready" => save.n # n
               PROVE  ReadAt(n, info[n])' = ReadAt(n, info[n])
    OBVIOUS
  <2>1. Saving => save.n # n
    BY DEF Saving
  <2>2. /\ info'[n].blk = info[n].blk /\ info'[n].slot = info[n].slot
        /\ flash'[info[n].blk] = flash[info[n].blk]
    BY <1>1, <2>1, OtherKept
  <2> QED BY <2>2 DEF ReadAt
<1> QED BY <1>1, InfoTypeInv, BlocksAreOwn, PTL DEF Spec, OthersUntouched

-----------------------------------------------------------------------------
(***************************************************************************)
(* What a start reads, as a function of the contents f of the flash.       *)
(***************************************************************************)
\* The records of item n, and slots that were spoilt on the way, fill the
\* block up to e; the rest is erased.  Or the block is no item's.
TidyTo(c, n, e) == /\ \A t \in Slot : t < e => c[t] = Torn \/ c[t].name = n
                   /\ \A t \in Slot : t >= e => c[t] = Erased
Tidy(c) == Hd(c).name = "none" \/ \E n \in Name, e \in 0 .. Slots : TidyTo(c, n, e)
ErasedFrom(c, s) == \A t \in Slot : t >= s => c[t] = Erased

\* The blocks that a scan finds for item n, and the one that it takes.
Names(f, n) == {b \in Blk : Hd(f[b]).name = n}
Best(f, n, b) ==
  /\ b \in Names(f, n)
  /\ \A c \in Names(f, n) :
       IF FullBlk(n) THEN b <= c
       ELSE Hd(f[b]).ts > Hd(f[c]).ts \/ (Hd(f[b]).ts = Hd(f[c]).ts /\ b <= c)

\* The record that the scan takes in a block, and what is read there.
LastIn(n, c, s) ==
  /\ c[s].name = n
  /\ IF FullBlk(n) THEN \A t \in Slot : t < s => c[t] = Torn
     ELSE \E e \in s + 1 .. Slots : TidyTo(c, n, e) /\ \A t \in s + 1 .. e - 1 : c[t] = Torn
Value(n, q) == IF q.name = n /\ q.len >= DataPages /\ q.val # Pattern THEN q.val ELSE Bad
Holds(n, c, s, A) == LastIn(n, c, s) /\ Value(n, c[s]) \in A

Reads(f, n, A) ==
  IF Names(f, n) = {} THEN Absent \in A
  ELSE \E b \in Blk, s \in Slot : Best(f, n, b) /\ Holds(n, f[b], s, A)

(***************************************************************************)
(* A block that a record is appended to after slot s, and a new one that   *)
(* holds s copies of r already.                                            *)
(***************************************************************************)
Base(n, c, s) == /\ s + 1 \in Slot /\ c[s].name = n /\ ErasedFrom(c, s + 2)
                 /\ \A t \in Slot : t <= s => c[t] = Torn \/ c[t].name = n
Fresh(n, c, r, s) == /\ ~FullBlk(n) => s = 0
                     /\ \A t \in Slot : t < s => c[t] = r
                     /\ ErasedFrom(c, s + 1)
\* The first k pages of r.
PageOf(r, k) == IF k = 0 THEN Erased ELSE [r EXCEPT !.len = k]


LEMMA LastIs ==
  ASSUME NEW n \in Name, NEW c, NEW s \in Slot, LastIn(n, c, s)
  PROVE  Hd(c).name = n /\ PlaceIn(n, c) = s
<1>0. c[s].name = n /\ c[s] # Torn /\ s \in Nat /\ Slots \in Nat /\ s < Slots /\ s \in List(n, c)
  BY Constants, Areas DEF LastIn, List, Rd
<1>1. CASE FullBlk(n)
  <2>1. \A t \in Slot : t < s => c[t] = Torn
    BY <1>1 DEF LastIn
  <2>2. Hd(c) = c[s]
    BY <1>0, <2>1, HeadBy
  <2>3. Hd(c).name = n
    BY <1>0, <2>2
  <2>4. PICK p : p = PlaceIn(n, c)
    OBVIOUS
  <2>5. p \in Slot /\ p <= s /\ c[p].name = n
    BY <1>0, <1>1, <2>3, <2>4, PlaceIs
  <2>6. c[p] # Torn
    BY <2>5, Constants
  <2>7. p \in Nat /\ ~(p < s)
    BY <2>1, <2>5, <2>6, Areas
  <2> QED BY <1>0, <2>3, <2>4, <2>5, <2>7
<1>2. CASE ~FullBlk(n)
  <2>1. PICK e \in s + 1 .. Slots : TidyTo(c, n, e) /\ \A t \in s + 1 .. e - 1 : c[t] = Torn
    BY <1>2 DEF LastIn
  <2>2. e \in Nat /\ s < e /\ e <= Slots
    BY <1>0, <2>1
  <2>3. Hd(c).name = n
    <3>1. s \in Rd(c)
      BY <1>0 DEF Rd
    <3>2. PICK h : h = Min(Rd(c))
      OBVIOUS
    <3>3. h \in Rd(c) /\ h <= s
      BY <3>1, <3>2, MinIs, Areas DEF Rd
    <3>4. h \in Slot /\ c[h] # Torn /\ h \in Nat
      BY <3>3, Areas DEF Rd
    <3>5. h < e
      BY <1>0, <2>2, <3>3, <3>4
    <3>6. c[h].name = n
      BY <2>1, <3>4, <3>5 DEF TidyTo
    <3> QED BY <3>1, <3>2, <3>6 DEF Hd
  <2>4. \A t \in Stop(n, c) : t \in Slot /\ t \in Nat /\ e <= t
    <3> SUFFICES ASSUME NEW t \in Stop(n, c) PROVE t \in Slot /\ t \in Nat /\ e <= t
      OBVIOUS
    <3>1. t \in Slot /\ c[t] # Torn /\ c[t].name # n /\ t \in Nat
      BY Areas DEF Stop, Rd
    <3>2. ~(t < e)
      BY <2>1, <3>1 DEF TidyTo
    <3> QED BY <2>2, <3>1, <3>2
  <2>5. e <= End(n, c) /\ End(n, c) \in Nat
    BY <1>0, <2>2, <2>4, EndIs
  <2>6. PICK p : p = PlaceIn(n, c)
    OBVIOUS
  <2>7. p \in Slot /\ c[p].name = n /\ (s < End(n, c) => s <= p)
    BY <1>0, <1>2, <2>3, <2>6, PlaceIs
  <2>8. p \in Nat /\ s <= p
    BY <1>0, <2>2, <2>5, <2>7, Areas
  <2>9. c[p] # Torn /\ c[p] # Erased
    BY <2>7, Constants
  <2>10. p < e
    BY <2>1, <2>2, <2>7, <2>8, <2>9 DEF TidyTo
  <2>11. ~(p \in s + 1 .. e - 1)
    BY <2>1, <2>9
  <2>12. p = s
    BY <1>0, <2>2, <2>8, <2>10, <2>11
  <2> QED BY <2>3, <2>6, <2>12
<1> QED BY <1>1, <1>2

\* The place that the scan finds is the last one.
LEMMA TidyLast ==
  ASSUME NEW n \in Name, NEW c, Tidy(c), Hd(c).name = n
  PROVE  /\ PlaceIn(n, c) \in Slot /\ LastIn(n, c, PlaceIn(n, c))
         /\ ~FullBlk(n) /\ ~MetIn(n, c) => ErasedFrom(c, PlaceIn(n, c) + 1)
<1>1. PICK p : p = PlaceIn(n, c)
  OBVIOUS
<1>2. /\ p \in Slot /\ c[p].name = n /\ c[p] # Torn /\ c[p] # Erased /\ p \in Nat /\ p < Slots
      /\ Slots \in Nat
  <2>1. p \in Slot /\ c[p].name = n
    BY <1>1, PlaceIs
  <2> QED BY <2>1, Constants, Areas
<1>3. CASE FullBlk(n)
  <2>1. \A t \in List(n, c) : p <= t
    BY <1>1, <1>3, PlaceIs
  <2>2. PICK h \in Rd(c) : Hd(c) = c[h] /\ \A t \in Slot : t < h => c[t] = Torn
    BY HeadIs, Constants
  <2>3. h \in List(n, c) /\ h \in Slot
    BY <2>2 DEF List, Rd
  <2>4. p <= h /\ h \in Nat
    BY <2>1, <2>3, Areas
  <2>5. \A t \in Slot : t < p => c[t] = Torn
    <3> SUFFICES ASSUME NEW t \in Slot, t < p PROVE c[t] = Torn
      OBVIOUS
    <3>1. t \in Nat
      BY Areas
    <3>2. t < h
      BY <1>2, <2>4, <3>1
    <3> QED BY <2>2, <3>2
  <2> QED BY <1>1, <1>2, <1>3, <2>5 DEF LastIn
<1>4. CASE ~FullBlk(n)
  <2>1. PICK m \in Name, e \in 0 .. Slots : TidyTo(c, m, e)
    BY Constants DEF Tidy
  <2>2. p < e /\ m = n /\ e \in Nat /\ e <= Slots
    BY <1>2, <2>1 DEF TidyTo
  <2>3. PICK E : E = End(n, c)
    OBVIOUS
  <2>4. E \in 0 .. Slots /\ (E # Slots => E \in Stop(n, c)) /\ \A t \in Stop(n, c) : E <= t
    BY <2>3, EndIs
  <2>5. e <= E
    <3>1. CASE E = Slots
      BY <2>2, <3>1
    <3>2. CASE E # Slots
      <4>1. E \in Slot /\ c[E] # Torn /\ c[E].name # n
        BY <2>4, <3>2 DEF Stop, Rd
      <4>2. ~(E < e)
        BY <2>1, <2>2, <4>1 DEF TidyTo
      <4> QED BY <2>2, <2>4, <4>2
    <3> QED BY <3>1, <3>2
  <2>6. \A t \in List(n, c) : t < E => t <= p
    BY <1>1, <1>4, <2>3, PlaceIs
  <2>7. ASSUME NEW t \in Slot, t \in p + 1 .. e - 1 PROVE c[t] = Torn
    <3>1. t < e /\ t < E /\ ~(t <= p)
      BY <1>2, <2>2, <2>4, <2>5, <2>7
    <3>2. c[t] = Torn \/ c[t].name = n
      BY <2>1, <2>2, <3>1 DEF TidyTo
    <3>3. t \notin List(n, c)
      BY <2>6, <3>1
    <3> QED BY <3>2, <3>3 DEF List, Rd
  <2>8. \A t \in p + 1 .. e - 1 : t \in Slot
    BY <1>2, <2>2 DEF Slot
  <2>9. e \in p + 1 .. Slots
    BY <1>2, <2>2
  <2>10. LastIn(n, c, p)
    BY <1>2, <1>4, <2>1, <2>2, <2>7, <2>8, <2>9 DEF LastIn
  <2>11. ASSUME ~MetIn(n, c) PROVE ErasedFrom(c, p + 1)
    <3> SUFFICES ASSUME NEW t \in Slot, t >= p + 1 PROVE c[t] = Erased
      BY DEF ErasedFrom
    <3>1. t \in Nat
      BY Areas
    <3>2. CASE t >= e
      BY <2>1, <3>2 DEF TidyTo
    <3>3. CASE t < e
      <4>1. t \in p + 1 .. e - 1 /\ t < E
        BY <1>2, <2>2, <2>4, <2>5, <3>1, <3>3
      <4>2. c[t] = Torn
        BY <2>7, <4>1
      <4>3. t \in Slot \ Rd(c)
        BY <4>2 DEF Rd
      <4> QED BY <1>4, <2>3, <2>11, <4>1, <4>3 DEF MetIn
    <3> QED BY <2>2, <3>1, <3>2, <3>3
  <2> QED BY <1>1, <1>2, <2>10, <2>11
<1> QED BY <1>3, <1>4

FlashType == [Blk -> [Slot -> Record]]

LEMMA HeadTs ==
  ASSUME NEW c \in [Slot -> Record]
  PROVE  Hd(c).ts \in 0 .. TsSize - 1
<1>1. Torn.ts \in 0 .. TsSize - 1
  BY Constants DEF Record
<1>2. \A s \in Slot : c[s].ts \in 0 .. TsSize - 1
  BY DEF Record
<1>3. Rd(c) # {} => Min(Rd(c)) \in Slot
  BY MinIs, Areas DEF Rd
<1> QED BY <1>1, <1>2, <1>3 DEF Hd

\* One of the blocks of an item is the one that a scan takes.
LEMMA BestExists ==
  ASSUME NEW f \in FlashType, NEW n \in Name, Names(f, n) # {}
  PROVE  \E b \in Blk : Best(f, n, b)
<1>0. Names(f, n) \in SUBSET Nat /\ Names(f, n) \subseteq Blk
  BY Areas DEF Names
<1>1. CASE FullBlk(n)
  BY <1>0, <1>1, LeastNat DEF Best
<1>2. CASE ~FullBlk(n)
  <2>1. \A b \in Names(f, n) : Hd(f[b]).ts \in 0 .. TsSize - 1
    BY <1>0, HeadTs DEF FlashType
  <2>2. PICK T : T = {Hd(f[b]).ts : b \in Names(f, n)}
    OBVIOUS
  <2>3. T \in SUBSET (0 .. TsSize) /\ T # {} /\ TsSize \in Nat
    BY <2>1, <2>2, Areas
  <2>4. PICK x \in T : \A y \in T : y <= x
    BY <2>3, GreatestNat
  <2>5. PICK M : M = {b \in Names(f, n) : Hd(f[b]).ts = x}
    OBVIOUS
  <2>6. M \in SUBSET Nat /\ M # {} /\ M \subseteq Blk
    BY <1>0, <2>2, <2>4, <2>5
  <2>7. PICK b \in M : \A c \in M : b <= c
    BY <2>6, LeastNat
  <2>8. ASSUME NEW c \in Names(f, n)
        PROVE  Hd(f[b]).ts > Hd(f[c]).ts \/ (Hd(f[b]).ts = Hd(f[c]).ts /\ b <= c)
    <3>1. Hd(f[b]).ts = x /\ Hd(f[c]).ts <= x /\ b \in Names(f, n)
      BY <2>2, <2>4, <2>5, <2>7, <2>8
    <3>2. x \in Int /\ Hd(f[c]).ts \in Int
      BY <2>1, <2>8, <3>1
    <3>3. Hd(f[c]).ts = x => b <= c
      BY <2>5, <2>7, <2>8
    <3> QED BY <3>1, <3>2, <3>3
  <2>9. b \in Names(f, n)
    BY <2>5, <2>7
  <2>10. Best(f, n, b)
    BY <1>2, <2>8, <2>9 DEF Best
  <2> QED BY <2>6, <2>7, <2>10
<1> QED BY <1>1, <1>2

LEMMA BestUnique ==
  ASSUME NEW f \in FlashType, NEW n \in Name, NEW b \in Blk, NEW d \in Blk, Best(f, n, b), Best(f, n, d)
  PROVE  b = d
<1>1. Hd(f[b]).ts \in Int /\ Hd(f[d]).ts \in Int /\ b \in Int /\ d \in Int
  BY HeadTs, Areas DEF FlashType
<1> QED BY <1>1 DEF Best

\* The scan takes the best block.
LEMMA FoundIs ==
  ASSUME FlashOK, bad = {}, NEW n \in Name
  PROVE  Found(n) = Names(flash, n)
BY HeadOfBlock DEF Found, Names

LEMMA ValidIsBest ==
  ASSUME FlashOK, bad = {}, NEW n \in Name, Found(n) # {}
  PROVE  Best(flash, n, ValidBlk(n, Found(n)))
<1>0. Found(n) = Names(flash, n) /\ Names(flash, n) \subseteq Blk /\ Names(flash, n) \in SUBSET Nat
  BY FoundIs, Areas DEF Names
<1>1. PICK d \in Blk : Best(flash, n, d)
  BY <1>0, BestExists DEF FlashOK, FlashType
<1>2. CASE FullBlk(n)
  BY <1>0, <1>2, MinIs DEF ValidBlk, Best
<1>3. CASE ~FullBlk(n)
  <2>1. PICK M : M = {b \in Names(flash, n) : \A c \in Names(flash, n) : Head(b).ts >= Head(c).ts}
    OBVIOUS
  <2>2. \A b \in Names(flash, n) : Head(b) = Hd(flash[b]) /\ Hd(flash[b]).ts \in Int
    BY <1>0, HeadOfBlock, HeadTs DEF FlashOK
  <2>3. d \in Names(flash, n)
    BY <1>1 DEF Best
  <2>4. d \in M
    <3>1. \A c \in Names(flash, n) : Hd(flash[d]).ts >= Hd(flash[c]).ts
      BY <1>1, <1>3, <2>2, <2>3 DEF Best
    <3> QED BY <2>1, <2>2, <2>3, <3>1
  <2>5. M \in SUBSET Nat /\ M \subseteq Names(flash, n)
    BY <1>0, <2>1
  <2>6. PICK m : m = Min(M)
    OBVIOUS
  <2>7. m \in M /\ m <= d
    BY <2>4, <2>5, <2>6, MinIs
  <2>8. m \in Names(flash, n) /\ Hd(flash[m]).ts >= Hd(flash[d]).ts
    BY <2>1, <2>2, <2>3, <2>7
  <2>9. d <= m
    BY <1>1, <1>3, <2>2, <2>3, <2>8 DEF Best
  <2>10. m = d
    BY <1>0, <2>3, <2>7, <2>8, <2>9
  <2>11. ValidBlk(n, Found(n)) = m
    BY <1>0, <1>3, <2>1, <2>6 DEF ValidBlk
  <2> QED BY <1>1, <2>10, <2>11
<1> QED BY <1>2, <1>3

\* What a start reads.
LEMMA ReadsStart ==
  ASSUME FlashOK, bad = {}, NEW n \in Name, NEW A, Reads(flash, n, A)
  PROVE  AtStart(n) \in A
<1>0. Found(n) = Names(flash, n) /\ flash \in FlashType
  BY FoundIs DEF FlashOK, FlashType
<1>1. CASE Names(flash, n) = {}
  <2>1. Scan(n) = NoInfo
    BY <1>0, <1>1, ScanOutcome
  <2> QED BY <1>1, <2>1, Constants DEF AtStart, ReadAt, Reads
<1>2. CASE Names(flash, n) # {}
  <2>1. PICK b \in Blk, s \in Slot : Best(flash, n, b) /\ Holds(n, flash[b], s, A)
    BY <1>2 DEF Reads
  <2>2. PICK d \in Found(n) : /\ d = ValidBlk(n, Found(n)) /\ d \in Blk /\ Scan(n).valid
                              /\ Scan(n).blk = d /\ Scan(n).slot = PlaceIn(n, flash[d])
    BY <1>0, <1>2, ScanOutcome
  <2>3. d = b
    BY <1>0, <2>1, <2>2, ValidIsBest, BestUnique
  <2>4. PlaceIn(n, flash[b]) = s
    BY <2>1, LastIs DEF Holds
  <2> QED BY <2>1, <2>2, <2>3, <2>4 DEF AtStart, ReadAt, Holds, Value
<1> QED BY <1>1, <1>2

LEMMA ReadsAny ==
  ASSUME NEW f \in FlashType, NEW n \in Name, NEW A, Names(f, n) # {},
         \A b \in Names(f, n) : \E s \in Slot : Holds(n, f[b], s, A)
  PROVE  Reads(f, n, A)
<1>1. PICK b \in Blk : Best(f, n, b)
  BY BestExists
<1>2. b \in Names(f, n)
  BY <1>1 DEF Best
<1> QED BY <1>1, <1>2 DEF Reads

(***************************************************************************)
(* Blocks and the flash after a write or an erase.                         *)
(***************************************************************************)
LEMMA HeadSame ==
  ASSUME NEW c, NEW d, NEW s \in Slot, c[s] # Torn, \A t \in Slot : t <= s => d[t] = c[t]
  PROVE  Hd(d) = Hd(c)
<1>1. s \in Rd(c)
  BY DEF Rd
<1>2. PICK h : h = Min(Rd(c))
  OBVIOUS
<1>3. h \in Rd(c) /\ h <= s /\ \A t \in Rd(c) : h <= t
  BY <1>1, <1>2, MinIs, Areas DEF Rd
<1>4. h \in Slot /\ h \in Nat /\ s \in Nat /\ c[h] # Torn /\ d[h] = c[h]
  BY <1>3, Areas DEF Rd
<1>5. ASSUME NEW t \in Slot, t < h PROVE c[t] = Torn /\ d[t] = Torn
  <2>1. t \in Nat
    BY Areas
  <2>2. ~(h <= t) /\ t <= s
    BY <1>3, <1>4, <1>5, <2>1
  <2>3. c[t] = Torn
    BY <1>3, <2>2 DEF Rd
  <2> QED BY <2>2, <2>3
<1>6. Hd(c) = c[h] /\ Hd(d) = d[h]
  BY <1>4, <1>5, HeadBy
<1> QED BY <1>4, <1>6

LEMMA HeadIn ==
  ASSUME NEW c
  PROVE  Hd(c) = Torn \/ \E h \in Slot : Hd(c) = c[h]
<1>1. Rd(c) # {} => Min(Rd(c)) \in Slot
  BY MinIs, Areas DEF Rd
<1> QED BY <1>1 DEF Hd

\* A spoilt page and an erased one are nobody's.
Void == {Erased, Torn}

LEMMA HeadNone ==
  ASSUME NEW c, \A t \in Slot : c[t] \in Void
  PROVE  Hd(c).name = "none"
BY HeadIn, Constants DEF Void

LEMMA AppendLast ==
  ASSUME NEW n \in Name, ~FullBlk(n), NEW c, NEW s \in Slot, Base(n, c, s)
  PROVE  /\ c[s + 1] \in Void => LastIn(n, c, s) /\ Tidy(c)
         /\ c[s + 1].name = n => LastIn(n, c, s + 1) /\ Tidy(c)
<1>0. /\ s \in Nat /\ s + 1 \in Slot /\ s + 1 < Slots /\ Slots \in Nat /\ c[s].name = n
      /\ s + 1 \in s + 1 .. Slots /\ s + 2 \in s + 1 .. Slots /\ s + 1 \in 0 .. Slots
      /\ s + 2 \in 0 .. Slots /\ s + 2 \in (s + 1) + 1 .. Slots
      /\ \A t \in Slot : t \in Nat
  BY Areas DEF Base
<1>1. \A t \in Slot : /\ t < s + 1 => c[t] = Torn \/ c[t].name = n
                      /\ t >= s + 2 => c[t] = Erased
  BY <1>0 DEF Base, ErasedFrom
<1>2. CASE c[s + 1] = Erased
  <2>1. TidyTo(c, n, s + 1)
    <3>1. \A t \in Slot : t >= s + 1 => t = s + 1 \/ t >= s + 2
      BY <1>0
    <3> QED BY <1>1, <1>2, <3>1 DEF TidyTo
  <2>2. \A t \in s + 1 .. (s + 1) - 1 : c[t] = Torn
    BY <1>0
  <2> QED BY <1>0, <1>2, <2>1, <2>2, Constants DEF LastIn, Tidy
<1>3. ASSUME c[s + 1] = Torn \/ c[s + 1].name = n
      PROVE  TidyTo(c, n, s + 2)
  <2>1. \A t \in Slot : t < s + 2 => t = s + 1 \/ t < s + 1
    BY <1>0
  <2> QED BY <1>1, <1>3, <2>1 DEF TidyTo
<1>4. CASE c[s + 1] = Torn
  <2>1. TidyTo(c, n, s + 2)
    BY <1>3, <1>4
  <2>2. \A t \in s + 1 .. (s + 2) - 1 : t = s + 1
    BY <1>0
  <2> QED BY <1>0, <1>4, <2>1, <2>2, Constants DEF LastIn, Tidy
<1>5. CASE c[s + 1].name = n
  <2>1. TidyTo(c, n, s + 2)
    BY <1>3, <1>5
  <2>2. \A t \in (s + 1) + 1 .. (s + 2) - 1 : c[t] = Torn
    BY <1>0
  <2>3. c[s + 1] \notin Void
    BY <1>5, Constants DEF Void
  <2> QED BY <1>0, <1>5, <2>1, <2>2, <2>3 DEF LastIn, Tidy
<1> QED BY <1>2, <1>4, <1>5 DEF Void

LEMMA FreshLast ==
  ASSUME NEW n \in Name, NEW c, NEW r, r.name = n, NEW s \in Slot, Fresh(n, c, r, s)
  PROVE  /\ s = 0 /\ c[0] \in Void => Hd(c).name = "none"
         /\ s = 0 /\ c[0].name = n => LastIn(n, c, 0)
         /\ s > 0 => LastIn(n, c, 0) /\ c[0] = r
         /\ c[s] \in Void \/ c[s].name = n => Tidy(c)
<1>0. /\ s \in Nat /\ Slots \in Nat /\ s < Slots /\ 0 \in Slot /\ s \in 0 .. Slots
      /\ s + 1 \in 0 .. Slots /\ 1 \in 0 + 1 .. Slots /\ \A t \in Slot : t \in Nat
  BY Areas
<1>1. \A t \in Slot : (t < s => c[t] = r) /\ (t >= s + 1 => c[t] = Erased)
  BY DEF Fresh, ErasedFrom
<1>2. ASSUME s = 0, c[0] \in Void PROVE Hd(c).name = "none"
  <2>1. \A t \in Slot : t = 0 \/ t >= s + 1
    BY <1>0, <1>2
  <2>2. \A t \in Slot : c[t] \in Void
    BY <1>1, <1>2, <2>1 DEF Void
  <2> QED BY <2>2, HeadNone
<1>3. ASSUME s = 0, c[0].name = n PROVE LastIn(n, c, 0)
  <2>1. \A t \in Slot : (t < 1 => t = 0) /\ (t >= 1 => t >= s + 1) /\ ~(t < 0)
    BY <1>0, <1>3
  <2>2. TidyTo(c, n, 1)
    BY <1>1, <1>3, <2>1 DEF TidyTo
  <2>3. \A t \in 0 + 1 .. 1 - 1 : c[t] = Torn
    OBVIOUS
  <2> QED BY <1>0, <1>3, <2>1, <2>2, <2>3 DEF LastIn
<1>4. ASSUME s > 0 PROVE LastIn(n, c, 0) /\ c[0] = r
  <2>1. FullBlk(n)
    BY <1>0, <1>4 DEF Fresh
  <2>2. c[0] = r
    BY <1>0, <1>1, <1>4
  <2>3. \A t \in Slot : ~(t < 0)
    BY <1>0
  <2> QED BY <2>1, <2>2, <2>3 DEF LastIn
<1>5. ASSUME c[s] = Erased PROVE Tidy(c)
  <2>1. \A t \in Slot : t >= s => t = s \/ t >= s + 1
    BY <1>0
  <2>2. TidyTo(c, n, s)
    BY <1>1, <1>5, <2>1 DEF TidyTo
  <2> QED BY <1>0, <2>2 DEF Tidy
<1>6. ASSUME c[s] = Torn \/ c[s].name = n PROVE Tidy(c)
  <2>1. \A t \in Slot : t < s + 1 => t = s \/ t < s
    BY <1>0
  <2>2. TidyTo(c, n, s + 1)
    BY <1>1, <1>6, <2>1 DEF TidyTo
  <2> QED BY <1>0, <2>2 DEF Tidy
<1> QED BY <1>2, <1>3, <1>4, <1>5, <1>6 DEF Void

LEMMA BestKept ==
  ASSUME NEW f, NEW g, NEW n, NEW b, Best(f, n, b), b \in Names(g, n), Hd(g[b]) = Hd(f[b]),
         \A c \in Names(g, n) : c \in Names(f, n) /\ Hd(g[c]) = Hd(f[c])
  PROVE  Best(g, n, b)
BY DEF Best

LEMMA BestOnly ==
  ASSUME NEW f, NEW n, NEW b \in Blk, Names(f, n) \subseteq {b}, b \in Names(f, n)
  PROVE  Best(f, n, b)
<1>1. b <= b
  BY Areas
<1> QED BY <1>1 DEF Best

LEMMA AppendReads ==
  ASSUME NEW f \in FlashType, NEW n \in Name, ~FullBlk(n), NEW A, NEW b \in Blk, Best(f, n, b),
         NEW s \in Slot, Base(n, f[b], s), Value(n, f[b][s]) \in A,
         f[b][s + 1] \in Void \/ (f[b][s + 1].name = n /\ Value(n, f[b][s + 1]) \in A)
  PROVE  Reads(f, n, A)
<1>1. s + 1 \in Slot /\ Names(f, n) # {}
  BY DEF Base, Best
<1>2. Holds(n, f[b], s, A) \/ Holds(n, f[b], s + 1, A)
  BY AppendLast DEF Holds
<1> QED BY <1>1, <1>2 DEF Reads

\* The old block o, if there is one, and the new one.
OneOfTwo(S, b, o, v) == S \subseteq {b} \union {x \in {o} : v}
HoldsSome(n, c, A)   == \E s \in Slot : Holds(n, c, s, A)

LEMMA FreshReads ==
  ASSUME NEW f \in FlashType, NEW n \in Name, NEW A, NEW b \in Blk, NEW r, r.name = n,
         Value(n, r) \in A, NEW s \in Slot, Fresh(n, f[b], r, s),
         s = 0 => f[b][0] \in Void \/ (f[b][0].name = n /\ Value(n, f[b][0]) \in A),
         NEW o, NEW v \in BOOLEAN, OneOfTwo(Names(f, n), b, o, v),
         v => o \in Blk /\ HoldsSome(n, f[o], A),
         ~v => Absent \in A
  PROVE  Reads(f, n, A)
<1>1. CASE Names(f, n) = {}
  <2>1. ~v
    BY <1>1, LastIs DEF Holds, Names, HoldsSome
  <2> QED BY <1>1, <2>1 DEF Reads
<1>2. CASE Names(f, n) # {}
  <2>1. ASSUME NEW x \in Names(f, n) PROVE \E t \in Slot : Holds(n, f[x], t, A)
    <3>1. CASE x # b
      BY <2>1, <3>1 DEF OneOfTwo, HoldsSome
    <3>2. CASE x = b
      <4>1. Hd(f[b]).name = n /\ n # "none" /\ 0 \in Slot /\ s \in Nat
        BY <2>1, <3>2, Constants, Areas DEF Names
      <4>2. CASE s = 0
        <5>1. f[b][0] \notin Void
          BY <4>1, <4>2, FreshLast
        <5>2. Holds(n, f[b], 0, A)
          BY <4>2, <5>1, FreshLast DEF Holds
        <5> QED BY <3>2, <4>1, <5>2
      <4>3. CASE s > 0
        <5>1. LastIn(n, f[b], 0) /\ f[b][0] = r
          BY <4>3, FreshLast
        <5> QED BY <3>2, <4>1, <5>1 DEF Holds
      <4> QED BY <4>1, <4>2, <4>3
    <3> QED BY <3>1, <3>2
  <2> QED BY <1>2, <2>1, ReadsAny
<1> QED BY <1>1, <1>2

(***************************************************************************)
(* The invariant: as long as no operation of the flash failed.             *)
(***************************************************************************)
\* Item n, with the entry i, is where a start would find it and reads as one
\* of A.
SettledAt(f, n, i, A) ==
  IF i.valid
  THEN /\ Best(f, n, i.blk) /\ Holds(n, f[i.blk], i.slot, A)
       /\ ~FullBlk(n) /\ ~i.update => ErasedFrom(f[i.blk], i.slot + 1)
  ELSE Names(f, n) = {} /\ Absent \in A /\ i.slot = 0
Settled(n) == SettledAt(flash, n, info[n], accept[n])

\* Besides the block of the bad block table, which is the first one as long as
\* no block was marked bad, no more than three blocks are ever in use, and the
\* configuration is written before the environment.
FlashInv(f) ==
  /\ \A b \in Blk : Tidy(f[b])
  /\ \A n \in Name : Names(f, n) \subseteq 2 .. 4
  /\ Names(f, "nenv") = {} => Names(f, "ncnf") \subseteq 2 .. 3
  /\ Names(f, "ncnf") = {} => Names(f, "nenv") = {}

OffInv == pc \in {"off", "dead"} =>
  /\ \A n \in Name : n \in torn \/ Reads(flash, n, accept[n])
  /\ accept["ncnf"] \subseteq {Absent, Cfg} \/ "ncnf" \in torn
  /\ pc = "dead" => "ncnf" \in torn

Writing == pc \in {"write", "commit", "eraseold", "finish"}

RunInv == pc \notin {"off", "dead"} =>
  /\ \A r \in reserved : \/ \E n \in Name : info[n].valid /\ r = info[n].blk
                         \/ pc \in {"eraseold", "finish"} /\ r = This.blk
                         \/ pc = "eraseold" /\ r = save.old
                         \/ r = 1
  /\ pc # "config" /\ ~(Saving /\ save.n = "ncnf") => info["ncnf"].valid
  /\ accept["ncnf"] \subseteq {Absent, Cfg}
  /\ \A n \in Name : ~(Writing /\ save.n = n) => Settled(n)

\* The new block that a save has taken, and the one it leaves.
NewBlk ==
  LET n == save.n  b == save.blk  i == This IN
  /\ b \in 2 .. 4 /\ (n = "ncnf" /\ ~info["nenv"].valid => b \in 2 .. 3)
  /\ Names(flash, n) \subseteq {b} \union {x \in {i.blk} : i.valid}
  /\ i.valid => Holds(n, flash[i.blk], i.slot, accept[n])
  /\ ~i.valid => Absent \in accept[n] /\ i.slot = 0

SaveInv == Saving =>
  /\ save.n = "ncnf" => save.val = Cfg
  /\ save.val \in accept[save.n]
  /\ pc = "getblk" => save.blk = 0 \/ save.blk \in reserved
  /\ pc = "erase" => save.slot = 0 /\ save.k = 0 /\ NewBlk

WriteInv == pc \in {"write", "commit"} =>
  LET n == save.n  b == save.blk  c == flash[b] IN
    /\ c[save.slot] = IF pc = "write" THEN PageOf(TheRecord, save.k) ELSE TheRecord
    /\ IF SameBlk(This)
       THEN /\ save.slot = This.slot + 1 /\ Base(n, c, This.slot)
            /\ Best(flash, n, b) /\ Value(n, c[This.slot]) \in accept[n]
       ELSE Fresh(n, c, TheRecord, save.slot) /\ NewBlk

EndInv == pc \in {"eraseold", "finish"} =>
  LET n == save.n  b == This.blk  c == flash[b] IN
    /\ save.blk = b
    /\ c[This.slot] = TheRecord /\ LastIn(n, c, This.slot)
    /\ ~FullBlk(n) => ErasedFrom(c, This.slot + 1)
    /\ pc = "finish" => Best(flash, n, b)
    /\ pc = "eraseold" =>
         /\ Names(flash, n) \subseteq {b, save.old}
         /\ \E s \in Slot : Holds(n, flash[save.old], s, accept[n])

SafeNow == /\ pc \notin {"test", "testold"} /\ FlashInv(flash)
           /\ OffInv /\ RunInv /\ SaveInv /\ WriteInv /\ EndInv
SurviveInv == NoFlashFault => SafeNow

-----------------------------------------------------------------------------
LEMMA PageIs ==
  ASSUME NEW r \in Record, r.name \in Name, NEW k \in 0 .. DataPages
  PROVE  /\ PageOf(r, 0) = Erased
         /\ PageOf(r, k) \in Record
         /\ k # 0 => PageOf(r, k).name = r.name /\ PageOf(r, k).val = r.val /\ PageOf(r, k).len = k
         /\ Spoil(PageOf(r, 0), 0) = Torn
         /\ k # 0 => LET q == Spoil(PageOf(r, k), k) IN
                       q \in Record /\ q.name = r.name /\ q.val = r.val /\ q.len = k
<1>0. k \in 0 .. RecPages
  BY Areas
<1>1. PageOf(r, 0) = Erased /\ Spoil(PageOf(r, 0), 0) = Torn
  BY DEF PageOf, Spoil
<1>2. CASE k = 0
  BY <1>1, <1>2, Constants
<1>3. CASE k # 0
  <2>1. PICK q : q = [r EXCEPT !.len = k]
    OBVIOUS
  <2>2. PageOf(r, k) = q /\ q \in Record /\ q.name = r.name /\ q.val = r.val /\ q.len = k
    BY <1>0, <1>3, <2>1 DEF PageOf, Record
  <2>3. ~(q.len < k)
    BY <2>2
  <2>4. Spoil(q, k) = [q EXCEPT !.len = k, !.ruined = TRUE]
    BY <1>3, <2>2, <2>3 DEF Spoil
  <2>5. PICK z : z = Spoil(q, k)
    OBVIOUS
  <2>6. z \in Record /\ z.name = r.name /\ z.val = r.val /\ z.len = k
    BY <1>0, <2>2, <2>4, <2>5 DEF Record
  <2> QED BY <1>1, <1>3, <2>2, <2>5, <2>6
<1> QED BY <1>2, <1>3

LEMMA ProgramPage ==
  ASSUME NEW r \in Record, r.len = RecPages, ~r.ruined, NEW k \in 0 .. DataPages
  PROVE  /\ Program(PageOf(r, k), k, r) = PageOf(r, k + 1)
         /\ k + 1 = RecPages => PageOf(r, k + 1) = r
<1>0. k + 1 # 0 /\ k + 1 \in 0 .. RecPages
  BY Areas
<1>1. PICK q : q = PageOf(r, k)
  OBVIOUS
<1>2. ~q.ruined /\ q.len = k
  BY <1>1 DEF PageOf, Record, Erased
<1>3. Program(q, k, r) = [r EXCEPT !.len = k + 1]
  BY <1>2 DEF Program
<1>4. PageOf(r, k + 1) = [r EXCEPT !.len = k + 1]
  BY <1>0 DEF PageOf
<1>5. k + 1 = RecPages => [r EXCEPT !.len = k + 1] = r
  BY DEF Record
<1> QED BY <1>1, <1>3, <1>4, <1>5

LEMMA ValueOf ==
  ASSUME NEW n, NEW q, q.name = n, q.val # Pattern, q.len >= DataPages
  PROVE  Value(n, q) = q.val
BY DEF Value

\* Only block x differs.
Elsewhere(f, g, x) == \A b \in Blk \ {x} : g[b] = f[b]
\* No item loses its last block.
NoneLost(f, g) == \A n \in Name : Names(g, n) = {} => Names(f, n) = {}

LEMMA SettledKept ==
  ASSUME NEW f, NEW g, NEW n \in Name, NEW i, NEW A, SettledAt(f, n, i, A), NEW x \in Blk,
         Elsewhere(f, g, x), Hd(g[x]).name # n,
         i.valid => i.blk \in Blk /\ i.blk # x
  PROVE  SettledAt(g, n, i, A) /\ (Names(g, n) = {} => Names(f, n) = {})
<1>2. Names(g, n) = Names(f, n) \ {x}
  BY DEF Names, Elsewhere
<1>3. CASE ~i.valid
  <2>1. Names(f, n) = {} /\ Absent \in A /\ i.slot = 0
    BY <1>3 DEF SettledAt
  <2> QED BY <1>2, <1>3, <2>1 DEF SettledAt
<1>4. CASE i.valid
  <2>1. Best(f, n, i.blk) /\ g[i.blk] = f[i.blk] /\ i.blk \in Names(f, n) /\ i.blk \in Names(g, n)
    BY <1>2, <1>4 DEF SettledAt, Best, Elsewhere
  <2>2. \A c \in Names(g, n) : c \in Names(f, n) /\ Hd(g[c]) = Hd(f[c])
    BY <1>2 DEF Names, Elsewhere
  <2>3. Best(g, n, i.blk)
    BY <2>1, <2>2, BestKept
  <2> QED BY <1>4, <2>1, <2>3 DEF SettledAt
<1> QED BY <1>3, <1>4

LEMMA SettledMore ==
  ASSUME NEW f, NEW n, NEW i, NEW j, NEW A, NEW B, SettledAt(f, n, i, A), A \subseteq B,
         j.valid = i.valid, j.blk = i.blk, j.slot = i.slot, j.update = i.update
  PROVE  SettledAt(f, n, j, B)
BY DEF SettledAt, Holds

LEMMA SettledReads ==
  ASSUME NEW f, NEW n \in Name, NEW i, NEW A, SettledAt(f, n, i, A), i.slot \in Slot,
         i.valid => i.blk \in Blk
  PROVE  Reads(f, n, A)
<1>1. CASE i.valid
  BY <1>1 DEF SettledAt, Reads, Best
<1>2. CASE ~i.valid
  BY <1>2 DEF SettledAt, Reads
<1> QED BY <1>1, <1>2

\* A block is erased, or lost in an erase.
LEMMA EraseKeeps ==
  ASSUME NEW f, FlashInv(f), NEW x \in Blk, NEW g, g[x] = Blank \/ g[x] = Unusable,
         Elsewhere(f, g, x), NoneLost(f, g)
  PROVE  FlashInv(g) /\ Hd(g[x]).name = "none"
<1> DEFINE d == g[x]
<1>0. \A t \in Slot : d[t] \in Void
  BY DEF Blank, Unusable, Void
<1>1. Hd(d).name = "none"
  BY <1>0, HeadNone
<1>3. g[x] = d /\ \A b \in Blk \ {x} : g[b] = f[b]
  BY DEF Elsewhere
<1>2. \A n \in Name : Names(g, n) = Names(f, n) \ {x}
  BY <1>1, <1>3, Constants DEF Names
<1>4. Tidy(d)
  <2>1. "nenv" \in Name /\ 0 \in 0 .. Slots /\ Slots \in 0 .. Slots
        /\ \A t \in Slot : ~(t < 0) /\ ~(t >= Slots)
    BY Areas DEF Name
  <2>2. CASE d = Blank
    <3>1. TidyTo(d, "nenv", 0)
      BY <2>1, <2>2 DEF TidyTo, Blank
    <3> QED BY <2>1, <3>1 DEF Tidy
  <2>3. CASE d = Unusable
    <3>1. TidyTo(d, "nenv", Slots)
      BY <2>1, <2>3 DEF TidyTo, Unusable
    <3> QED BY <2>1, <3>1 DEF Tidy
  <2> QED BY <2>2, <2>3
<1>5. \A b \in Blk : Tidy(g[b])
  BY <1>3, <1>4 DEF FlashInv
<1>6. "nenv" \in Name /\ "ncnf" \in Name
  BY DEF Name
<1> QED BY <1>1, <1>2, <1>5, <1>6 DEF FlashInv, NoneLost

\* The slot of the record under way gets the contents q.
Put(q) == [flash EXCEPT ![save.blk] = [flash[save.blk] EXCEPT ![save.slot] = q]]

LEMMA PutIs ==
  ASSUME TypeInv, PlaceInv, SurviveInv, NoFlashFault, pc \in {"write", "commit"},
         NEW q \in Record, q \in Void \/ q.name = save.n,
         q \in Void => flash[save.blk][save.slot] = Erased,
         NEW g, g = Put(q)
  PROVE  LET n == save.n  b == save.blk  s == save.slot  i == This IN
         /\ g \in FlashType /\ g[b][s] = q /\ Tidy(g[b])
         /\ \A x \in Blk \ {b} : g[x] = flash[x]
         /\ \A m \in Name \ {n} : Hd(g[b]).name # m /\ Names(g, m) = Names(flash, m) \ {b}
         /\ Names(flash, n) \subseteq Names(g, n)
         /\ SameBlk(i) => /\ Base(n, g[b], i.slot) /\ Best(g, n, b) /\ Names(g, n) = Names(flash, n)
                          /\ g[b][i.slot] = flash[b][i.slot] /\ s = i.slot + 1
                          /\ Value(n, g[b][i.slot]) \in accept[n]
         /\ ~SameBlk(i) => /\ Fresh(n, g[b], TheRecord, s)
                           /\ Names(g, n) \subseteq {b} \union {x \in {i.blk} : i.valid}
                           /\ i.valid => i.blk \in Blk /\ i.blk # b
<1>1. PICK n \in Name : n = save.n
  BY DEF TypeInv, PointOK, Saving
<1>2. PICK b \in Blk : b = save.blk
  BY DEF TypeInv, PointOK
<1>3. PICK s \in Slot : s = save.slot
  BY DEF TypeInv, SaveType
<1>4. PICK i \in InfoType : i = This
  BY <1>1 DEF TypeInv, This
<1>5. PICK r \in Record : r = TheRecord /\ r.name = n
  BY <1>1, TheRecordOK DEF RecordOK, Saving
<1>6. PICK c : c = flash[b]
  OBVIOUS
<1>7. PICK d : d = g[b]
  OBVIOUS
<1>8. /\ c \in [Slot -> Record] /\ d \in [Slot -> Record] /\ g \in FlashType
      /\ d[s] = q /\ (\A t \in Slot : t # s => d[t] = c[t]) /\ \A x \in Blk \ {b} : g[x] = flash[x]
  BY <1>2, <1>3, <1>6, <1>7 DEF TypeInv, FlashOK, FlashType, Put
<1>9. i.valid => i.blk \in Blk /\ i.blk \in reserved
  BY <1>1, <1>4 DEF TypeInv, This, PlaceInv, KnownBlocks
<1>10. ~SameBlk(i) => b \notin reserved
  BY <1>2, <1>4 DEF PlaceInv, PointPlace
<1>11. /\ SameBlk(i) => /\ s = i.slot + 1 /\ Base(n, c, i.slot) /\ Best(flash, n, b)
                        /\ Value(n, c[i.slot]) \in accept[n]
       /\ ~SameBlk(i) => Fresh(n, c, r, s) /\ NewBlk
       /\ q \in Void => c[s] = Erased
  BY <1>1, <1>2, <1>3, <1>4, <1>5, <1>6 DEF SurviveInv, SafeNow, WriteInv
<1>12. SameBlk(i) => ~FullBlk(n) /\ i.valid
  BY <1>1 DEF SameBlk
<1>13. n # "none" /\ \A m \in Name \ {n} : m # "none"
  BY Constants
<1>14. CASE SameBlk(i)
  <2>1. i.slot \in Slot /\ i.slot \in Nat /\ s = i.slot + 1 /\ c[i.slot].name = n
    BY <1>11, <1>14, Areas DEF InfoType, Base
  <2>2. \A t \in Slot : (t <= i.slot => d[t] = c[t]) /\ (t >= i.slot + 2 => d[t] = c[t])
    BY <1>8, <2>1, Areas
  <2>3. Base(n, d, i.slot) /\ d[i.slot] = c[i.slot]
    <3>1. d[i.slot] = c[i.slot]
      BY <2>1, <2>2
    <3>2. ErasedFrom(d, i.slot + 2)
      BY <1>11, <1>14, <2>2 DEF ErasedFrom, Base
    <3>3. \A t \in Slot : t <= i.slot => d[t] = Torn \/ d[t].name = n
      BY <1>11, <1>14, <2>2 DEF Base
    <3> QED BY <1>3, <2>1, <3>1, <3>2, <3>3 DEF Base
  <2>4. c[i.slot] # Torn
    BY <1>13, <2>1, Constants
  <2>5. Hd(d) = Hd(c)
    BY <2>1, <2>2, <2>4, HeadSame
  <2>6. Hd(c).name = n
    BY <1>6, <1>11, <1>14 DEF Best, Names
  <2>7. Tidy(d)
    BY <1>1, <1>8, <1>12, <1>14, <2>1, <2>3, AppendLast
  <2>8. Names(g, n) = Names(flash, n) /\ b \in Names(g, n)
    BY <1>6, <1>7, <1>8, <2>5, <2>6 DEF Names
  <2>9. \A x \in Names(g, n) : x \in Names(flash, n) /\ Hd(g[x]) = Hd(flash[x])
    BY <1>6, <1>7, <1>8, <2>5, <2>8 DEF Names
  <2>10. Best(g, n, b)
    BY <1>6, <1>7, <1>11, <1>14, <2>5, <2>8, <2>9, BestKept
  <2>11. \A m \in Name \ {n} : Hd(d).name # m /\ Names(g, m) = Names(flash, m) \ {b}
    BY <1>6, <1>7, <1>8, <2>5, <2>6 DEF Names
  <2>12. Value(n, d[i.slot]) \in accept[n]
    BY <1>11, <1>14, <2>3
  <2> QED BY <1>1, <1>2, <1>3, <1>4, <1>6, <1>7, <1>8, <1>14, <2>1, <2>3, <2>7, <2>8, <2>10, <2>11, <2>12
<1>15. CASE ~SameBlk(i)
  <2>1. Fresh(n, c, r, s) /\ NewBlk
    BY <1>11, <1>15
  <2>2. Fresh(n, d, r, s)
    <3>1. \A t \in Slot : t < s \/ t >= s + 1 => t # s
      BY <1>3, Areas
    <3>2. ErasedFrom(d, s + 1)
      BY <1>8, <2>1, <3>1 DEF ErasedFrom, Fresh
    <3>3. \A t \in Slot : t < s => d[t] = r
      BY <1>8, <2>1, <3>1 DEF Fresh
    <3> QED BY <2>1, <3>2, <3>3 DEF Fresh
  <2>3. Tidy(d)
    BY <1>1, <1>3, <1>5, <1>8, <2>2, FreshLast
  <2>4. i.valid => i.blk \in Blk /\ i.blk # b
    BY <1>9, <1>10, <1>15
  <2>5. Names(flash, n) \subseteq {b} \union {x \in {i.blk} : i.valid}
    BY <1>1, <1>2, <1>4, <2>1 DEF NewBlk
  <2>6. Names(g, n) \subseteq {b} \union {x \in {i.blk} : i.valid}
    BY <1>8, <2>5 DEF Names
  <2>7. Hd(d).name \in {n, "none"}
    <3>1. Hd(d) = Torn \/ \E h \in Slot : Hd(d) = d[h]
      BY HeadIn
    <3>2. \A h \in Slot : h < s \/ h = s \/ h >= s + 1
      BY <1>3, Areas
    <3>3. \A h \in Slot : d[h] \in Void \/ d[h].name = n
      BY <1>1, <1>5, <1>8, <2>2, <3>2 DEF Fresh, ErasedFrom, Void
    <3> QED BY <3>1, <3>3, Constants DEF Void
  <2>8. \A m \in Name \ {n} : Hd(d).name # m /\ Names(g, m) = Names(flash, m) \ {b}
    BY <1>7, <1>8, <1>13, <2>7 DEF Names
  <2>9. Hd(c).name = n => Hd(d).name = n
    <3>0. s \in Nat /\ 0 \in Slot
      BY Areas
    <3>1. CASE s > 0
      BY <1>5, <2>2, <3>0, <3>1, FreshLast, LastIs
    <3>2. CASE s = 0 /\ q \in Void
      <4>1. c[0] \in Void
        BY <1>11, <3>2 DEF Void
      <4> QED BY <1>5, <1>13, <2>1, <3>2, <4>1, FreshLast
    <3>3. CASE s = 0 /\ q.name = n
      BY <1>5, <1>8, <2>2, <3>0, <3>3, FreshLast, LastIs
    <3> QED BY <1>1, <3>0, <3>1, <3>2, <3>3
  <2>10. Names(flash, n) \subseteq Names(g, n)
    BY <1>6, <1>7, <1>8, <2>9 DEF Names
  <2> QED BY <1>1, <1>2, <1>3, <1>4, <1>5, <1>7, <1>8, <1>15, <2>2, <2>3, <2>4, <2>6, <2>8, <2>10
<1> QED BY <1>14, <1>15

LEMMA PutKeeps ==
  ASSUME TypeInv, PlaceInv, SurviveInv, NoFlashFault, pc \in {"write", "commit"},
         NEW q \in Record, q \in Void \/ q.name = save.n,
         q \in Void => flash[save.blk][save.slot] = Erased,
         NEW g, g = Put(q)
  PROVE  FlashInv(g) /\ \A m \in Name \ {save.n} : SettledAt(g, m, info[m], accept[m])
<1>1. PICK n \in Name : n = save.n
  BY DEF TypeInv, PointOK, Saving
<1>2. PICK b \in Blk : b = save.blk
  BY DEF TypeInv, PointOK
<1>3. PICK i : i = info[n]
  OBVIOUS
<1>4. /\ g \in FlashType /\ Tidy(g[b]) /\ \A x \in Blk \ {b} : g[x] = flash[x]
      /\ \A m \in Name \ {n} : Hd(g[b]).name # m /\ Names(g, m) = Names(flash, m) \ {b}
      /\ Names(flash, n) \subseteq Names(g, n)
      /\ SameBlk(i) => Names(g, n) = Names(flash, n)
      /\ ~SameBlk(i) => Names(g, n) \subseteq {b} \union {x \in {i.blk} : i.valid}
  BY <1>1, <1>2, <1>3, PutIs DEF This
<1>5. /\ FlashInv(flash) /\ flash \in FlashType
      /\ \A m \in Name \ {n} : SettledAt(flash, m, info[m], accept[m])
      /\ (n # "ncnf" => info["ncnf"].valid) /\ (~SameBlk(i) => NewBlk)
  BY <1>1, <1>3 DEF SurviveInv, SafeNow, RunInv, Writing, Saving, Settled, TypeInv, FlashOK, FlashType,
     WriteInv, This
<1>6. \A m \in Name \ {n} : info[m].valid => info[m].blk \in Blk /\ info[m].blk # b
  BY <1>1, <1>2 DEF PlaceInv, PointPlace, Spares, TypeInv
<1>9. \A m \in Name \ {n} : /\ SettledAt(g, m, info[m], accept[m])
                            /\ Names(g, m) = {} => Names(flash, m) = {}
  <2> SUFFICES ASSUME NEW m \in Name \ {n}
               PROVE  SettledAt(g, m, info[m], accept[m]) /\ (Names(g, m) = {} => Names(flash, m) = {})
    OBVIOUS
  <2>1. /\ SettledAt(flash, m, info[m], accept[m]) /\ Hd(g[b]).name # m
        /\ (info[m].valid => info[m].blk \in Blk /\ info[m].blk # b)
    BY <1>4, <1>5, <1>6
  <2>2. Elsewhere(flash, g, b)
    BY <1>4 DEF Elsewhere
  <2> QED BY <2>1, <2>2, SettledKept
<1>10. \A x \in Blk : Tidy(g[x])
  BY <1>4, <1>5 DEF FlashInv
<1>11. ~SameBlk(i) => /\ b \in 2 .. 4 /\ (n = "ncnf" /\ ~info["nenv"].valid => b \in 2 .. 3)
                      /\ i.valid => i.blk \in Names(flash, n)
  <2>1. ASSUME ~SameBlk(i), i.valid PROVE i.blk \in Names(flash, n)
    <3>1. LastIn(n, flash[i.blk], i.slot) /\ i.blk \in Blk /\ i.slot \in Slot
      BY <1>1, <1>3, <1>5, <2>1 DEF NewBlk, Holds, This, TypeInv, InfoType
    <3> QED BY <3>1, LastIs DEF Names
  <2> QED BY <1>1, <1>2, <1>5, <2>1 DEF NewBlk
<1>12. Names(g, n) \subseteq 2 .. 4
  <2>1. Names(flash, n) \subseteq 2 .. 4
    BY <1>5 DEF FlashInv
  <2> QED BY <1>4, <1>11, <2>1
<1>13. \A m \in Name : Names(g, m) \subseteq 2 .. 4
  <2>1. \A m \in Name : Names(flash, m) \subseteq 2 .. 4
    BY <1>5 DEF FlashInv
  <2>2. \A m \in Name \ {n} : Names(g, m) \subseteq Names(flash, m)
    BY <1>4
  <2> QED BY <1>12, <2>1, <2>2
<1>14. Names(g, "nenv") = {} => Names(g, "ncnf") \subseteq 2 .. 3
  <2> SUFFICES ASSUME Names(g, "nenv") = {} PROVE Names(g, "ncnf") \subseteq 2 .. 3
    OBVIOUS
  <2>1. Names(flash, "nenv") = {}
    BY <1>4, <1>9 DEF Name
  <2>2. Names(flash, "ncnf") \subseteq 2 .. 3
    BY <1>5, <2>1 DEF FlashInv
  <2>3. CASE n = "nenv"
    <3>1. "ncnf" \in Name \ {n}
      BY <2>3 DEF Name
    <3>2. Names(g, "ncnf") = Names(flash, "ncnf") \ {b}
      BY <1>4, <3>1
    <3> QED BY <2>2, <3>2
  <2>4. CASE n = "ncnf"
    <3>1. ~info["nenv"].valid
      BY <1>5, <2>1, <2>4 DEF SettledAt, Best, Name
    <3>2. ~SameBlk(i)
      BY <1>1, <2>4 DEF SameBlk, FullBlk
    <3> QED BY <1>4, <1>11, <2>2, <2>4, <3>1, <3>2
  <2> QED BY <2>3, <2>4 DEF Name
<1>15. Names(g, "ncnf") = {} => Names(g, "nenv") = {}
  <2> SUFFICES ASSUME Names(g, "ncnf") = {} PROVE Names(g, "nenv") = {}
    OBVIOUS
  <2>1. Names(flash, "ncnf") = {}
    BY <1>4, <1>9 DEF Name
  <2>2. Names(flash, "nenv") = {}
    BY <1>5, <2>1 DEF FlashInv
  <2>3. CASE n = "nenv"
    BY <1>5, <2>1, <2>3 DEF SettledAt, Best, Name
  <2>4. CASE n = "ncnf"
    BY <1>4, <2>2, <2>4 DEF Name
  <2> QED BY <2>3, <2>4 DEF Name
<1> QED BY <1>1, <1>9, <1>10, <1>13, <1>14, <1>15 DEF FlashInv

LEMMA PutReads ==
  ASSUME TypeInv, PlaceInv, SurviveInv, NoFlashFault, pc \in {"write", "commit"},
         NEW q \in Record, q \in Void \/ q.name = save.n,
         q \in Void => flash[save.blk][save.slot] = Erased,
         q \notin Void => Value(save.n, q) \in accept[save.n] \/ (FullBlk(save.n) /\ save.slot # 0),
         NEW g, g = Put(q)
  PROVE  Reads(g, save.n, accept[save.n])
<1>1. PICK n \in Name : n = save.n
  BY DEF TypeInv, PointOK, Saving
<1>2. PICK b \in Blk : b = save.blk
  BY DEF TypeInv, PointOK
<1>3. PICK s \in Slot : s = save.slot
  BY DEF TypeInv, SaveType
<1>4. PICK i \in InfoType : i = info[n] /\ i = This
  BY <1>1 DEF TypeInv, This
<1>5. PICK r \in Record : r = TheRecord /\ r.name = n /\ r.val = save.val /\ r.len = RecPages
  BY <1>1, TheRecordOK DEF RecordOK, Saving
<1>6. PICK A : A = accept[n]
  OBVIOUS
<1>7. Value(n, r) \in A
  <2>1. save.val \in SaveVal(n) /\ save.val \in A
    BY <1>1, <1>6 DEF SurviveInv, SafeNow, SaveInv, Saving, TypeInv, PointOK
  <2>2. save.val # Pattern /\ RecPages >= DataPages
    BY <2>1, Constants, Areas
  <2> QED BY <1>5, <2>1, <2>2 DEF Value
<1>8. CASE SameBlk(i)
  <2>1. ~FullBlk(n) /\ i.slot \in Slot
    BY <1>1, <1>8 DEF SameBlk, InfoType
  <2>2. /\ g \in FlashType /\ g[b][s] = q /\ Base(n, g[b], i.slot) /\ Best(g, n, b) /\ s = i.slot + 1
        /\ Value(n, g[b][i.slot]) \in A
    BY <1>1, <1>2, <1>3, <1>4, <1>6, <1>8, PutIs DEF This
  <2>3. g[b][i.slot + 1] \in Void \/ (g[b][i.slot + 1].name = n /\ Value(n, g[b][i.slot + 1]) \in A)
    BY <1>1, <1>6, <2>1, <2>2
  <2>4. Reads(g, n, A)
    BY <2>1, <2>2, <2>3, AppendReads
  <2> QED BY <1>1, <1>6, <2>4
<1>9. CASE ~SameBlk(i)
  <2>1. /\ g \in FlashType /\ g[b][s] = q /\ Fresh(n, g[b], r, s)
        /\ Names(g, n) \subseteq {b} \union {x \in {i.blk} : i.valid}
        /\ (i.valid => i.blk \in Blk /\ i.blk # b)
        /\ \A x \in Blk \ {b} : g[x] = flash[x]
    BY <1>1, <1>2, <1>3, <1>4, <1>5, <1>9, PutIs DEF This
  <2>2. NewBlk
    BY <1>4, <1>9 DEF SurviveInv, SafeNow, WriteInv
  <2>3. s = 0 => g[b][0] \in Void \/ (g[b][0].name = n /\ Value(n, g[b][0]) \in A)
    BY <1>1, <1>3, <1>6, <2>1
  <2>4. i.valid => i.blk \in Blk /\ \E t \in Slot : Holds(n, g[i.blk], t, A)
    BY <1>1, <1>4, <1>6, <2>1, <2>2 DEF NewBlk, InfoType
  <2>5. ~i.valid => Absent \in A
    BY <1>1, <1>4, <1>6, <2>2 DEF NewBlk
  <2>6. PICK v, o : v \in BOOLEAN /\ v = i.valid /\ o = i.blk
    BY <1>4 DEF InfoType
  <2>7. /\ OneOfTwo(Names(g, n), b, o, v)
        /\ (v => o \in Blk /\ HoldsSome(n, g[o], A)) /\ (~v => Absent \in A)
    BY <2>1, <2>4, <2>5, <2>6 DEF OneOfTwo, HoldsSome
  <2>8. r.name = n /\ Value(n, r) \in A /\ Fresh(n, g[b], r, s) /\ g \in FlashType
    BY <1>5, <1>7, <2>1
  <2>9. Reads(g, n, A)
    BY <2>3, <2>6, <2>7, <2>8, FreshReads
  <2> QED BY <1>1, <1>6, <2>9
<1> QED BY <1>8, <1>9

\* The record that is saved may be read.
LEMMA RecordReads ==
  ASSUME TypeInv, Saving, NEW q, q.name = save.n, q.val = save.val, q.len >= DataPages
  PROVE  Value(save.n, q) = save.val /\ q \notin Void
<1>1. save.val \in SaveVal(save.n) /\ save.n \in Name
  BY DEF TypeInv, PointOK
<1>2. save.val # Pattern
  BY <1>1, Constants
<1>3. q \notin Void
  BY <1>1, Constants DEF Void
<1> QED BY <1>2, <1>3 DEF Value

LEMMA NowReads ==
  ASSUME TypeInv, PlaceInv, SurviveInv, NoFlashFault, NEW n \in Name
  PROVE  n \in torn \/ HalfWritten(n) \/ Reads(flash, n, accept[n])
<1>0. /\ pc \notin {"test", "testold"} /\ FlashInv(flash) /\ OffInv /\ RunInv /\ SaveInv /\ WriteInv /\ EndInv
      /\ flash \in FlashType /\ info[n] \in InfoType /\ (info[n].valid => info[n].blk \in Blk)
  BY DEF SurviveInv, SafeNow, TypeInv, FlashOK, FlashType
<1>1. CASE pc \in {"off", "dead"}
  BY <1>0, <1>1 DEF OffInv
<1>2. CASE pc \notin {"off", "dead"} /\ ~(Writing /\ save.n = n)
  <2>1. SettledAt(flash, n, info[n], accept[n])
    BY <1>0, <1>2 DEF RunInv, Settled
  <2>2. info[n].slot \in Slot
    BY <1>0 DEF InfoType
  <2> QED BY <1>0, <2>1, <2>2, SettledReads
<1>3. CASE pc \in {"write", "commit"} /\ save.n = n
  <2>0. save.blk \in Blk /\ save.slot \in Slot /\ Saving /\ save.k \in 0 .. DataPages
    BY <1>3 DEF TypeInv, PointOK, SaveType, Saving
  <2>1. PICK q : q = flash[save.blk][save.slot]
    OBVIOUS
  <2>2. q \in Record /\ flash = Put(q)
    BY <1>0, <2>0, <2>1 DEF FlashType, Put
  <2>3. PICK r \in Record : /\ r = TheRecord /\ r.name = n /\ r.val = save.val /\ r.len = RecPages
    BY <1>3, <2>0, TheRecordOK DEF RecordOK
  <2>4. save.val \in accept[n]
    BY <1>0, <1>3, <2>0 DEF SaveInv
  <2>5. ASSUME q.name = n, q.val = save.val, q.len >= DataPages PROVE Reads(flash, n, accept[n])
    <3>1. Value(n, q) \in accept[n] /\ q \notin Void
      BY <1>3, <2>0, <2>4, <2>5, RecordReads
    <3> QED BY <1>3, <2>2, <2>5, <3>1, PutReads
  <2>6. CASE pc = "commit"
    <3>1. q = r
      BY <1>0, <2>1, <2>3, <2>6 DEF WriteInv
    <3>2. RecPages >= DataPages
      BY Areas
    <3> QED BY <2>3, <2>5, <3>1, <3>2
  <2>7. CASE pc = "write"
    <3>1. q = PageOf(r, save.k)
      BY <1>0, <2>1, <2>3, <2>7 DEF WriteInv
    <3>2. CASE save.k = 0
      <4>1. q = Erased /\ q \in Void
        BY <2>3, <3>1, <3>2 DEF PageOf, Void
      <4> QED BY <1>3, <2>1, <2>2, <4>1, PutReads
    <3>3. CASE save.k # 0
      <4>1. q.name = n /\ q.val = save.val /\ q.len = save.k
        BY <2>0, <2>3, <3>1, <3>3, PageIs
      <4>2. CASE save.k >= DataPages
        BY <2>5, <4>1, <4>2
      <4>3. CASE ~(save.k >= DataPages)
        <5>1. save.k \in 1 .. DataPages - 1
          BY <2>0, <3>3, <4>3, Areas
        <5>2. CASE FullBlk(n) /\ save.slot # 0
          <6>1. q \notin Void
            BY <4>1, Constants DEF Void
          <6> QED BY <1>3, <2>2, <4>1, <5>2, <6>1, PutReads
        <5>3. CASE ~(FullBlk(n) /\ save.slot # 0)
          BY <1>3, <2>7, <5>1, <5>3 DEF HalfWritten
        <5> QED BY <5>2, <5>3
      <4> QED BY <4>2, <4>3
    <3> QED BY <3>2, <3>3
  <2> QED BY <1>3, <2>6, <2>7
<1>4. CASE pc \in {"eraseold", "finish"} /\ save.n = n
  <2>0. Saving /\ info[n].slot \in Slot /\ info[n].blk \in Blk
    BY <1>0, <1>4 DEF TypeInv, PointOK, Saving, InfoType, This
  <2>1. PICK b \in Blk, s \in Slot : b = info[n].blk /\ s = info[n].slot
    BY <2>0
  <2>2. PICK r \in Record : /\ r = TheRecord /\ r.name = n /\ r.val = save.val /\ r.len = RecPages
    BY <1>4, <2>0, TheRecordOK DEF RecordOK
  <2>3. /\ flash[b][s] = r /\ LastIn(n, flash[b], s)
        /\ (pc = "finish" => Best(flash, n, b))
        /\ (pc = "eraseold" => /\ Names(flash, n) \subseteq {b, save.old}
                               /\ \E t \in Slot : Holds(n, flash[save.old], t, accept[n]))
    BY <1>0, <1>4, <2>1, <2>2 DEF EndInv, This
  <2>4. RecPages >= DataPages /\ save.val \in accept[n]
    BY <1>0, <1>4, <2>0, Areas DEF SaveInv
  <2>5. Holds(n, flash[b], s, accept[n])
    BY <1>4, <2>0, <2>2, <2>3, <2>4, RecordReads DEF Holds
  <2>6. b \in Names(flash, n)
    BY <2>3, LastIs DEF Names
  <2>7. CASE pc = "finish"
    BY <2>3, <2>5, <2>6, <2>7 DEF Reads
  <2>8. CASE pc = "eraseold"
    <3>1. \A x \in Names(flash, n) : \E t \in Slot : Holds(n, flash[x], t, accept[n])
      BY <2>3, <2>5, <2>8
    <3> QED BY <1>0, <2>6, <3>1, ReadsAny
  <2> QED BY <1>4, <2>7, <2>8
<1> QED BY <1>1, <1>2, <1>3, <1>4 DEF Writing

\* The least block that is not reserved is the third of the first three that
\* are not the table's.
LEMMA Third ==
  ASSUME NEW p \in 2 .. 4, NEW q \in 2 .. 4, NEW x \in 2 .. 4, NEW b \in 2 .. 4,
         p # q, x # p, x # q, b # p, b # q
  PROVE  b = x
OBVIOUS

LEMMA LeastFree ==
  ASSUME NEW R, NEW p, NEW q, 1 \in R, R \subseteq {1, p, q}, NEW b \in Blk \ R,
         \A y \in Blk \ R : b <= y
  PROVE  b \in 2 .. 4 /\ (R \subseteq {1, p} => b \in 2 .. 3)
<1>0. NBlk \in Nat /\ NBlk >= 3 /\ b \in Nat /\ b >= 2 /\ b <= NBlk /\ 2 \in Blk /\ 3 \in Blk
  BY InfoAssumption DEF Blk
<1>1. b \in 2 .. 4
  <2>1. CASE NBlk = 3
    BY <1>0, <2>1
  <2>2. CASE NBlk >= 4
    <3>1. 4 \in Blk
      BY <1>0, <2>2 DEF Blk
    <3>2. 2 \notin R \/ 3 \notin R \/ 4 \notin R
      OBVIOUS
    <3>3. b <= 4
      BY <1>0, <3>1, <3>2
    <3> QED BY <1>0, <3>3
  <2> QED BY <1>0, <2>1, <2>2
<1>2. ASSUME R \subseteq {1, p} PROVE b \in 2 .. 3
  <2>1. 2 \notin R \/ 3 \notin R
    BY <1>2
  <2>2. b <= 3
    BY <1>0, <2>1
  <2> QED BY <1>0, <2>2
<1> QED BY <1>1, <1>2

(***************************************************************************)
(* Each step preserves it.                                                 *)
(***************************************************************************)
LEMMA SurviveGetBlk ==
  ASSUME TypeInv, PlaceInv, SafeNow, NoFlashFault, GetBlk, NoFlashFault'
  PROVE  SafeNow'
<1>0. /\ pc = "getblk" /\ Saving /\ save \in SaveType /\ FlashInv(flash) /\ RunInv /\ SaveInv
      /\ UNCHANGED <<flash, reserved, accept>>
  BY DEF GetBlk, Saving, TypeInv, SafeNow
<1>1. PICK n \in Name : n = save.n
  BY <1>0 DEF TypeInv, PointOK
<1>2. PICK i \in InfoType : i = info[n] /\ i = This
  BY <1>1 DEF TypeInv, This
<1>3. /\ \A m \in Name : SettledAt(flash, m, info[m], accept[m])
      /\ (n # "ncnf" => info["ncnf"].valid) /\ accept["ncnf"] \subseteq {Absent, Cfg}
      /\ \A r \in reserved : r = 1 \/ \E m \in Name : info[m].valid /\ r = info[m].blk
      /\ 1 \in reserved
  BY <1>0, <1>1 DEF RunInv, Writing, Settled, PlaceInv, TablePlace, NoFlashFault
<1>4. i.valid => i.blk \in Blk /\ i.blk \in reserved
  BY <1>1, <1>2 DEF TypeInv, PlaceInv, KnownBlocks
<1>5. /\ (n = "ncnf" => save.val = Cfg) /\ save.val \in accept[n]
      /\ (save.blk = 0 \/ save.blk \in reserved)
  BY <1>0, <1>1 DEF SaveInv
<1>6. CASE SameBlk(i) /\ pc' = "write" /\ info' = info
           /\ save' = [save EXCEPT !.blk = i.blk, !.slot = i.slot + 1, !.k = 0]
  <2>1. save'.n = n /\ save'.val = save.val /\ save'.blk = i.blk /\ save'.slot = i.slot + 1 /\ save'.k = 0
    BY <1>0, <1>1, <1>6 DEF SaveType
  <2>2. i.valid /\ ~i.update /\ ~FullBlk(n) /\ i.slot + 1 \in Slot /\ i.slot \in Slot /\ i.slot \in Nat
    BY <1>1, <1>6, Areas DEF SameBlk, InfoType, Slot
  <2>3. PICK c : c = flash[i.blk]
    OBVIOUS
  <2>4. /\ Best(flash, n, i.blk) /\ LastIn(n, c, i.slot) /\ Value(n, c[i.slot]) \in accept[n]
        /\ ErasedFrom(c, i.slot + 1)
    BY <1>2, <1>3, <2>2, <2>3 DEF SettledAt, Holds
  <2>5. c[i.slot + 1] = Erased
    BY <2>2, <2>4 DEF ErasedFrom
  <2>6. Base(n, c, i.slot)
    <3>1. PICK e \in i.slot + 1 .. Slots : TidyTo(c, n, e)
      BY <2>2, <2>4 DEF LastIn
    <3>2. \A t \in Slot : t <= i.slot => t < e
      BY <2>2, <3>1, Areas
    <3>3. \A t \in Slot : t >= i.slot + 2 => t >= i.slot + 1
      BY <2>2, Areas
    <3>4. ErasedFrom(c, i.slot + 2)
      BY <2>4, <3>3 DEF ErasedFrom
    <3> QED BY <2>2, <2>4, <3>1, <3>2, <3>4 DEF Base, LastIn, TidyTo
  <2>7. SameBlk(This)' /\ This' = i
    BY <1>1, <1>2, <1>6, <2>1 DEF SameBlk, This
  <2>8. PageOf(TheRecord', save'.k) = Erased
    BY <2>1 DEF PageOf
  <2>9. WriteInv'
    BY <1>0, <1>6, <2>1, <2>3, <2>4, <2>5, <2>6, <2>7, <2>8 DEF WriteInv
  <2>10. SaveInv'
    BY <1>0, <1>5, <1>6, <2>1 DEF SaveInv
  <2>11. RunInv'
    BY <1>0, <1>1, <1>3, <1>6, <2>1 DEF RunInv, Settled, Writing, Saving
  <2>12. OffInv' /\ EndInv'
    BY <1>6 DEF OffInv, EndInv
  <2> QED BY <1>0, <1>6, <2>9, <2>10, <2>11, <2>12 DEF SafeNow
<1>7. CASE /\ ~SameBlk(i) /\ FreeBlks(reserved, save.blk) # {} /\ pc' = "erase" /\ info' = info
           /\ save' = [save EXCEPT !.blk = Min(FreeBlks(reserved, save.blk)), !.skip = save.blk,
                                   !.slot = 0, !.k = 0,
                                   !.full = i.valid /\ ~i.update /\ ~FullBlk(save.n)]
  <2>1. PICK b : b = Min(FreeBlks(reserved, save.blk))
    OBVIOUS
  <2>2. FreeBlks(reserved, save.blk) = Blk \ reserved
    BY <1>5, Areas DEF FreeBlks
  <2>3. b \in Blk \ reserved /\ \A y \in Blk \ reserved : b <= y
    BY <1>7, <2>1, <2>2, MinIs, Areas
  <2>4. save'.n = n /\ save'.val = save.val /\ save'.blk = b /\ save'.slot = 0 /\ save'.k = 0
    BY <1>0, <1>1, <1>7, <2>1 DEF SaveType
  <2>5. PICK p, q : p = info["ncnf"].blk /\ q = info["nenv"].blk
    OBVIOUS
  <2>6. /\ reserved \subseteq {1, p, q} /\ 1 \in reserved
        /\ (~info["nenv"].valid => reserved \subseteq {1, p})
    BY <1>3, <2>5 DEF Name
  <2>7. b \in 2 .. 4 /\ (~info["nenv"].valid => b \in 2 .. 3)
    BY <2>3, <2>6, LeastFree
  <2>8. ASSUME i.valid, NEW x \in Names(flash, n), x # i.blk PROVE x = b
    <3>1. x \in Blk /\ x \in 2 .. 4 /\ i.blk \in Names(flash, n) /\ i.blk \in 2 .. 4 /\ i.blk # b
      BY <1>0, <1>2, <1>3, <1>4, <2>3, <2>8 DEF FlashInv, SettledAt, Best, Names
    <3>2. PICK m \in Name : m # n
      BY DEF Name
    <3>3. CASE info[m].valid
      <4>1. info[m].blk \in Names(flash, m) /\ info[m].blk \in 2 .. 4
        BY <1>0, <1>3, <3>3 DEF FlashInv, SettledAt, Best
      <4>2. info[m].blk # x /\ info[m].blk # i.blk
        BY <3>1, <3>2, <4>1 DEF Names
      <4>3. info[m].blk # b
        BY <2>3, <3>3 DEF PlaceInv, KnownBlocks
      <4> QED BY <2>7, <2>8, <3>1, <4>1, <4>2, <4>3, Third
    <3>4. CASE ~info[m].valid
      <4>1. m = "nenv" /\ n = "ncnf"
        BY <1>3, <3>2, <3>4 DEF Name
      <4>2. Names(flash, "nenv") = {}
        BY <1>3, <3>4, <4>1 DEF SettledAt
      <4>3. Names(flash, "ncnf") \subseteq 2 .. 3
        BY <1>0, <4>2 DEF FlashInv
      <4>4. x \in 2 .. 3 /\ i.blk \in 2 .. 3 /\ b \in 2 .. 3
        BY <2>7, <3>1, <3>4, <4>1, <4>3
      <4> QED BY <2>8, <3>1, <4>4
    <3> QED BY <3>3, <3>4
  <2>9. Names(flash, n) \subseteq {b} \union {x \in {i.blk} : i.valid}
    <3>1. ~i.valid => Names(flash, n) = {}
      BY <1>2, <1>3 DEF SettledAt
    <3> QED BY <2>8, <3>1
  <2>10. /\ i.valid => Holds(n, flash[i.blk], i.slot, accept[n])
         /\ ~i.valid => Absent \in accept[n] /\ i.slot = 0
    BY <1>2, <1>3 DEF SettledAt
  <2>11. This' = i
    BY <1>2, <1>7, <2>4 DEF This
  <2>12. NewBlk'
    BY <1>0, <1>7, <2>4, <2>7, <2>9, <2>10, <2>11 DEF NewBlk
  <2>13. SaveInv'
    BY <1>0, <1>5, <1>7, <2>4, <2>12 DEF SaveInv
  <2>14. RunInv'
    BY <1>0, <1>1, <1>3, <1>7, <2>4 DEF RunInv, Settled, Writing, Saving
  <2>15. OffInv' /\ EndInv' /\ WriteInv'
    BY <1>7 DEF OffInv, EndInv, WriteInv
  <2> QED BY <1>0, <1>7, <2>13, <2>14, <2>15 DEF SafeNow
<1> QED BY <1>1, <1>2, <1>6, <1>7 DEF GetBlk, NoFlashFault

\* What the flash is after the erase of the block taken, or the loss of it.
LEMMA EraseNew ==
  ASSUME TypeInv, PlaceInv, SafeNow, pc = "erase", NEW d \in {Blank, Unusable}, NEW g,
         g = [flash EXCEPT ![save.blk] = d]
  PROVE  /\ FlashInv(g) /\ g[save.blk] = d /\ Elsewhere(flash, g, save.blk)
         /\ \A m \in Name : SettledAt(g, m, info[m], accept[m])
         /\ \A m \in Name : Names(g, m) \subseteq Names(flash, m)
<1>0. FlashInv(flash) /\ RunInv /\ flash \in FlashType /\ save.blk \in Blk /\ save.blk \notin reserved
  BY DEF TypeInv, PointOK, SafeNow, PlaceInv, PointPlace, FlashOK, FlashType
<1>1. g[save.blk] = d /\ Elsewhere(flash, g, save.blk)
  BY <1>0 DEF Elsewhere, FlashType
<1>2. Hd(d).name = "none"
  <2>1. \A t \in Slot : d[t] \in Void
    BY DEF Blank, Unusable, Void
  <2> QED BY <2>1, HeadNone
<1>3. \A m \in Name : /\ SettledAt(g, m, info[m], accept[m])
                      /\ (Names(g, m) = {} => Names(flash, m) = {})
  <2> SUFFICES ASSUME NEW m \in Name
               PROVE  SettledAt(g, m, info[m], accept[m]) /\ (Names(g, m) = {} => Names(flash, m) = {})
    OBVIOUS
  <2>1. SettledAt(flash, m, info[m], accept[m]) /\ Hd(g[save.blk]).name # m
    BY <1>0, <1>1, <1>2, Constants DEF RunInv, Writing, Settled
  <2>2. info[m].valid => info[m].blk \in Blk /\ info[m].blk # save.blk
    BY <1>0 DEF TypeInv, PlaceInv, KnownBlocks
  <2> QED BY <1>0, <1>1, <2>1, <2>2, SettledKept
<1>4. FlashInv(g) /\ \A m \in Name : Names(g, m) = Names(flash, m) \ {save.blk}
  <2>1. NoneLost(flash, g)
    BY <1>3 DEF NoneLost
  <2>2. g[save.blk] = Blank \/ g[save.blk] = Unusable
    BY <1>1
  <2>3. FlashInv(g)
    BY <1>0, <1>1, <2>1, <2>2, EraseKeeps
  <2>4. \A m \in Name : Names(g, m) = Names(flash, m) \ {save.blk}
    BY <1>1, <1>2, Constants DEF Names, Elsewhere
  <2> QED BY <2>3, <2>4
<1> QED BY <1>1, <1>3, <1>4

LEMMA SurviveErase ==
  ASSUME TypeInv, PlaceInv, SafeNow, EraseFree
  PROVE  SafeNow'
<1>0. /\ pc = "erase" /\ Saving /\ RunInv /\ SaveInv /\ pc' = "write"
      /\ flash' = [flash EXCEPT ![save.blk] = Blank]
      /\ UNCHANGED <<info, reserved, save, accept>>
  BY DEF EraseFree, EraseBlk, Saving, SafeNow, ram, history
<1>1. PICK n \in Name : n = save.n
  BY <1>0 DEF TypeInv, PointOK
<1>2. PICK i \in InfoType : i = info[n] /\ i = This
  BY <1>1 DEF TypeInv, This
<1>3. PICK b \in Blk : b = save.blk /\ b \notin reserved /\ ~SameBlk(i)
  BY <1>0, <1>2 DEF TypeInv, PointOK, PlaceInv, PointPlace
<1>4. PICK g : g = flash'
  OBVIOUS
<1>5. /\ FlashInv(g) /\ g[b] = Blank /\ Elsewhere(flash, g, b)
      /\ \A m \in Name : SettledAt(g, m, info[m], accept[m])
      /\ \A m \in Name : Names(g, m) \subseteq Names(flash, m)
  BY <1>0, <1>3, <1>4, EraseNew
<1>6. NewBlk /\ save.slot = 0 /\ save.k = 0
  BY <1>0 DEF SaveInv
<1>7. i.valid => i.blk \in Blk /\ i.blk # b /\ g[i.blk] = flash[i.blk]
  BY <1>2, <1>3, <1>5 DEF TypeInv, PlaceInv, KnownBlocks, Elsewhere
<1>8. This' = i /\ ~SameBlk(This)' /\ SameBlk(This)' = FALSE
  BY <1>0, <1>2, <1>3 DEF This, SameBlk
<1>9. NewBlk'
  BY <1>0, <1>1, <1>2, <1>3, <1>4, <1>5, <1>6, <1>7, <1>8 DEF NewBlk
<1>10. Fresh(n, g[b], TheRecord', 0)
  <2>1. \A t \in Slot : ~(t < 0) /\ g[b][t] = Erased
    BY <1>5, Areas DEF Blank
  <2> QED BY <2>1 DEF Fresh, ErasedFrom
<1>11. flash'[save'.blk][save'.slot] = PageOf(TheRecord', save'.k)
  BY <1>0, <1>3, <1>4, <1>5, <1>6, Areas DEF PageOf, Blank
<1>12. WriteInv'
  BY <1>0, <1>1, <1>3, <1>4, <1>6, <1>8, <1>9, <1>10, <1>11 DEF WriteInv
<1>13. SaveInv'
  BY <1>0 DEF SaveInv, Saving
<1>14. RunInv'
  BY <1>0, <1>4, <1>5 DEF RunInv, Settled, Writing, Saving
<1>15. OffInv' /\ EndInv'
  BY <1>0 DEF OffInv, EndInv
<1> QED BY <1>0, <1>4, <1>5, <1>12, <1>13, <1>14, <1>15 DEF SafeNow

LEMMA SurviveWrite ==
  ASSUME TypeInv, PlaceInv, SafeNow, NoFlashFault, WritePage
  PROVE  SafeNow'
<1>0. /\ pc = "write" /\ Saving /\ RunInv /\ SaveInv /\ WriteInv /\ pc' \in {"write", "commit"}
      /\ UNCHANGED <<info, reserved, accept>> /\ SurviveInv /\ flash \in FlashType
  BY DEF WritePage, Saving, SafeNow, history, SurviveInv, TypeInv, FlashOK, FlashType
<1>1. PICK n \in Name : n = save.n
  BY <1>0 DEF TypeInv, PointOK
<1>2. PICK i \in InfoType : i = info[n] /\ i = This
  BY <1>1 DEF TypeInv, This
<1>3. PICK b \in Blk : b = save.blk
  BY <1>0 DEF TypeInv, PointOK
<1>4. PICK s \in Slot, k \in 0 .. DataPages : s = save.slot /\ k = save.k /\ save \in SaveType
  BY DEF TypeInv, SaveType
<1>5. PICK r \in Record : r = TheRecord /\ r.name = n /\ r.len = RecPages /\ ~r.ruined
  BY <1>0, <1>1, TheRecordOK DEF RecordOK
<1>6. PICK q : q = PageOf(r, k + 1)
  OBVIOUS
<1>7. flash[b][s] = PageOf(r, k) /\ Program(flash[b][s], k, r) = q /\ (k + 1 = RecPages => q = r)
  BY <1>0, <1>3, <1>4, <1>5, <1>6, ProgramPage DEF WriteInv
<1>8. q \in Record /\ q.name = n /\ q \notin Void
  <2>1. k + 1 # 0 /\ k + 1 \in 0 .. RecPages
    BY Areas
  <2>2. q = [r EXCEPT !.len = k + 1]
    BY <1>6, <2>1 DEF PageOf
  <2>3. q \in Record /\ q.name = n
    BY <1>5, <2>1, <2>2 DEF Record
  <2> QED BY <2>3, Constants DEF Void
<1>9. PICK g : g = flash'
  OBVIOUS
<1>10. g = Put(q)
  BY <1>0, <1>3, <1>4, <1>5, <1>7, <1>9 DEF WritePage, Put, FlashType
<1>11. FlashInv(g) /\ \A m \in Name \ {n} : SettledAt(g, m, info[m], accept[m])
  BY <1>0, <1>1, <1>8, <1>10, PutKeeps
<1>12. /\ g[b][s] = q /\ \A x \in Blk \ {b} : g[x] = flash[x]
       /\ SameBlk(i) => /\ Base(n, g[b], i.slot) /\ Best(g, n, b) /\ s = i.slot + 1
                        /\ Value(n, g[b][i.slot]) \in accept[n]
       /\ ~SameBlk(i) => /\ Fresh(n, g[b], r, s)
                         /\ Names(g, n) \subseteq {b} \union {x \in {i.blk} : i.valid}
                         /\ i.valid => i.blk \in Blk /\ i.blk # b
  BY <1>0, <1>1, <1>2, <1>3, <1>4, <1>5, <1>8, <1>10, PutIs DEF This
<1>13. /\ save'.n = n /\ save'.val = save.val /\ save'.blk = b
       /\ \/ k + 1 < RecPages /\ save'.k = k + 1 /\ save'.slot = s /\ pc' = "write"
          \/ /\ k + 1 = RecPages /\ FullBlk(n) /\ s + 1 < Slots /\ save'.k = 0 /\ save'.slot = s + 1
             /\ pc' = "write"
          \/ k + 1 = RecPages /\ save'.slot = s /\ pc' = "commit"
  <2>1. CASE k + 1 < RecPages /\ save' = [save EXCEPT !.k = k + 1] /\ pc' = "write"
    BY <1>1, <1>3, <1>4, <2>1 DEF SaveType
  <2>2. CASE /\ k + 1 = RecPages /\ FullBlk(n) /\ s + 1 < Slots /\ pc' = "write"
             /\ save' = [save EXCEPT !.k = 0, !.slot = s + 1]
    BY <1>1, <1>3, <1>4, <2>2 DEF SaveType
  <2>3. CASE k + 1 = RecPages /\ save' = save /\ pc' = "commit"
    BY <1>1, <1>3, <1>4, <2>3
  <2> QED BY <1>0, <1>1, <1>4, <2>1, <2>2, <2>3 DEF WritePage
<1>14. This' = i /\ SameBlk(This)' = SameBlk(i) /\ TheRecord' = r
  BY <1>0, <1>1, <1>2, <1>5, <1>13 DEF This, SameBlk, TheRecord
<1>15. ~SameBlk(i) => NewBlk'
  <2> SUFFICES ASSUME ~SameBlk(i) PROVE NewBlk'
    OBVIOUS
  <2>1. NewBlk
    BY <1>0, <1>2 DEF WriteInv
  <2>2. i.valid => g[i.blk] = flash[i.blk]
    BY <1>12
  <2> QED BY <1>0, <1>1, <1>2, <1>3, <1>9, <1>12, <1>13, <1>14, <2>1, <2>2 DEF NewBlk
<1>16. WriteInv'
  <2>1. CASE save'.slot = s
    <3>1. g[b][s] = IF pc' = "write" THEN PageOf(r, save'.k) ELSE r
      BY <1>4, <1>6, <1>7, <1>12, <1>13, <2>1, Areas
    <3> QED BY <1>0, <1>4, <1>9, <1>12, <1>13, <1>14, <1>15, <2>1, <3>1 DEF WriteInv
  <2>2. CASE k + 1 = RecPages /\ FullBlk(n) /\ s + 1 < Slots /\ save'.k = 0 /\ save'.slot = s + 1 /\ pc' = "write"
    <3>1. ~SameBlk(i)
      BY <1>1, <2>2 DEF SameBlk
    <3>2. s \in Nat /\ s + 1 \in Slot /\ \A t \in Slot : t \in Nat
      BY <2>2, Areas DEF Slot
    <3>3. \A t \in Slot : /\ (t < s + 1 => t < s \/ t = s)
                          /\ (t >= (s + 1) + 1 => t >= s + 1)
      BY <3>2
    <3>4. g[b][s] = r /\ g[b][s + 1] = Erased
      BY <1>7, <1>12, <2>2, <3>1, <3>2 DEF Fresh, ErasedFrom
    <3>5. Fresh(n, g[b], r, s + 1)
      BY <1>12, <2>2, <3>1, <3>3, <3>4 DEF Fresh, ErasedFrom
    <3>6. PageOf(r, 0) = Erased
      BY DEF PageOf
    <3> QED BY <1>9, <1>13, <1>14, <1>15, <2>2, <3>1, <3>4, <3>5, <3>6 DEF WriteInv
  <2> QED BY <1>13, <2>1, <2>2
<1>17. SaveInv'
  BY <1>0, <1>1, <1>13 DEF SaveInv, Saving
<1>18. RunInv'
  BY <1>0, <1>1, <1>9, <1>11, <1>13 DEF RunInv, Settled, Writing, Saving
<1>19. OffInv' /\ EndInv'
  BY <1>0 DEF OffInv, EndInv
<1> QED BY <1>0, <1>9, <1>11, <1>16, <1>17, <1>18, <1>19 DEF SafeNow

LEMMA SurviveCommit ==
  ASSUME TypeInv, PlaceInv, SafeNow, Commit
  PROVE  SafeNow'
<1>0. /\ pc = "commit" /\ Saving /\ FlashInv(flash) /\ RunInv /\ SaveInv /\ WriteInv
      /\ UNCHANGED <<flash, accept>>
  BY DEF Commit, Saving, SafeNow, history
<1>1. PICK n \in Name : n = save.n
  BY <1>0 DEF TypeInv, PointOK
<1>2. PICK i \in InfoType : i = info[n] /\ i = This
  BY <1>1 DEF TypeInv, This
<1>3. PICK b \in Blk : b = save.blk
  BY <1>0 DEF TypeInv, PointOK
<1>4. PICK s \in Slot : s = save.slot
  BY DEF TypeInv, SaveType
<1>5. PICK r \in Record : r = TheRecord /\ r.name = n
  BY <1>0, <1>1, TheRecordOK DEF RecordOK
<1>6. PICK c : c = flash[b]
  OBVIOUS
<1>7. PICK j \in InfoType : j = info'[n] /\ j.valid = i.valid /\ j.blk = b /\ j.ts = i.ts
  BY <1>1, <1>2, <1>3, CommitTo
<1>8. /\ info' = [info EXCEPT ![n] = j] /\ (~i.valid => j.slot = i.slot)
      /\ (i.valid /\ MovesTo(i) => j.slot = 0) /\ (~MovesTo(i) => SameBlk(i) /\ j.slot = i.slot + 1)
  BY <1>1, <1>2, <1>7, CommitTo
<1>9. /\ save'.n = n /\ save'.val = save.val /\ save'.blk = b
      /\ (i.valid /\ MovesTo(i) => save'.old = i.blk)
  <2>1. save' = [save EXCEPT !.old = save'.old] /\ save'.n = n /\ save'.val = save.val
        /\ (i.valid /\ MovesTo(i) => save'.old = i.blk)
    BY <1>1, <1>2, CommitTo
  <2>2. save'.blk = b
    BY <1>3, <2>1 DEF TypeInv, SaveType
  <2> QED BY <2>1, <2>2
<1>10. This' = j /\ TheRecord' = r
  BY <1>1, <1>2, <1>5, <1>7, <1>9 DEF This, TheRecord
<1>11. MovesTo(i) => ~SameBlk(i)
  BY <1>0, <1>1, <1>2 DEF MovesTo, SameBlk, PlaceInv, PointPlace
<1>12. /\ c[s] = r
       /\ SameBlk(i) => s = i.slot + 1 /\ Base(n, c, i.slot) /\ Best(flash, n, b)
       /\ ~SameBlk(i) => Fresh(n, c, r, s) /\ NewBlk
  BY <1>0, <1>1, <1>2, <1>3, <1>4, <1>5, <1>6 DEF WriteInv
<1>13. pc' = IF i.valid /\ MovesTo(i) THEN "eraseold" ELSE "finish"
  BY <1>1, <1>2 DEF Commit
<1>14. i.slot \in Slot /\ i.slot \in Nat /\ s \in Nat /\ 0 \in Slot
  BY Areas DEF InfoType
<1>15. c[j.slot] = r /\ LastIn(n, c, j.slot) /\ (~FullBlk(n) => ErasedFrom(c, j.slot + 1)) /\ j.slot \in Slot
  <2>1. CASE SameBlk(i)
    <3>1. j.slot = i.slot + 1 /\ c[i.slot + 1].name = n /\ ~FullBlk(n) /\ i.slot + 1 \in Slot
      BY <1>1, <1>4, <1>5, <1>8, <1>11, <1>12, <2>1 DEF SameBlk
    <3>2. LastIn(n, c, i.slot + 1)
      BY <1>12, <1>14, <2>1, <3>1, AppendLast
    <3>3. ErasedFrom(c, i.slot + 2) /\ (i.slot + 1) + 1 = i.slot + 2
      BY <1>12, <1>14, <2>1 DEF Base
    <3> QED BY <1>12, <2>1, <3>1, <3>2, <3>3
  <2>2. CASE ~SameBlk(i)
    <3>1. j.slot = 0
      BY <1>1, <1>2, <1>8, <1>12, <2>2 DEF NewBlk
    <3>2. CASE s = 0
      <4>1. LastIn(n, c, 0)
        BY <1>5, <1>12, <2>2, <3>2, FreshLast
      <4> QED BY <1>12, <1>14, <2>2, <3>1, <3>2, <4>1 DEF Fresh
    <3>3. CASE s > 0
      <4>1. LastIn(n, c, 0) /\ c[0] = r
        BY <1>5, <1>12, <2>2, <3>3, FreshLast
      <4>2. FullBlk(n)
        BY <1>12, <1>14, <2>2, <3>3 DEF Fresh
      <4> QED BY <1>14, <3>1, <4>1, <4>2
    <3> QED BY <1>14, <3>2, <3>3
  <2> QED BY <2>1, <2>2
<1>16. b \in Names(flash, n)
  BY <1>6, <1>15, LastIs DEF Names
<1>17. pc' = "finish" => Best(flash, n, b)
  <2>1. SameBlk(i) => Best(flash, n, b)
    BY <1>12
  <2>2. ASSUME ~i.valid PROVE Best(flash, n, b)
    <3>1. ~SameBlk(i)
      BY <2>2 DEF SameBlk
    <3>2. Names(flash, n) \subseteq {b}
      BY <1>1, <1>2, <1>3, <1>12, <2>2, <3>1 DEF NewBlk
    <3> QED BY <1>16, <3>2, BestOnly
  <2> QED BY <1>8, <1>13, <2>1, <2>2
<1>18. pc' = "eraseold" => /\ Names(flash, n) \subseteq {b, save'.old}
                           /\ \E t \in Slot : Holds(n, flash[save'.old], t, accept[n])
  <2> SUFFICES ASSUME pc' = "eraseold"
               PROVE  /\ Names(flash, n) \subseteq {b, save'.old}
                      /\ \E t \in Slot : Holds(n, flash[save'.old], t, accept[n])
    OBVIOUS
  <2>1. i.valid /\ MovesTo(i) /\ ~SameBlk(i) /\ save'.old = i.blk
    BY <1>9, <1>11, <1>13
  <2> QED BY <1>1, <1>2, <1>3, <1>12, <1>14, <2>1 DEF NewBlk
<1>19. EndInv'
  BY <1>0, <1>6, <1>7, <1>9, <1>10, <1>15, <1>17, <1>18 DEF EndInv
<1>20. SaveInv'
  BY <1>0, <1>1, <1>9, <1>13 DEF SaveInv
<1>21. RunInv'
  <2>1. reserved' = IF MovesTo(i) THEN reserved \union {b} ELSE reserved
    BY <1>1, <1>2, <1>3 DEF Commit
  <2>2. /\ \A x \in reserved : x = 1 \/ \E m \in Name : info[m].valid /\ x = info[m].blk
        /\ accept["ncnf"] \subseteq {Absent, Cfg}
        /\ \A m \in Name \ {n} : SettledAt(flash, m, info[m], accept[m]) /\ info'[m] = info[m]
        /\ (n # "ncnf" => info["ncnf"].valid)
    BY <1>0, <1>1, <1>8 DEF RunInv, Settled, TypeInv
  <2>3. ASSUME NEW x \in reserved'
        PROVE  \/ \E m \in Name : info'[m].valid /\ x = info'[m].blk
               \/ x = This'.blk
               \/ pc' = "eraseold" /\ x = save'.old
               \/ x = 1
    <3>1. CASE x = b
      BY <1>7, <1>10, <3>1
    <3>2. CASE x # b /\ x # 1
      <4>1. PICK m \in Name : info[m].valid /\ x = info[m].blk
        BY <2>1, <2>2, <2>3, <3>2
      <4>2. CASE m # n
        BY <2>2, <4>1, <4>2
      <4>3. CASE m = n
        <5>1. i.valid /\ x = i.blk
          BY <1>2, <4>1, <4>3
        <5>2. SameBlk(i) => x = b
          BY <1>0, <1>2, <1>3, <5>1 DEF PlaceInv, PointPlace
        <5> QED BY <1>8, <1>9, <1>13, <3>2, <5>1, <5>2
      <4> QED BY <4>2, <4>3
    <3> QED BY <3>1, <3>2
  <2>4. pc' \in {"eraseold", "finish"}
    BY <1>13
  <2>5. n # "ncnf" => info'["ncnf"].valid
    BY <2>2 DEF Name
  <2> QED BY <1>0, <1>9, <2>2, <2>3, <2>4, <2>5 DEF RunInv, Settled, Writing, Saving
<1>22. OffInv' /\ WriteInv' /\ pc' \notin {"test", "testold"}
  BY <1>13 DEF OffInv, WriteInv
<1> QED BY <1>0, <1>19, <1>20, <1>21, <1>22 DEF SafeNow

\* The old block is erased, or lost in the erase.
LEMMA OldErased ==
  ASSUME TypeInv, PlaceInv, SafeNow, pc = "eraseold", NEW d \in {Blank, Unusable}, NEW g,
         g = [flash EXCEPT ![save.old] = d]
  PROVE  /\ FlashInv(g) /\ g[This.blk] = flash[This.blk] /\ Best(g, save.n, This.blk)
         /\ \A m \in Name \ {save.n} : SettledAt(g, m, info[m], accept[m])
<1>0. FlashInv(flash) /\ RunInv /\ EndInv /\ flash \in FlashType /\ Saving
  BY DEF TypeInv, SafeNow, FlashOK, FlashType, Saving
<1>1. PICK n \in Name : n = save.n
  BY <1>0 DEF TypeInv, PointOK
<1>2. PICK b \in Blk, o \in Blk : b = This.blk /\ o = save.old /\ b # o /\ This.slot \in Slot
  BY <1>1 DEF TypeInv, PointOK, PlaceInv, PointPlace, This, InfoType
<1>3. g[o] = d /\ Elsewhere(flash, g, o) /\ g[b] = flash[b]
  BY <1>0, <1>2 DEF Elsewhere, FlashType
<1>4. Hd(d).name = "none"
  <2>1. \A t \in Slot : d[t] \in Void
    BY DEF Blank, Unusable, Void
  <2> QED BY <2>1, HeadNone
<1>5. \A m \in Name \ {n} : /\ SettledAt(g, m, info[m], accept[m])
                            /\ (Names(g, m) = {} => Names(flash, m) = {})
  <2> SUFFICES ASSUME NEW m \in Name \ {n}
               PROVE  SettledAt(g, m, info[m], accept[m]) /\ (Names(g, m) = {} => Names(flash, m) = {})
    OBVIOUS
  <2>1. SettledAt(flash, m, info[m], accept[m]) /\ Hd(g[o]).name # m
    BY <1>0, <1>1, <1>3, <1>4, Constants DEF RunInv, Settled
  <2>2. info[m].valid => info[m].blk \in Blk /\ info[m].blk # o
    BY <1>1, <1>2 DEF TypeInv, PlaceInv, PointPlace, Spares
  <2> QED BY <1>3, <2>1, <2>2, SettledKept
<1>6. LastIn(n, flash[b], This.slot) /\ Names(flash, n) \subseteq {b, o}
  BY <1>0, <1>1, <1>2 DEF EndInv
<1>7. Hd(flash[b]).name = n
  BY <1>2, <1>6, LastIs
<1>8. b \in Names(g, n) /\ Names(g, n) \subseteq {b}
  BY <1>3, <1>4, <1>6, <1>7, Constants DEF Names, Elsewhere
<1>9. Best(g, n, b)
  BY <1>8, BestOnly
<1>10. NoneLost(flash, g)
  BY <1>5, <1>8 DEF NoneLost
<1>11. g[o] = Blank \/ g[o] = Unusable
  BY <1>3
<1>12. FlashInv(g)
  BY <1>0, <1>3, <1>10, <1>11, EraseKeeps
<1> QED BY <1>1, <1>2, <1>3, <1>5, <1>9, <1>12

LEMMA SurviveEraseOld ==
  ASSUME TypeInv, PlaceInv, SafeNow, NoFlashFault, EraseOld, NoFlashFault'
  PROVE  SafeNow'
<1>0. /\ pc = "eraseold" /\ Saving /\ RunInv /\ SaveInv /\ EndInv /\ pc' = "finish"
      /\ flash' = [flash EXCEPT ![save.old] = Blank] /\ reserved' = reserved \ {save.old}
      /\ UNCHANGED <<info, save, accept>>
  BY DEF EraseOld, EraseBlk, Saving, SafeNow, history, NoFlashFault
<1>1. PICK n \in Name : n = save.n
  BY <1>0 DEF TypeInv, PointOK
<1>2. PICK g : g = flash'
  OBVIOUS
<1>3. /\ FlashInv(g) /\ g[This.blk] = flash[This.blk] /\ Best(g, n, This.blk)
      /\ \A m \in Name \ {n} : SettledAt(g, m, info[m], accept[m])
  BY <1>0, <1>1, <1>2, OldErased
<1>4. This' = This /\ TheRecord' = TheRecord
  BY <1>0 DEF This, TheRecord
<1>5. EndInv'
  BY <1>0, <1>1, <1>2, <1>3, <1>4 DEF EndInv
<1>6. SaveInv'
  BY <1>0 DEF SaveInv, Saving
<1>7. RunInv'
  <2>1. /\ \A x \in reserved' : (\E m \in Name : info'[m].valid /\ x = info'[m].blk) \/ x = This'.blk \/ x = 1
        /\ accept'["ncnf"] \subseteq {Absent, Cfg} /\ (save'.n # "ncnf" => info'["ncnf"].valid)
    BY <1>0, <1>4 DEF RunInv
  <2>2. \A m \in Name : m # save'.n => Settled(m)'
    BY <1>0, <1>1, <1>2, <1>3 DEF Settled
  <2> QED BY <1>0, <2>1, <2>2 DEF RunInv, Writing, Saving
<1>8. OffInv' /\ WriteInv' /\ pc' \notin {"test", "testold"}
  BY <1>0 DEF OffInv, WriteInv
<1> QED BY <1>2, <1>3, <1>5, <1>6, <1>7, <1>8 DEF SafeNow

LEMMA SurviveFinish ==
  ASSUME TypeInv, PlaceInv, SafeNow, Finish
  PROVE  SafeNow'
<1>0. /\ pc = "finish" /\ Saving /\ FlashInv(flash) /\ RunInv /\ SaveInv /\ EndInv
      /\ UNCHANGED <<flash, reserved>> /\ save \in SaveType
  BY DEF Finish, Saving, SafeNow, TypeInv
<1>1. PICK n \in Name : n = save.n
  BY <1>0 DEF TypeInv, PointOK
<1>2. PICK i \in InfoType : i = info[n] /\ i = This
  BY <1>1 DEF TypeInv, This
<1>3. PICK b \in Blk : b = i.blk /\ b \in reserved /\ save.blk = b
  BY <1>0, <1>2 DEF TypeInv, PointOK, PlaceInv, PointPlace, EndInv
<1>4. PICK r \in Record : r = TheRecord /\ r.name = n /\ r.val = save.val /\ r.len = RecPages
  BY <1>0, <1>1, TheRecordOK DEF RecordOK
<1>5. /\ flash[b][i.slot] = r /\ LastIn(n, flash[b], i.slot) /\ Best(flash, n, b)
      /\ (~FullBlk(n) => ErasedFrom(flash[b], i.slot + 1))
  BY <1>0, <1>1, <1>2, <1>3, <1>4 DEF EndInv
<1>6. Value(n, r) = save.val
  <2>1. r.len >= DataPages
    BY <1>4, Areas
  <2> QED BY <1>0, <1>1, <1>4, <2>1, RecordReads
<1>7. /\ (n = "ncnf" => save.val = Cfg) /\ save.val \in accept[n]
      /\ accept["ncnf"] \subseteq {Absent, Cfg} /\ (n # "ncnf" => info["ncnf"].valid)
      /\ \A x \in reserved : (\E m \in Name : info[m].valid /\ x = info[m].blk) \/ x = b \/ x = 1
      /\ \A m \in Name \ {n} : SettledAt(flash, m, info[m], accept[m])
  BY <1>0, <1>1, <1>2, <1>3 DEF SaveInv, RunInv, Settled
<1>8. ASSUME NEW A, save.val \in A, NEW j, j.valid, j.blk = b, j.slot = i.slot
      PROVE  SettledAt(flash, n, j, A)
  BY <1>5, <1>6, <1>8 DEF SettledAt, Holds
<1>9. ASSUME /\ info'[n].valid /\ info'[n].blk = b /\ info'[n].slot = i.slot
             /\ \A m \in Name \ {n} : info'[m] = info[m] /\ accept'[m] = accept[m]
             /\ save.val \in accept'[n] /\ accept'["ncnf"] \subseteq {Absent, Cfg}
             /\ pc' \in {"getblk", "fixcfg", "fixenv", "relocate", "ready"}
             /\ (pc' = "getblk" => save'.n = n)
      PROVE  RunInv'
  <2>1. \A m \in Name : Settled(m)'
    BY <1>0, <1>7, <1>8, <1>9 DEF Settled
  <2>2. \A x \in reserved' : x = 1 \/ \E m \in Name : info'[m].valid /\ x = info'[m].blk
    <3> SUFFICES ASSUME NEW x \in reserved, x # 1 PROVE \E m \in Name : info'[m].valid /\ x = info'[m].blk
      BY <1>0
    <3>1. CASE x = b
      BY <1>9, <3>1
    <3>2. CASE x # b
      <4>1. PICK m \in Name : info[m].valid /\ x = info[m].blk
        BY <1>7, <3>2
      <4>2. m # n
        BY <1>2, <1>3, <3>2, <4>1
      <4> QED BY <1>9, <4>1, <4>2
    <3> QED BY <3>1, <3>2
  <2>3. info'["ncnf"].valid \/ (pc' = "getblk" /\ save'.n = "ncnf")
    BY <1>7, <1>9 DEF Name
  <2> QED BY <1>9, <2>1, <2>2, <2>3 DEF RunInv, Saving
<1>10. CASE /\ WriteAgain([i EXCEPT !.valid = TRUE, !.update = FALSE], n,
                          [save EXCEPT !.again = TRUE, !.full = FALSE])
            /\ accept' = accept
  <2>1. PICK j : j = [i EXCEPT !.valid = TRUE, !.update = FALSE]
    OBVIOUS
  <2>2. j \in InfoType /\ j.valid /\ j.blk = b /\ j.slot = i.slot
    BY <1>3, <2>1 DEF InfoType
  <2>3. PICK s : s = [save EXCEPT !.again = TRUE, !.full = FALSE]
    OBVIOUS
  <2>4. s.n = n /\ s.val = save.val /\ s.blk = b
    BY <1>0, <1>1, <1>3, <2>3 DEF SaveType
  <2>5. /\ info'[n].valid /\ info'[n].blk = b /\ info'[n].slot = i.slot /\ save' = s /\ pc' = "getblk"
        /\ \A m \in Name \ {n} : info'[m] = info[m]
    <3>1. WriteAgain(j, n, s)
      BY <1>10, <2>1, <2>3
    <3> QED BY <2>2, <3>1, AgainTo
  <2>6. RunInv'
    BY <1>7, <1>9, <1>10, <2>4, <2>5
  <2>7. SaveInv'
    BY <1>0, <1>3, <1>7, <1>10, <2>4, <2>5 DEF SaveInv
  <2>8. OffInv' /\ WriteInv' /\ EndInv' /\ pc' \notin {"test", "testold"} /\ FlashInv(flash)'
    BY <1>0, <2>5 DEF OffInv, WriteInv, EndInv, FlashInv
  <2> QED BY <2>6, <2>7, <2>8 DEF SafeNow
<1>11. CASE /\ Return(TRUE, [i EXCEPT !.valid = TRUE])
            /\ accept' = [accept EXCEPT ![n] = {save.val}]
  <2>1. PICK j : j = [i EXCEPT !.valid = TRUE]
    OBVIOUS
  <2>2. j \in InfoType /\ j.valid /\ j.blk = b /\ j.slot = i.slot
    BY <1>3, <2>1 DEF InfoType
  <2>3. /\ info'[n].valid /\ info'[n].blk = b /\ info'[n].slot = i.slot
        /\ \A m \in Name \ {n} : info'[m] = info[m]
    BY <1>0, <1>1, <1>11, <2>1, <2>2, ReturnTo
  <2>4. pc' \in {"fixcfg", "fixenv", "relocate", "ready"}
    BY <1>0, <1>11 DEF Return, SaveType
  <2>5. accept'[n] = {save.val} /\ \A m \in Name \ {n} : accept'[m] = accept[m]
    BY <1>11 DEF TypeInv
  <2>6. accept'["ncnf"] \subseteq {Absent, Cfg}
    BY <1>7, <2>5 DEF Name
  <2>7. RunInv'
    BY <1>9, <2>3, <2>4, <2>5, <2>6
  <2>8. SaveInv' /\ OffInv' /\ WriteInv' /\ EndInv' /\ pc' \notin {"test", "testold"} /\ FlashInv(flash)'
    BY <1>0, <2>4 DEF SaveInv, Saving, OffInv, WriteInv, EndInv, FlashInv
  <2> QED BY <2>7, <2>8 DEF SafeNow
<1> QED BY <1>1, <1>2, <1>10, <1>11 DEF Finish

\* A start finds each item where it is.
LEMMA ScanSettles ==
  ASSUME FlashOK, bad = {}, \A b \in Blk : Tidy(flash[b]), NEW n \in Name
  PROVE  SettledAt(flash, n, Scan(n), {AtStart(n)})
<1>1. CASE Found(n) = {}
  <2>1. Scan(n) = NoInfo /\ Names(flash, n) = {}
    BY <1>1, ScanOutcome, FoundIs
  <2>2. AtStart(n) = Absent
    BY <2>1, Constants DEF AtStart, ReadAt
  <2> QED BY <2>1, <2>2 DEF SettledAt, NoInfo
<1>2. CASE Found(n) # {}
  <2>1. PICK b \in Found(n) : /\ b = ValidBlk(n, Found(n)) /\ b \in Blk /\ Hd(flash[b]).name = n
                              /\ Scan(n).valid /\ Scan(n).blk = b /\ Scan(n).slot = PlaceIn(n, flash[b])
                              /\ Scan(n).update = MetIn(n, flash[b])
    BY <1>2, ScanOutcome
  <2>2. Best(flash, n, b)
    BY <1>2, <2>1, ValidIsBest
  <2>3. PICK s : s = PlaceIn(n, flash[b])
    OBVIOUS
  <2>4. LastIn(n, flash[b], s) /\ (~FullBlk(n) /\ ~MetIn(n, flash[b]) => ErasedFrom(flash[b], s + 1))
    BY <2>1, <2>3, TidyLast
  <2>5. AtStart(n) = Value(n, flash[b][s])
    BY <2>1, <2>3 DEF AtStart, ReadAt, Value
  <2> QED BY <2>1, <2>2, <2>3, <2>4, <2>5 DEF SettledAt, Holds
<1> QED BY <1>1, <1>2

LEMMA SurviveStart ==
  ASSUME TypeInv, PlaceInv, SafeNow, NoFlashFault, Start
  PROVE  SafeNow'
<1>0. /\ pc = "off" /\ FlashInv(flash) /\ OffInv /\ FlashOK /\ bad = {}
      /\ UNCHANGED <<flash, save, torn>> /\ accept' = [n \in Name |-> {AtStart(n)}]
  BY DEF Start, SafeNow, TypeInv, NoFlashFault
<1>1. /\ \A n \in Name : /\ SettledAt(flash, n, Scan(n), {AtStart(n)}) /\ Scan(n) \in InfoType
                         /\ (Scan(n).valid => Scan(n).blk \in Blk)
      /\ "ncnf" \in Name /\ "nenv" \in Name
  BY <1>0, ScanSettles, ScanOutcome, Constants DEF FlashInv, Name
<1>2. PICK cnf \in InfoType, nenv \in InfoType : cnf = Scan("ncnf") /\ nenv = Scan("nenv")
  BY <1>1
<1>3. CASE AtStart("ncnf") = Bad
  <2>1. pc' = "dead"
    BY <1>3 DEF Start, AtStart
  <2>2. "ncnf" \in torn
    <3>1. Bad \notin {Absent, Cfg}
      BY DEF Bad, Absent, Cfg
    <3>2. SUFFICES ASSUME "ncnf" \notin torn PROVE FALSE
      OBVIOUS
    <3>3. Reads(flash, "ncnf", accept["ncnf"]) /\ accept["ncnf"] \subseteq {Absent, Cfg}
      BY <1>0, <1>1, <3>2 DEF OffInv
    <3>4. AtStart("ncnf") \in accept["ncnf"]
      BY <1>0, <1>1, <3>3, ReadsStart
    <3> QED BY <1>3, <3>1, <3>3, <3>4
  <2>3. \A n \in Name : Reads(flash, n, {AtStart(n)})
    <3>1. \A n \in Name : Scan(n).slot \in Slot
      BY <1>1 DEF InfoType
    <3> QED BY <1>1, <3>1, SettledReads
  <2>4. OffInv'
    BY <1>0, <2>2, <2>3 DEF OffInv
  <2>5. RunInv' /\ SaveInv' /\ WriteInv' /\ EndInv' /\ FlashInv(flash)' /\ pc' \notin {"test", "testold"}
    BY <1>0, <2>1 DEF RunInv, SaveInv, Saving, WriteInv, EndInv, FlashInv
  <2> QED BY <2>4, <2>5 DEF SafeNow
<1>4. CASE AtStart("ncnf") # Bad
  <2>1. /\ pc' = "config" /\ info' = [n \in Name |-> IF n = "ncnf" THEN cnf ELSE nenv]
        /\ reserved' = {bbt} \union {i.blk : i \in {j \in {cnf, nenv} : j.valid}}
    BY <1>2, <1>4 DEF Start, AtStart
  <2>2. \A n \in Name : info'[n] = Scan(n)
    BY <1>2, <2>1 DEF Name
  <2>3. \A n \in Name : Settled(n)'
    BY <1>0, <1>1, <2>2 DEF Settled
  <2>4. AtStart("ncnf") \in {Absent, Cfg}
    <3>1. AtStart("ncnf") \in {Absent} \union SaveVal("ncnf")
      BY <1>0, <1>1, ReadOutcome DEF AtStart
    <3> QED BY <1>4, <3>1 DEF SaveVal
  <2>5. \A x \in reserved' : x = 1 \/ \E n \in Name : info'[n].valid /\ x = info'[n].blk
    BY <1>0, <1>1, <1>2, <2>1, <2>2 DEF PlaceInv, TablePlace
  <2>6. RunInv'
    BY <1>0, <1>1, <2>1, <2>3, <2>4, <2>5 DEF RunInv
  <2>7. OffInv' /\ SaveInv' /\ WriteInv' /\ EndInv' /\ FlashInv(flash)' /\ pc' \notin {"test", "testold"}
    BY <1>0, <2>1 DEF OffInv, SaveInv, Saving, WriteInv, EndInv, FlashInv
  <2> QED BY <2>6, <2>7 DEF SafeNow
<1> QED BY <1>3, <1>4

LEMMA SurviveRun ==
  ASSUME TypeInv, PlaceInv, SafeNow, Config \/ FixConfig \/ FixEnv \/ Relocate \/ Saveenv
  PROVE  SafeNow'
<1>0. /\ pc \in {"config", "fixcfg", "fixenv", "relocate", "ready"} /\ FlashInv(flash) /\ RunInv
      /\ UNCHANGED <<flash, reserved>> /\ "ncnf" \in Name /\ "nenv" \in Name
      /\ info \in [Name -> InfoType] /\ accept \in [Name -> SUBSET Val] /\ FlashOK
  BY DEF Config, FixConfig, FixEnv, Relocate, Saveenv, SafeNow, Name, TypeInv
<1>1. /\ \A m \in Name : SettledAt(flash, m, info[m], accept[m])
      /\ accept["ncnf"] \subseteq {Absent, Cfg} /\ (pc # "config" => info["ncnf"].valid)
      /\ \A x \in reserved : x = 1 \/ \E m \in Name : info[m].valid /\ x = info[m].blk
  BY <1>0 DEF RunInv, Settled, Writing, Saving
<1>2. ASSUME NEW n \in Name, NEW v, NEW then, SaveInfo(n, v, then),
             n = "ncnf" => v = Cfg, n # "ncnf" => pc # "config"
      PROVE  SafeNow'
  <2>1. PICK s : s = [NoSave EXCEPT !.n = n, !.val = v, !.then = then]
    OBVIOUS
  <2>2. s.n = n /\ s.val = v /\ s.blk = 0
    BY <2>1 DEF NoSave
  <2>3. WriteAgain(info[n], n, s) /\ accept' = [accept EXCEPT ![n] = @ \union {v}]
    BY <1>2, <2>1 DEF SaveInfo
  <2>4. /\ save' = s /\ pc' = "getblk" /\ \A m \in Name \ {n} : info'[m] = info[m]
        /\ info'[n].valid = info[n].valid /\ info'[n].blk = info[n].blk
        /\ info'[n].slot = info[n].slot /\ info'[n].update = info[n].update
    BY <1>0, <2>3, AgainTo
  <2>5. \A m \in Name : accept[m] \subseteq accept'[m]
    BY <1>0, <2>3
  <2>6. v \in accept'[n] /\ accept'["ncnf"] \subseteq {Absent, Cfg}
    BY <1>0, <1>1, <1>2, <2>3
  <2>7. \A m \in Name : SettledAt(flash, m, info'[m], accept'[m])
    BY <1>1, <2>4, <2>5, SettledMore
  <2>8. \A m \in Name : info'[m].valid = info[m].valid /\ info'[m].blk = info[m].blk
    BY <2>4
  <2>9. n = "ncnf" \/ info'["ncnf"].valid
    BY <1>0, <1>1, <1>2, <2>8
  <2>10. RunInv'
    BY <1>0, <1>1, <2>2, <2>4, <2>6, <2>7, <2>8, <2>9 DEF RunInv, Settled, Saving
  <2>11. SaveInv'
    BY <1>2, <2>2, <2>4, <2>6 DEF SaveInv
  <2>12. OffInv' /\ WriteInv' /\ EndInv' /\ FlashInv(flash)' /\ pc' \notin {"test", "testold"}
    BY <1>0, <2>4 DEF OffInv, WriteInv, EndInv, FlashInv
  <2> QED BY <2>10, <2>11, <2>12 DEF SafeNow
<1>3. ASSUME pc' \in {"fixcfg", "fixenv", "relocate", "ready"}, info' = info, accept' = accept,
             info["ncnf"].valid
      PROVE  SafeNow'
  <2>1. RunInv'
    BY <1>0, <1>1, <1>3 DEF RunInv, Settled
  <2>2. SaveInv' /\ OffInv' /\ WriteInv' /\ EndInv' /\ FlashInv(flash)' /\ pc' \notin {"test", "testold"}
    BY <1>0, <1>3 DEF SaveInv, Saving, OffInv, WriteInv, EndInv, FlashInv
  <2> QED BY <2>1, <2>2 DEF SafeNow
<1>4. CASE Config
  BY <1>0, <1>2, <1>3, <1>4 DEF Config
<1>5. CASE FixConfig
  <2>1. ASSUME info["ncnf"].valid PROVE ReadAt("ncnf", info["ncnf"]) = Cfg
    <3>1. ReadAt("ncnf", info["ncnf"]) \in accept["ncnf"]
      BY <1>0, <1>1, <2>1 DEF SettledAt, Holds, ReadAt, Value
    <3>2. ReadAt("ncnf", info["ncnf"]) \in SaveVal("ncnf")
      BY <1>0, <2>1, ReadOutcome DEF TypeInv
    <3> QED BY <1>1, <3>1, <3>2 DEF SaveVal, Absent, Cfg, Bad
  <2> QED BY <1>0, <1>1, <1>2, <1>3, <1>5, <2>1 DEF FixConfig
<1>6. CASE FixEnv
  BY <1>0, <1>1, <1>2, <1>3, <1>6 DEF FixEnv
<1>7. CASE Relocate
  BY <1>0, <1>1, <1>2, <1>3, <1>7 DEF Relocate
<1>8. CASE Saveenv
  BY <1>0, <1>2, <1>8 DEF Saveenv
<1> QED BY <1>4, <1>5, <1>6, <1>7, <1>8

LEMMA SurviveCrash ==
  ASSUME TypeInv, PlaceInv, SafeNow, NoFlashFault, Crash
  PROVE  SafeNow'
<1>0. /\ pc \notin {"test", "testold"} /\ FlashInv(flash) /\ OffInv /\ RunInv /\ SaveInv /\ WriteInv /\ EndInv
      /\ flash \in FlashType /\ SurviveInv
      /\ pc' = "off" /\ accept' = accept /\ torn' = torn \union {m \in Name : HalfWritten(m)}
      /\ \A m \in Name : info[m].slot \in Slot /\ (info[m].valid => info[m].blk \in Blk)
  BY DEF Crash, SafeNow, SurviveInv, TypeInv, FlashOK, FlashType, InfoType
<1>1. PICK g : g = flash'
  OBVIOUS
<1>2. FlashInv(g) /\ \A m \in Name : m \in torn' \/ Reads(g, m, accept[m])
  <2>1. CASE g = flash
    BY <1>0, <2>1, NowReads
  <2>2. CASE pc = "write" /\ g = [flash EXCEPT ![save.blk][save.slot] = Spoil(@, save.k)]
    <3>0. Saving
      BY <2>2 DEF Saving
    <3>1. PICK n \in Name : n = save.n
      BY <3>0 DEF TypeInv, PointOK
    <3>2. PICK r \in Record : r = TheRecord /\ r.name = n /\ r.val = save.val
      BY <3>0, <3>1, TheRecordOK DEF RecordOK
    <3>3. PICK k \in 0 .. DataPages : k = save.k
      BY DEF TypeInv, SaveType
    <3>4. flash[save.blk][save.slot] = PageOf(r, k)
      BY <1>0, <2>2, <3>2, <3>3 DEF WriteInv
    <3>5. PICK q : q = Spoil(PageOf(r, k), k)
      OBVIOUS
    <3>6. g = Put(q)
      <4>1. save.blk \in Blk /\ save.slot \in Slot
        BY <2>2 DEF TypeInv, PointOK, SaveType
      <4> QED BY <1>0, <2>2, <3>3, <3>4, <3>5, <4>1 DEF Put, FlashType
    <3>7. ASSUME q \in Record, q \in Void \/ q.name = n,
                 q \in Void => flash[save.blk][save.slot] = Erased
          PROVE  FlashInv(g) /\ \A m \in Name \ {n} : Reads(g, m, accept[m])
      <4>1. FlashInv(g) /\ \A m \in Name \ {n} : SettledAt(g, m, info[m], accept[m])
        BY <1>0, <2>2, <3>1, <3>6, <3>7, PutKeeps
      <4> QED BY <1>0, <4>1, SettledReads
    <3>8. CASE k = 0
      <4>1. q = Torn /\ q \in Void /\ flash[save.blk][save.slot] = Erased /\ q \in Record
        BY <3>2, <3>4, <3>5, <3>8, PageIs, Constants DEF Void
      <4>2. Reads(g, n, accept[n])
        BY <1>0, <2>2, <3>1, <3>6, <4>1, PutReads
      <4> QED BY <3>7, <4>1, <4>2
    <3>9. CASE k # 0
      <4>1. q \in Record /\ q.name = n /\ q.val = save.val /\ q.len = k /\ q \notin Void
        <5>1. q \in Record /\ q.name = n /\ q.val = save.val /\ q.len = k
          BY <3>2, <3>5, <3>9, PageIs
        <5> QED BY <5>1, Constants DEF Void
      <4>2. n \in torn' \/ Reads(g, n, accept[n])
        <5>1. CASE k >= DataPages
          <6>1. Value(n, q) \in accept[n]
            BY <1>0, <3>0, <3>1, <4>1, <5>1, RecordReads DEF SaveInv
          <6> QED BY <1>0, <2>2, <3>1, <3>6, <4>1, <6>1, PutReads
        <5>2. CASE FullBlk(n) /\ save.slot # 0
          BY <1>0, <2>2, <3>1, <3>6, <4>1, <5>2, PutReads
        <5>3. CASE ~(k >= DataPages) /\ ~(FullBlk(n) /\ save.slot # 0)
          <6>1. save.k \in 1 .. DataPages - 1
            BY <3>3, <3>9, <5>3, Areas
          <6>2. HalfWritten(n)
            BY <2>2, <3>1, <5>3, <6>1 DEF HalfWritten
          <6> QED BY <1>0, <6>2
        <5> QED BY <5>1, <5>2, <5>3
      <4> QED BY <3>7, <4>1, <4>2
    <3> QED BY <3>8, <3>9
  <2>3. CASE pc = "erase" /\ g = [flash EXCEPT ![save.blk] = Unusable]
    <3>1. FlashInv(g) /\ \A m \in Name : SettledAt(g, m, info[m], accept[m])
      BY <2>3, EraseNew
    <3> QED BY <1>0, <3>1, SettledReads
  <2>4. CASE pc = "eraseold" /\ g = [flash EXCEPT ![save.old] = Unusable]
    <3>0. Saving
      BY <2>4 DEF Saving
    <3>1. PICK n \in Name : n = save.n /\ info[n] = This
      BY <3>0 DEF TypeInv, PointOK, This
    <3>2. PICK b \in Blk, s \in Slot : b = This.blk /\ s = This.slot
      BY <1>0, <2>4, <3>1 DEF TypeInv, PointOK
    <3>3. /\ FlashInv(g) /\ g[b] = flash[b] /\ Best(g, n, b)
          /\ \A m \in Name \ {n} : SettledAt(g, m, info[m], accept[m])
      BY <2>4, <3>1, <3>2, OldErased
    <3>4. PICK r \in Record : r = TheRecord /\ r.name = n /\ r.val = save.val /\ r.len = RecPages
      BY <3>0, <3>1, TheRecordOK DEF RecordOK
    <3>5. flash[b][s] = r /\ LastIn(n, flash[b], s)
      BY <1>0, <2>4, <3>1, <3>2, <3>4 DEF EndInv
    <3>6. Value(n, r) \in accept[n]
      <4>1. r.len >= DataPages /\ save.val \in accept[n]
        BY <1>0, <3>0, <3>1, <3>4, Areas DEF SaveInv
      <4> QED BY <3>0, <3>1, <3>4, <4>1, RecordReads
    <3>7. Reads(g, n, accept[n])
      BY <3>2, <3>3, <3>5, <3>6 DEF Reads, Best, Holds
    <3>8. \A m \in Name \ {n} : Reads(g, m, accept[m])
      BY <1>0, <3>3, SettledReads
    <3> QED BY <3>3, <3>7, <3>8
  <2> QED BY <1>0, <1>1, <2>1, <2>2, <2>3, <2>4 DEF Crash
<1>3. accept["ncnf"] \subseteq {Absent, Cfg} \/ "ncnf" \in torn
  BY <1>0 DEF OffInv, RunInv
<1>4. OffInv'
  BY <1>0, <1>1, <1>2, <1>3 DEF OffInv
<1>5. RunInv' /\ SaveInv' /\ WriteInv' /\ EndInv'
  BY <1>0 DEF RunInv, SaveInv, Saving, WriteInv, EndInv
<1> QED BY <1>0, <1>1, <1>2, <1>4, <1>5 DEF SafeNow

LEMMA SurviveInit == Init => SurviveInv
<1> SUFFICES ASSUME Init PROVE SafeNow
  BY DEF SurviveInv
<1>1. pc = "off" /\ flash = [b \in Blk |-> IF b = 1 THEN Table ELSE Blank] /\ accept = [n \in Name |-> {Absent}] /\ torn = {}
  BY DEF Init
<1>2. \A b \in Blk : Hd(flash[b]).name = "none" /\ Tidy(flash[b])
  <2> SUFFICES ASSUME NEW b \in Blk PROVE Hd(flash[b]).name = "none" /\ Tidy(flash[b])
    OBVIOUS
  <2>1. CASE b = 1
    BY <1>1, <2>1, TableNone DEF Tidy
  <2>2. CASE b # 1
    <3>1. \A t \in Slot : flash[b][t] \in Void
      BY <1>1, <2>2 DEF Blank, Void
    <3> QED BY <3>1, HeadNone DEF Tidy
  <2> QED BY <2>1, <2>2
<1>3. \A n \in Name : Names(flash, n) = {}
  BY <1>2, Constants DEF Names
<1>4. FlashInv(flash)
  BY <1>2, <1>3 DEF FlashInv, Name
<1>5. \A n \in Name : Reads(flash, n, accept[n])
  BY <1>1, <1>3 DEF Reads
<1>6. OffInv
  BY <1>1, <1>5 DEF OffInv, Name
<1>7. RunInv /\ SaveInv /\ WriteInv /\ EndInv
  BY <1>1 DEF RunInv, SaveInv, Saving, WriteInv, EndInv
<1> QED BY <1>1, <1>4, <1>6, <1>7 DEF SafeNow

\* Once an operation of the flash has failed, it has.
LEMMA FaultStays == TypeInv /\ [Next]_vars /\ NoFlashFault' => NoFlashFault
<1> SUFFICES ASSUME TypeInv, [Next]_vars, NoFlashFault' PROVE NoFlashFault
  OBVIOUS
<1>1. ASSUME wfail' = wfail \/ wfail', bad' = bad \/ bad \subseteq bad' PROVE NoFlashFault
  BY <1>1 DEF NoFlashFault
<1>2. CASE UNCHANGED vars
  BY <1>1, <1>2 DEF vars, history
<1>3. CASE SaveStep
  <2>1. ~(EraseFreeFails \/ TestFails \/ TestOldFails \/ MarkOldFails)
    BY DEF EraseFreeFails, TestFails, TestOldFails, MarkOldFails, MarkBad, NoFlashFault
  <2> QED BY <1>1, <1>3, <2>1 DEF SaveStep, GetBlk, EraseFree, WritePage, WriteFails, TestPasses,
                    Commit, EraseOld, EraseOldFails, TestOldPasses, Finish, history
<1>4. CASE StartStep \/ Saveenv \/ Crash
  BY <1>1, <1>4 DEF StartStep, Start, Config, FixConfig, FixEnv, Relocate, Saveenv, Crash
<1> QED BY <1>2, <1>3, <1>4 DEF Next, Rest

LEMMA SurviveStep == TypeInv /\ PlaceInv /\ SurviveInv /\ [Next]_vars => SurviveInv'
<1> SUFFICES ASSUME TypeInv, PlaceInv, SurviveInv, [Next]_vars, NoFlashFault' PROVE SafeNow'
  BY DEF SurviveInv
<1>0. NoFlashFault /\ SafeNow
  BY FaultStays DEF SurviveInv
<1>1. CASE UNCHANGED vars
  <2>1. UNCHANGED <<flash, bad, info, reserved, save, pc, accept, torn>>
    BY <1>1 DEF vars, ram, history
  <2> QED BY <1>0, <2>1 DEF SafeNow, FlashInv, OffInv, RunInv, SaveInv, WriteInv, EndInv, Saving,
                            Writing, NewBlk, Settled, This, TheRecord, SameBlk
<1>2. CASE SaveStep
  <2>1. ~EraseFreeFails
    BY DEF EraseFreeFails, MarkBad, NoFlashFault
  <2>2. ~WriteFails /\ ~EraseOldFails
    BY DEF WriteFails, EraseOldFails, NoFlashFault
  <2>3. ~(TestPasses \/ TestFails \/ TestOldPasses \/ TestOldFails \/ MarkOldFails)
    BY <1>0 DEF TestPasses, TestFails, TestOldPasses, TestOldFails, MarkOldFails, SafeNow
  <2> QED BY <1>0, <1>2, <2>1, <2>2, <2>3, SurviveGetBlk, SurviveErase, SurviveWrite, SurviveCommit,
             SurviveEraseOld, SurviveFinish DEF SaveStep
<1>3. CASE StartStep \/ Saveenv
  BY <1>0, <1>3, SurviveStart, SurviveRun DEF StartStep
<1>4. CASE Crash
  BY <1>0, <1>4, SurviveCrash
<1> QED BY <1>1, <1>2, <1>3, <1>4 DEF Next, Rest

\* The invariant behind the next two theorems: where the driver stands in a
\* save, what the flash holds and what a start would take of it.
THEOREM SurviveAlways == Spec => []SurviveInv
BY InfoTypeInv, BlocksAreOwn, SurviveInit, SurviveStep, PTL DEF Spec

\* Whatever moment power is lost at in amlnand_save_info_by_name(), and however
\* often, the next scan finds each item as it was last saved, or as the save
\* under way was to leave it, unless a record was cut off within the pages that
\* are read back: as long as no operation of the flash fails.
THEOREM SavedItemsSurvive == Spec => []SavedSurvives
<1>1. ASSUME TypeInv, PlaceInv, SurviveInv PROVE SavedSurvives
  <2> SUFFICES ASSUME NoFlashFault, NEW n \in Name
               PROVE  n \in torn \/ HalfWritten(n) \/ AtStart(n) \in accept[n]
    BY DEF SavedSurvives
  <2>1. n \in torn \/ HalfWritten(n) \/ Reads(flash, n, accept[n])
    BY <1>1, NowReads
  <2>2. FlashOK /\ bad = {}
    BY <1>1 DEF TypeInv, NoFlashFault
  <2> QED BY <2>1, <2>2, ReadsStart
<1> QED BY <1>1, InfoTypeInv, BlocksAreOwn, SurviveAlways, PTL

\* amlnand_get_dev_configs() gives up only after an operation of the flash
\* failed or power was lost within the configuration's record.
THEOREM DeviceStarts == Spec => []Starts
<1>1. SurviveInv => Starts
  BY DEF SurviveInv, SafeNow, OffInv, Starts
<1> QED BY <1>1, SurviveAlways, PTL

====
