------------------------- MODULE AmlInfoReadProofs -------------------------
(***************************************************************************)
(* The environment that was found at the start, or saved since with        *)
(* success, can be read back, although page writes fail and blocks are     *)
(* tested, and erased, on the way (ReadsBack).                             *)
(*                                                                         *)
(* A failed save can leave the environment's block erased by a test, with  *)
(* a spoilt page behind the place where the next record goes.  The first   *)
(* copy of the next save is then lost; that it is the second copy which    *)
(* counts, and that the pages from it on are erased, is what the invariant *)
(* says.                                                                   *)
(***************************************************************************)
EXTENDS AmlInfoProofs

(***************************************************************************)
(* The contents of a block.                                                *)
(***************************************************************************)
\* A scan takes the block for nobody's, or the records of n fill it up to
\* slot s at least.  Whole: the same for some item, or for none, as in the block
\* of the bad block table.
Shape(c, n, s) == c[0] = Erased \/ \E e \in s .. Slots : TidyTo(c, n, e)
Whole(c) == Hd(c).name = "none" \/ \E n \in Name : Shape(c, n, 0)

LEMMA ShapeLess ==
  ASSUME NEW c, NEW n \in Name, NEW s \in Nat, NEW r \in Nat, r <= s, Shape(c, n, s)
  PROVE  Shape(c, n, r) /\ Whole(c)
<1>0. Slots \in Nat
  BY Areas
<1>1. \A e \in s .. Slots : e \in r .. Slots /\ e \in 0 .. Slots
  BY <1>0
<1> QED BY <1>1 DEF Shape, Whole

LEMMA BlankShape ==
  ASSUME NEW n \in Name, NEW s
  PROVE  Shape(Blank, n, s) /\ Whole(Blank) /\ ErasedFrom(Blank, s)
<1>1. Blank[0] = Erased /\ \A t \in Slot : Blank[t] = Erased
  BY Areas DEF Blank
<1> QED BY <1>1 DEF Shape, Whole, ErasedFrom

LEMMA ErasedLess ==
  ASSUME NEW c, NEW s \in Nat, ErasedFrom(c, s)
  PROVE  ErasedFrom(c, s + 1)
<1>1. \A t \in Slot : t >= s + 1 => t >= s
  BY Areas
<1> QED BY <1>1 DEF ErasedFrom

\* The block after slot s was written.
LEMMA PutShape ==
  ASSUME NEW n \in Name, NEW c, NEW d, NEW s \in Slot, d[s] = Torn \/ d[s].name = n,
         \A t \in Slot \ {s} : d[t] = c[t], Shape(c, n, s),
         s = 0 /\ c[0] = Erased => ErasedFrom(c, 1)
  PROVE  Shape(d, n, s + 1)
<1>0. /\ s \in Nat /\ Slots \in Nat /\ s < Slots /\ 0 \in Slot /\ s + 1 \in s + 1 .. Slots
      /\ \A t \in Slot : t \in Nat
  BY Areas DEF Slot
<1>1. CASE c[0] = Erased /\ s # 0
  BY <1>0, <1>1 DEF Shape
<1>2. CASE c[0] = Erased /\ s = 0
  <2>1. \A t \in Slot : t < 1 => t = 0
    BY <1>0
  <2>2. \A t \in Slot : t >= 1 => t # 0 /\ c[t] = Erased
    BY <1>0, <1>2 DEF ErasedFrom
  <2>3. TidyTo(d, n, 1)
    BY <1>2, <2>1, <2>2 DEF TidyTo
  <2> QED BY <1>0, <1>2, <2>3 DEF Shape
<1>3. ASSUME NEW e \in s .. Slots, TidyTo(c, n, e) PROVE Shape(d, n, s + 1)
  <2>1. CASE e = s
    <3>1. \A t \in Slot : /\ (t < s + 1 => t = s \/ t < e)
                          /\ (t >= s + 1 => t # s /\ t >= e)
      BY <1>0, <2>1
    <3>2. TidyTo(d, n, s + 1)
      BY <1>3, <3>1 DEF TidyTo
    <3> QED BY <1>0, <3>2 DEF Shape
  <2>2. CASE e # s
    <3>1. e \in s + 1 .. Slots /\ \A t \in Slot : t >= e => t # s
      BY <1>0, <1>3, <2>2
    <3>2. TidyTo(d, n, e)
      BY <1>3, <3>1 DEF TidyTo
    <3> QED BY <3>1, <3>2 DEF Shape
  <2> QED BY <2>1, <2>2
<1> QED BY <1>1, <1>2, <1>3 DEF Shape

\* Power is lost in an erase or in the test of a block.
LEMMA LostWhole ==
  ASSUME TypeInv, Saving, NEW all \in BOOLEAN
  PROVE  Whole(Unusable) /\ Whole(Filled(all))
<1>0. /\ 0 \in Slot /\ Slots \in 0 .. Slots /\ 1 \in 0 .. Slots /\ save.n \in Name
      /\ \A t \in Slot : t \in Nat /\ ~(t >= Slots)
  BY Areas DEF TypeInv, PointOK
<1>1. Whole(Unusable)
  <2>1. TidyTo(Unusable, save.n, Slots)
    BY <1>0 DEF TidyTo, Unusable
  <2> QED BY <1>0, <2>1 DEF Whole, Shape
<1>2. PICK p, q : p = [TheRecord EXCEPT !.val = Pattern] /\ q = [TheRecord EXCEPT !.val = Pattern, !.len = 1]
  OBVIOUS
<1>3. p.name = save.n /\ q.name = save.n
  BY <1>2 DEF TheRecord
<1>4. CASE all
  <2>1. \A s \in Slot : Filled(all)[s] = p
    BY <1>2, <1>4 DEF Filled
  <2>2. TidyTo(Filled(all), save.n, Slots)
    BY <1>0, <1>3, <2>1 DEF TidyTo
  <2> QED BY <1>0, <1>1, <2>2 DEF Whole, Shape
<1>5. CASE ~all
  <2>1. \A s \in Slot : Filled(all)[s] = IF s = 0 THEN q ELSE Erased
    BY <1>2, <1>5 DEF Filled
  <2>2. \A t \in Slot : (t < 1 => t = 0) /\ (t >= 1 => t # 0)
    BY <1>0
  <2>3. TidyTo(Filled(all), save.n, 1)
    BY <1>3, <2>1, <2>2 DEF TidyTo
  <2> QED BY <1>0, <1>1, <2>3 DEF Whole, Shape
<1> QED BY <1>4, <1>5

\* The block that a start takes for the environment's.
LEMMA ScanShape ==
  ASSUME FlashOK, \A b \in Blk : Whole(flash[b]), NEW i, i = Scan("nenv")
  PROVE  /\ i.valid => /\ Shape(flash[i.blk], "nenv", i.slot + 1)
                       /\ ~i.update => ErasedFrom(flash[i.blk], i.slot + 1)
         /\ \A n \in Name : ~Scan(n).valid => Scan(n).slot = 0
<1>0. "nenv" \in Name /\ ~FullBlk("nenv")
  BY DEF Name, FullBlk
<1>1. \A n \in Name : ~Scan(n).valid => Scan(n).slot = 0
  BY ScanOutcome, Constants DEF NoInfo
<1>2. ASSUME i.valid
      PROVE  /\ Shape(flash[i.blk], "nenv", i.slot + 1)
             /\ ~i.update => ErasedFrom(flash[i.blk], i.slot + 1)
  <2>1. PICK b \in Blk : /\ Hd(flash[b]).name = "nenv" /\ i.blk = b /\ i.slot = PlaceIn("nenv", flash[b])
                         /\ i.update = MetIn("nenv", flash[b])
    <3>1. Found("nenv") # {}
      BY <1>0, <1>2, ScanOutcome, Constants
    <3> QED BY <1>0, <3>1, ScanOutcome
  <2>2. PICK c : c = flash[b]
    OBVIOUS
  <2>3. c[0] # Erased
    <3> SUFFICES ASSUME c[0] = Erased PROVE FALSE
      OBVIOUS
    <3>1. c[0] # Torn /\ 0 \in Slot /\ Erased.name = "none"
      BY Areas, Constants DEF Erased, Torn
    <3>2. \A t \in Slot : ~(t < 0)
      BY Areas
    <3>3. Hd(c) = c[0]
      BY <3>1, <3>2, HeadBy
    <3> QED BY <2>1, <2>2, <3>1, <3>3
  <2>4. Tidy(c)
    BY <2>2, <2>3 DEF Whole, Shape, Tidy
  <2>5. PICK s : s = PlaceIn("nenv", c)
    OBVIOUS
  <2>6. LastIn("nenv", c, s) /\ (~MetIn("nenv", c) => ErasedFrom(c, s + 1))
    BY <1>0, <2>1, <2>2, <2>4, <2>5, TidyLast
  <2>7. Shape(c, "nenv", s + 1)
    BY <1>0, <2>6 DEF LastIn, Shape
  <2> QED BY <2>1, <2>2, <2>5, <2>6, <2>7
<1> QED BY <1>1, <1>2

-----------------------------------------------------------------------------
(***************************************************************************)
(* The invariant, as long as no block was marked bad.                      *)
(***************************************************************************)
Env == info["nenv"]

\* Block b is in the hands of a save.
Moving(b) == pc \in {"write", "test", "commit"} /\ save.blk = b

EntryInv ==
  /\ \A n \in Name : ~info[n].valid => info[n].slot = 0
  /\ Saving => save.n \in unsaved
  /\ \A b \in Blk : Whole(flash[b])

\* Where the next record of the environment goes, the second slot at least is
\* erased.
Roomy(f, i) == /\ Shape(f[i.blk], "nenv", i.slot + 1)
               /\ ~i.update /\ "nenv" \notin stuck => ErasedFrom(f[i.blk], i.slot + 2)
EnvInv == Env.valid /\ ~Moving(Env.blk) => Roomy(flash, Env)

AgainInv ==
  pc = "getblk" /\ save.n = "nenv" /\ save.again /\ SameBlk(This) /\ "nenv" \notin stuck =>
    ErasedFrom(flash[This.blk], This.slot + 1)

\* The record is appended to the environment's block, where a page that is
\* not erased may be in the way.
Appends == save.n = "nenv" /\ SameBlk(This)
Unsure  == Appends /\ (~save.again \/ "nenv" \in stuck)

Slotted == save.n = "nenv" => save.slot = IF SameBlk(This) THEN This.slot + 1 ELSE 0
Clear   == (Appends /\ "nenv" \in stuck) \/ ErasedFrom(flash[save.blk], save.slot + 1)

ProgInv ==
  /\ pc = "test" /\ SameBlk(This) => save.blk = This.blk
  /\ pc = "erase" => save.slot = 0 /\ save.k = 0
  /\ pc \in {"write", "commit"} => Slotted /\ Clear
  /\ pc = "write" => LET q == flash[save.blk][save.slot] IN
       /\ Shape(flash[save.blk], save.n, save.slot)
       /\ q = PageOf(TheRecord, save.k) \/ (Unsure /\ (save.k = 0 \/ q = Torn))
  /\ pc = "commit" =>
       /\ Shape(flash[save.blk], save.n, save.slot + 1)
       /\ flash[save.blk][save.slot] = TheRecord \/ Unsure

DoneInv == pc \in {"eraseold", "testold", "finish"} /\ save.n = "nenv" =>
  LET c == flash[This.blk]  s == This.slot IN
  /\ Shape(c, "nenv", s + 1)
  /\ "nenv" \notin stuck => ErasedFrom(c, s + 1) /\ (save.again => c[s] = TheRecord)

ReadInv == pc \notin {"off", "dead"} /\ "nenv" \notin unsaved \union stuck =>
  ReadAt("nenv", Env) \in accept["nenv"]

DataNow == EntryInv /\ EnvInv /\ AgainInv /\ ProgInv /\ DoneInv /\ ReadInv
DataInv == bad = {} => DataNow

(***************************************************************************)
(* What steps leave alone.                                                 *)
(***************************************************************************)
\* The entry and the block of the environment are as they were.
LEMMA EnvKept ==
  ASSUME EnvInv, Env'.valid = Env.valid, Env'.blk = Env.blk, Env'.slot = Env.slot,
         Env'.update = Env.update, stuck' = stuck,
         Env.valid => flash'[Env.blk] = flash[Env.blk] /\ (Moving(Env.blk) => Moving(Env.blk)')
  PROVE  EnvInv'
<1> SUFFICES ASSUME Env'.valid, ~Moving(Env.blk)' PROVE Roomy(flash, Env)'
  BY DEF EnvInv
<1>1. Env.valid /\ flash'[Env.blk] = flash[Env.blk]
  OBVIOUS
<1>2. Moving(Env.blk)' = (pc' \in {"write", "test", "commit"} /\ save'.blk = Env.blk)
  BY DEF Moving
<1>3. Roomy(flash, Env)
  BY <1>1, <1>2 DEF EnvInv, Moving
<1> QED BY <1>1, <1>3 DEF Roomy

\* What is read back does not change under the save of another item.
LEMMA ReadKept ==
  ASSUME TypeInv, PlaceInv, [Next]_vars, ReadInv, pc \notin {"off", "dead"},
         ~(Saving /\ save.n = "nenv"), Env' = Env,
         accept'["nenv"] = accept["nenv"],
         "nenv" \in unsaved => "nenv" \in unsaved', "nenv" \in stuck => "nenv" \in stuck'
  PROVE  ReadInv'
<1> SUFFICES ASSUME "nenv" \notin unsaved' \union stuck'
             PROVE  ReadAt("nenv", Env)' \in accept["nenv"]
  BY DEF ReadInv
<1>1. ReadAt("nenv", Env) \in accept["nenv"]
  BY DEF ReadInv
<1>2. PICK i : i = info["nenv"] /\ i = info'["nenv"]
  BY DEF Env
<1>3. CASE ~i.valid
  BY <1>1, <1>2, <1>3 DEF ReadAt, Env
<1>4. CASE i.valid
  <2>1. "nenv" \in Name
    BY DEF Name
  <2>2. flash'[i.blk] = flash[i.blk]
    BY <1>2, <1>4, <2>1, OtherKept
  <2> QED BY <1>1, <1>2, <1>4, <2>2 DEF ReadAt, Env
<1> QED BY <1>3, <1>4

\* ... and nothing is said of it under its own.
LEMMA ReadLater ==
  ASSUME EntryInv, ReadInv, TypeInv, PlaceInv, [Next]_vars, Saving,
         unsaved' = unsaved, accept' = accept, "nenv" \in stuck => "nenv" \in stuck',
         \A n \in Name \ {save.n} : info'[n] = info[n]
  PROVE  ReadInv'
<1>0. save.n \in unsaved /\ pc \notin {"off", "dead"} /\ "nenv" \in Name
  BY DEF EntryInv, Saving, Name
<1>1. CASE save.n = "nenv"
  BY <1>0, <1>1 DEF ReadInv
<1>2. CASE save.n # "nenv"
  <2>1. Env' = Env
    BY <1>0, <1>2 DEF Env
  <2> QED BY <1>0, <1>2, <2>1, ReadKept
<1> QED BY <1>1, <1>2

\* A save gives up.
LEMMA DataReturn ==
  ASSUME TypeInv, PlaceInv, DataNow, [Next]_vars, Saving, Return(FALSE, This),
         UNCHANGED <<accept, unsaved>>, \A b \in Blk : Whole(flash'[b]),
         Env.valid => Roomy(flash', Env)
  PROVE  DataNow'
<1>0. /\ save.n \in Name /\ This \in InfoType /\ "nenv" \in Name /\ info[save.n] = This
      /\ EntryInv /\ ReadInv
  BY DEF TypeInv, PointOK, DataNow, Name, This
<1>1. PICK j : /\ j = info'[save.n] /\ j.valid = This.valid /\ j.blk = This.blk /\ j.slot = This.slot
               /\ j.update = (This.update /\ save.then \notin {"fixcfg", "fixenv"})
               /\ pc' \in {"fixcfg", "dead", "fixenv", "relocate", "ready"}
               /\ \A n \in Name \ {save.n} : info'[n] = info[n]
  BY <1>0, ReturnTo
<1>2. /\ stuck \subseteq stuck'
      /\ (This.update /\ save.then \in {"fixcfg", "fixenv"} => save.n \in stuck')
  BY DEF Return
<1>3. EntryInv'
  BY <1>0, <1>1 DEF EntryInv, Saving
<1>4. EnvInv'
  <2> SUFFICES ASSUME Env'.valid PROVE Roomy(flash, Env)'
    BY DEF EnvInv, Roomy
  <2>1. CASE save.n = "nenv"
    <3>1. Env' = j /\ Env = This
      BY <1>0, <1>1, <2>1 DEF Env
    <3>2. Roomy(flash', Env)
      BY <1>1, <3>1
    <3>3. ~j.update /\ "nenv" \notin stuck' => ~This.update /\ "nenv" \notin stuck
      BY <1>1, <1>2, <2>1
    <3> QED BY <1>1, <3>1, <3>2, <3>3 DEF Roomy
  <2>2. CASE save.n # "nenv"
    <3>1. Env' = Env
      BY <1>0, <1>1, <2>2 DEF Env
    <3>2. Roomy(flash', Env)
      BY <3>1
    <3> QED BY <1>2, <3>1, <3>2 DEF Roomy
  <2> QED BY <2>1, <2>2
<1>5. AgainInv' /\ ProgInv' /\ DoneInv'
  BY <1>1 DEF AgainInv, ProgInv, DoneInv
<1>6. ReadInv'
  BY <1>0, <1>1, <1>2, ReadLater
<1> QED BY <1>3, <1>4, <1>5, <1>6 DEF DataNow

(***************************************************************************)
(* Each step preserves it.                                                 *)
(***************************************************************************)
LEMMA DataGetBlk ==
  ASSUME TypeInv, PlaceInv, DataNow, GetBlk
  PROVE  DataNow'
<1>0. /\ pc = "getblk" /\ Saving /\ save \in SaveType /\ [Next]_vars
      /\ EntryInv /\ EnvInv /\ AgainInv /\ ReadInv
      /\ UNCHANGED <<flash, accept, unsaved>>
  BY DEF GetBlk, Saving, TypeInv, DataNow, Next, SaveStep
<1>1. PICK n \in Name : n = save.n
  BY <1>0 DEF TypeInv, PointOK
<1>2. PICK i \in InfoType : i = info[n] /\ i = This
  BY <1>1 DEF TypeInv, This
<1>3. Env.valid => Roomy(flash, Env)
  BY <1>0 DEF EnvInv, Moving
<1>4. CASE /\ SameBlk(i) /\ pc' = "write" /\ info' = info /\ stuck' = stuck
           /\ save' = [save EXCEPT !.blk = i.blk, !.slot = i.slot + 1, !.k = 0]
  <2>1. /\ save'.n = n /\ save'.blk = i.blk /\ save'.slot = i.slot + 1 /\ save'.k = 0
        /\ save'.again = save.again
    BY <1>0, <1>1, <1>4 DEF SaveType
  <2>2. i.valid /\ ~i.update /\ n = "nenv" /\ i.slot \in Nat /\ i.slot + 1 \in Slot
    BY <1>1, <1>4, Areas DEF SameBlk, FullBlk, InfoType, Name, Slot
  <2>3. Env = i /\ Env' = i /\ This' = i /\ SameBlk(This)' /\ Roomy(flash, i)
    BY <1>1, <1>2, <1>3, <1>4, <2>1, <2>2 DEF Env, This, SameBlk
  <2>4. PICK c : c = flash[i.blk]
    OBVIOUS
  <2>5. Shape(c, n, i.slot + 1) /\ ("nenv" \notin stuck => ErasedFrom(c, i.slot + 2))
    BY <2>2, <2>3, <2>4 DEF Roomy
  <2>6. save.again /\ "nenv" \notin stuck => c[i.slot + 1] = Erased
    <3> SUFFICES ASSUME save.again, "nenv" \notin stuck PROVE c[i.slot + 1] = Erased
      OBVIOUS
    <3>1. ErasedFrom(c, i.slot + 1)
      BY <1>0, <1>1, <1>2, <1>4, <2>2, <2>4 DEF AgainInv
    <3> QED BY <2>2, <3>1 DEF ErasedFrom
  <2>7. Slotted' /\ Appends' /\ Clear'
    <3>1. (i.slot + 1) + 1 = i.slot + 2
      BY <2>2
    <3> QED BY <1>0, <1>4, <2>1, <2>2, <2>3, <2>4, <2>5, <3>1 DEF Slotted, Appends, Clear
  <2>8. ProgInv'
    <3>1. PageOf(TheRecord', 0) = Erased
      BY DEF PageOf
    <3> QED BY <1>0, <1>4, <2>1, <2>4, <2>5, <2>6, <2>7, <3>1 DEF ProgInv, Unsure
  <2>9. EntryInv' /\ EnvInv'
    BY <1>0, <1>1, <1>4, <2>1, <2>3 DEF EntryInv, EnvInv, Saving, Moving
  <2>10. AgainInv' /\ DoneInv'
    BY <1>4 DEF AgainInv, DoneInv
  <2>11. ReadInv'
    BY <1>0, <1>4, ReadLater
  <2> QED BY <2>8, <2>9, <2>10, <2>11 DEF DataNow
<1>5. CASE /\ pc' = "erase" /\ info' = info /\ stuck' = stuck
           /\ save' = [save EXCEPT !.blk = Min(FreeBlks(reserved, save.blk)), !.skip = save.blk,
                                   !.slot = 0, !.k = 0,
                                   !.full = i.valid /\ ~i.update /\ ~FullBlk(save.n)]
  <2>1. save'.n = n /\ save'.slot = 0 /\ save'.k = 0
    BY <1>0, <1>1, <1>5 DEF SaveType
  <2>2. EnvInv'
    BY <1>0, <1>3, <1>5 DEF EnvInv, Env, Roomy
  <2>3. EntryInv' /\ AgainInv' /\ DoneInv' /\ ProgInv'
    BY <1>0, <1>1, <1>5, <2>1 DEF EntryInv, Saving, AgainInv, DoneInv, ProgInv
  <2>4. ReadInv'
    BY <1>0, <1>5, ReadLater
  <2> QED BY <2>2, <2>3, <2>4 DEF DataNow
<1>6. CASE Return(FALSE, i)
  <2>1. (\A b \in Blk : Whole(flash'[b])) /\ flash' = flash /\ Return(FALSE, This)
    BY <1>0, <1>2, <1>6 DEF EntryInv
  <2>2. Env.valid => Roomy(flash', Env)
    BY <1>3, <2>1
  <2> QED BY <1>0, <2>1, <2>2, DataReturn
<1> QED BY <1>1, <1>2, <1>4, <1>5, <1>6 DEF GetBlk

LEMMA DataErase ==
  ASSUME TypeInv, PlaceInv, DataNow, EraseFree
  PROVE  DataNow'
<1>0. /\ pc = "erase" /\ Saving /\ [Next]_vars /\ EntryInv /\ EnvInv /\ ProgInv /\ ReadInv
      /\ pc' = "write" /\ flash' = [flash EXCEPT ![save.blk] = Blank] /\ flash \in FlashType
      /\ UNCHANGED <<info, save, accept, unsaved, stuck>>
  BY DEF EraseFree, EraseBlk, Saving, TypeInv, DataNow, Next, SaveStep, ram, history, FlashOK, FlashType
<1>1. PICK n \in Name : n = save.n
  BY <1>0 DEF TypeInv, PointOK
<1>2. PICK b \in Blk : b = save.blk /\ b \notin reserved /\ ~SameBlk(This)
  BY <1>0 DEF TypeInv, PointOK, PlaceInv, PointPlace
<1>3. flash'[b] = Blank /\ \A x \in Blk \ {b} : flash'[x] = flash[x]
  BY <1>0, <1>2 DEF FlashType
<1>4. Env.valid => Env.blk \in Blk /\ Env.blk # b
  BY <1>2 DEF TypeInv, PlaceInv, KnownBlocks, Env, Name
<1>5. EnvInv'
  <2>1. Env' = Env
    BY <1>0 DEF Env
  <2>2. Env.valid => flash'[Env.blk] = flash[Env.blk] /\ (Moving(Env.blk) => Moving(Env.blk)')
    BY <1>0, <1>3, <1>4 DEF Moving
  <2> QED BY <1>0, <2>1, <2>2, EnvKept
<1>6. EntryInv'
  BY <1>0, <1>1, <1>3, BlankShape DEF EntryInv, Saving
<1>7. ProgInv'
  <2>1. This' = This /\ ~SameBlk(This)'
    BY <1>0, <1>2 DEF This, SameBlk
  <2>2. save.slot = 0 /\ save.k = 0
    BY <1>0 DEF ProgInv
  <2>3. Shape(Blank, n, 0) /\ ErasedFrom(Blank, 0 + 1) /\ Blank[0] = Erased
    BY BlankShape, Areas DEF Blank
  <2>4. Slotted' /\ Clear'
    BY <1>0, <1>2, <1>3, <2>1, <2>2, <2>3 DEF Slotted, Clear
  <2>5. PageOf(TheRecord', 0) = Erased
    BY DEF PageOf
  <2> QED BY <1>0, <1>1, <1>2, <1>3, <2>2, <2>3, <2>4, <2>5 DEF ProgInv
<1>8. AgainInv' /\ DoneInv'
  BY <1>0 DEF AgainInv, DoneInv
<1>9. ReadInv'
  BY <1>0, ReadLater
<1> QED BY <1>5, <1>6, <1>7, <1>8, <1>9 DEF DataNow

LEMMA DataTest ==
  ASSUME TypeInv, PlaceInv, DataNow, TestPasses
  PROVE  DataNow'
<1>0. /\ pc = "test" /\ Saving /\ [Next]_vars /\ EntryInv /\ EnvInv /\ ProgInv /\ ReadInv
      /\ pc' = "getblk" /\ flash' = [flash EXCEPT ![save.blk] = Blank] /\ flash \in FlashType
      /\ UNCHANGED <<info, save, accept, unsaved, stuck>>
  BY DEF TestPasses, EraseBlk, Saving, TypeInv, DataNow, Next, SaveStep, ram, history, FlashOK, FlashType
<1>1. PICK n \in Name : n = save.n
  BY <1>0 DEF TypeInv, PointOK
<1>2. PICK b \in Blk : b = save.blk
  BY <1>0 DEF TypeInv, PointOK
<1>3. flash'[b] = Blank /\ \A x \in Blk \ {b} : flash'[x] = flash[x]
  BY <1>0, <1>2 DEF FlashType
<1>4. EnvInv'
  <2> SUFFICES ASSUME Env.valid PROVE Roomy(flash, Env)'
    BY <1>0 DEF EnvInv, Env
  <2>0. Env' = Env /\ Env.blk \in Blk /\ "nenv" \in Name
    BY <1>0 DEF Env, TypeInv, Name
  <2>1. CASE Env.blk = b
    BY <1>3, <2>0, <2>1, BlankShape DEF Roomy
  <2>2. CASE Env.blk # b
    <3>1. Roomy(flash, Env) /\ flash'[Env.blk] = flash[Env.blk]
      BY <1>0, <1>2, <1>3, <2>0, <2>2 DEF EnvInv, Moving
    <3> QED BY <1>0, <2>0, <3>1 DEF Roomy
  <2> QED BY <2>1, <2>2
<1>5. EntryInv'
  BY <1>0, <1>1, <1>3, BlankShape DEF EntryInv, Saving
<1>6. AgainInv'
  <2> SUFFICES ASSUME SameBlk(This)' PROVE ErasedFrom(flash'[This'.blk], This'.slot + 1)
    BY DEF AgainInv
  <2>1. This' = This /\ SameBlk(This)
    BY <1>0 DEF This, SameBlk
  <2>2. This.blk = b
    BY <1>0, <1>2, <2>1 DEF ProgInv
  <2> QED BY <1>1, <1>3, <2>1, <2>2, BlankShape
<1>7. ProgInv' /\ DoneInv'
  BY <1>0 DEF ProgInv, DoneInv
<1>8. ReadInv'
  BY <1>0, ReadLater
<1> QED BY <1>4, <1>5, <1>6, <1>7, <1>8 DEF DataNow

\* What a page write leaves in the slot, whether it succeeds or not.
LEMMA SlotAfter ==
  ASSUME TypeInv, DataNow, pc = "write", NEW q, q = flash[save.blk][save.slot]
  PROVE  /\ Spoil(q, save.k) = Torn \/ Spoil(q, save.k).name = save.n
         /\ LET p == Program(q, save.k, TheRecord) IN
            /\ p = PageOf(TheRecord, save.k + 1) \/ (Unsure /\ p = Torn)
            /\ p = Torn \/ p.name = save.n
<1>0. Saving /\ ProgInv
  BY DEF Saving, DataNow
<1>1. PICK r \in Record : r = TheRecord /\ r.name = save.n /\ r.len = RecPages /\ ~r.ruined /\ r.name \in Name
  BY <1>0, TheRecordOK DEF RecordOK, TypeInv, PointOK
<1>2. PICK k \in 0 .. DataPages : k = save.k
  BY DEF TypeInv, SaveType
<1>3. q = PageOf(r, k) \/ (Unsure /\ (k = 0 \/ q = Torn))
  BY <1>0, <1>1, <1>2 DEF ProgInv
<1>4. Spoil(Torn, k) = Torn
  <2>1. k = 0 \/ 0 < k
    BY <1>2
  <2>2. PICK z \in Record : z = Torn /\ z.len = 0 /\ z.ruined = TRUE
    BY Constants DEF Torn, Erased
  <2>3. ASSUME 0 < k PROVE [Torn EXCEPT !.len = IF @ < k THEN @ ELSE k, !.ruined = TRUE] = Torn
    <3>1. (IF z.len < k THEN z.len ELSE k) = 0
      BY <2>2, <2>3
    <3>2. [z EXCEPT !.len = 0, !.ruined = TRUE] = z
      BY <2>2 DEF Record
    <3> QED BY <2>2, <3>1, <3>2
  <2> QED BY <2>1, <2>3 DEF Spoil
<1>5. Spoil(q, 0) = Torn
  BY DEF Spoil
<1>6. Spoil(q, k) = Torn \/ Spoil(q, k).name = r.name
  <2>1. CASE k = 0
    BY <1>5, <2>1
  <2>2. CASE k # 0 /\ q = Torn
    BY <1>4, <2>2
  <2>3. CASE k # 0 /\ q = PageOf(r, k)
    BY <1>1, <2>3, PageIs
  <2> QED BY <1>3, <2>1, <2>2, <2>3
<1>7. PICK w : w = PageOf(r, k + 1)
  OBVIOUS
<1>8. w = [r EXCEPT !.len = k + 1] /\ w.name = r.name
  <2>1. k + 1 # 0
    BY <1>2
  <2>2. w = [r EXCEPT !.len = k + 1]
    BY <1>7, <2>1 DEF PageOf
  <2> QED BY <2>2 DEF Record
<1>9. Program(q, k, r) = w \/ (Unsure /\ Program(q, k, r) = Torn)
  <2>1. CASE q = PageOf(r, k)
    BY <1>1, <1>7, <2>1, ProgramPage
  <2>2. CASE Unsure /\ k = 0
    BY <1>5, <1>8, <2>2 DEF Program
  <2>3. CASE Unsure /\ q = Torn
    <3>1. Torn.ruined
      BY DEF Torn, Erased
    <3> QED BY <1>4, <2>3, <3>1 DEF Program
  <2> QED BY <1>3, <2>1, <2>2, <2>3
<1> QED BY <1>1, <1>2, <1>6, <1>7, <1>8, <1>9

LEMMA PutWhole ==
  ASSUME TypeInv, PlaceInv, DataNow, pc = "write", NEW p, p = Torn \/ p.name = save.n,
         NEW g, g = Put(p)
  PROVE  LET n == save.n  b == save.blk  s == save.slot IN
         /\ g[b][s] = p /\ Shape(g[b], n, s + 1)
         /\ \A t \in Slot \ {s} : g[b][t] = flash[b][t]
         /\ ErasedFrom(flash[b], s + 1) => ErasedFrom(g[b], s + 1)
         /\ \A x \in Blk \ {b} : g[x] = flash[x]
         /\ \A x \in Blk : Whole(g[x])
<1>0. Saving /\ ProgInv /\ EntryInv /\ flash \in FlashType
  BY DEF Saving, DataNow, TypeInv, FlashOK, FlashType
<1>1. PICK n \in Name : n = save.n
  BY <1>0 DEF TypeInv, PointOK
<1>2. PICK b \in Blk : b = save.blk
  BY DEF TypeInv, PointOK
<1>3. PICK s \in Slot : s = save.slot /\ s \in Nat
  BY Areas DEF TypeInv, SaveType
<1>4. g[b][s] = p /\ \A x \in Blk \ {b} : g[x] = flash[x]
  BY <1>0, <1>2, <1>3 DEF Put, FlashType
<1>5. \A t \in Slot \ {s} : g[b][t] = flash[b][t]
  BY <1>0, <1>2, <1>3 DEF Put, FlashType
<1>6. Shape(flash[b], n, s)
  BY <1>0, <1>1, <1>2, <1>3 DEF ProgInv
<1>7. s = 0 => ErasedFrom(flash[b], 1)
  <2> SUFFICES ASSUME s = 0 PROVE ErasedFrom(flash[b], 1)
    OBVIOUS
  <2>1. Slotted /\ Clear
    BY <1>0 DEF ProgInv
  <2>2. ~Appends
    <3> SUFFICES ASSUME Appends PROVE FALSE
      OBVIOUS
    <3>1. s = This.slot + 1 /\ This.slot \in Slot
      BY <1>1, <1>3, <2>1 DEF Appends, Slotted, TypeInv, This, InfoType
    <3>2. This.slot \in Nat
      BY <3>1, Areas
    <3> QED BY <3>1, <3>2
  <2>3. 0 + 1 = 1
    OBVIOUS
  <2> QED BY <1>2, <1>3, <2>1, <2>2, <2>3 DEF Clear
<1>8. Shape(g[b], n, s + 1)
  BY <1>1, <1>4, <1>5, <1>6, <1>7, PutShape
<1>9. Whole(g[b])
  <2>1. s + 1 \in Nat /\ 0 \in Nat /\ 0 <= s + 1
    BY <1>3
  <2> QED BY <1>8, <2>1, ShapeLess
<1>10. \A x \in Blk : Whole(g[x])
  BY <1>0, <1>4, <1>9 DEF EntryInv
<1>11. ErasedFrom(flash[b], s + 1) => ErasedFrom(g[b], s + 1)
  <2>1. \A t \in Slot : t >= s + 1 => t # s
    BY <1>3
  <2> QED BY <1>5, <2>1 DEF ErasedFrom
<1> QED BY <1>1, <1>2, <1>3, <1>4, <1>5, <1>8, <1>10, <1>11

LEMMA DataWrite ==
  ASSUME TypeInv, PlaceInv, DataNow, WritePage
  PROVE  DataNow'
<1>0. /\ pc = "write" /\ Saving /\ save \in SaveType /\ [Next]_vars
      /\ EntryInv /\ EnvInv /\ ProgInv /\ ReadInv /\ pc' \in {"write", "commit"}
      /\ UNCHANGED <<info, accept, unsaved, stuck>> /\ flash \in FlashType
  BY DEF WritePage, Saving, TypeInv, DataNow, Next, SaveStep, history, FlashOK, FlashType
<1>1. PICK n \in Name : n = save.n
  BY <1>0 DEF TypeInv, PointOK
<1>2. PICK b \in Blk : b = save.blk
  BY <1>0 DEF TypeInv, PointOK
<1>3. PICK s \in Slot, k \in 0 .. DataPages : s = save.slot /\ k = save.k /\ s \in Nat
  BY <1>0, Areas DEF SaveType
<1>4. PICK r \in Record : r = TheRecord /\ r.len = RecPages /\ ~r.ruined
  BY <1>0, TheRecordOK DEF RecordOK
<1>5. PICK p : p = Program(flash[b][s], k, r)
  OBVIOUS
<1>6. p = PageOf(r, k + 1) \/ (Unsure /\ p = Torn)
  BY <1>0, <1>2, <1>3, <1>4, <1>5, SlotAfter
<1>7. p = Torn \/ p.name = n
  BY <1>0, <1>1, <1>2, <1>3, <1>4, <1>5, SlotAfter
<1>8. PICK g : g = flash'
  OBVIOUS
<1>9. g = Put(p)
  BY <1>0, <1>2, <1>3, <1>4, <1>5, <1>8 DEF WritePage, Put, FlashType
<1>10. /\ g[b][s] = p /\ Shape(g[b], n, s + 1) /\ \A t \in Slot \ {s} : g[b][t] = flash[b][t]
       /\ (ErasedFrom(flash[b], s + 1) => ErasedFrom(g[b], s + 1))
       /\ \A x \in Blk \ {b} : g[x] = flash[x]
       /\ \A x \in Blk : Whole(g[x])
  BY <1>0, <1>1, <1>2, <1>3, <1>7, <1>9, PutWhole
<1>11. /\ save'.n = n /\ save'.blk = b /\ save'.again = save.again /\ save'.val = save.val
       /\ \/ k + 1 < RecPages /\ save'.k = k + 1 /\ save'.slot = s /\ pc' = "write"
          \/ /\ k + 1 = RecPages /\ FullBlk(n) /\ s + 1 < Slots /\ save'.k = 0 /\ save'.slot = s + 1
             /\ pc' = "write"
          \/ k + 1 = RecPages /\ save'.slot = s /\ pc' = "commit"
  <2>1. CASE k + 1 < RecPages /\ save' = [save EXCEPT !.k = k + 1] /\ pc' = "write"
    BY <1>0, <1>1, <1>2, <1>3, <2>1 DEF SaveType
  <2>2. CASE /\ k + 1 = RecPages /\ FullBlk(n) /\ s + 1 < Slots /\ pc' = "write"
             /\ save' = [save EXCEPT !.k = 0, !.slot = s + 1]
    BY <1>0, <1>1, <1>2, <1>3, <2>2 DEF SaveType
  <2>3. CASE k + 1 = RecPages /\ save' = save /\ pc' = "commit"
    BY <1>1, <1>2, <1>3, <2>3
  <2> QED BY <1>0, <1>1, <1>3, <2>1, <2>2, <2>3 DEF WritePage
<1>12. /\ This' = This /\ SameBlk(This)' = SameBlk(This) /\ TheRecord' = r
       /\ Appends' = Appends /\ Unsure' = Unsure
  <2>1. This' = This /\ SameBlk(This)' = SameBlk(This)
    BY <1>0, <1>1, <1>11 DEF This, SameBlk
  <2>2. Appends' = Appends
    BY <1>1, <1>11, <2>1 DEF Appends
  <2> QED BY <1>0, <1>1, <1>4, <1>11, <2>1, <2>2 DEF Unsure, TheRecord
<1>13. Slotted /\ Clear
  BY <1>0 DEF ProgInv
<1>14. EntryInv'
  BY <1>0, <1>1, <1>8, <1>10, <1>11 DEF EntryInv, Saving
<1>15. EnvInv'
  <2>1. Env' = Env /\ (Env.valid => Env.blk \in Blk)
    BY <1>0 DEF Env, TypeInv, Name
  <2>2. CASE Env.blk = b
    BY <1>0, <1>11, <2>1, <2>2 DEF EnvInv, Moving
  <2>3. CASE Env.blk # b
    <3>1. Env.valid => flash'[Env.blk] = flash[Env.blk] /\ (Moving(Env.blk) => Moving(Env.blk)')
      BY <1>2, <1>8, <1>10, <2>1, <2>3 DEF Moving
    <3> QED BY <1>0, <2>1, <3>1, EnvKept
  <2> QED BY <2>2, <2>3
<1>16. ProgInv'
  <2>1. CASE save'.slot = s
    <3>1. Slotted' /\ Clear'
      BY <1>0, <1>1, <1>2, <1>3, <1>8, <1>10, <1>11, <1>12, <1>13, <2>1 DEF Slotted, Clear
    <3>2. Shape(g[b], n, s)
      <4>1. s + 1 \in Nat /\ s <= s + 1
        BY <1>3
      <4> QED BY <1>3, <1>10, <4>1, ShapeLess
    <3>3. CASE pc' = "write"
      <4>1. save'.k = k + 1
        BY <1>11, <2>1, <3>3, <1>3
      <4> QED BY <1>6, <1>8, <1>10, <1>11, <1>12, <2>1, <3>1, <3>2, <3>3, <4>1 DEF ProgInv
    <3>4. CASE pc' = "commit"
      <4>1. k + 1 = RecPages
        BY <1>11, <3>4
      <4>2. p = r \/ Unsure
        BY <1>4, <1>6, <4>1, ProgramPage
      <4> QED BY <1>8, <1>10, <1>11, <1>12, <2>1, <3>1, <3>4, <4>2 DEF ProgInv
    <3> QED BY <1>0, <3>3, <3>4
  <2>2. CASE FullBlk(n) /\ s + 1 < Slots /\ save'.k = 0 /\ save'.slot = s + 1 /\ pc' = "write"
    <3>1. n # "nenv" /\ ~Appends /\ s + 1 \in Slot /\ s + 1 # s
      BY <1>1, <1>3, <2>2, Areas DEF FullBlk, Appends, Slot
    <3>2. ErasedFrom(g[b], s + 1)
      BY <1>2, <1>3, <1>10, <1>13, <3>1 DEF Clear
    <3>3. g[b][s + 1] = Erased /\ ErasedFrom(g[b], (s + 1) + 1)
      <4>1. s + 1 >= s + 1 /\ s + 1 \in Nat
        BY <1>3
      <4> QED BY <3>1, <3>2, <4>1, ErasedLess DEF ErasedFrom
    <3>4. Slotted' /\ Clear'
      BY <1>8, <1>11, <2>2, <3>1, <3>3 DEF Slotted, Clear
    <3>5. PageOf(r, 0) = Erased
      BY DEF PageOf
    <3> QED BY <1>8, <1>10, <1>11, <1>12, <2>2, <3>3, <3>4, <3>5 DEF ProgInv
  <2> QED BY <1>11, <2>1, <2>2
<1>17. AgainInv' /\ DoneInv'
  BY <1>0 DEF AgainInv, DoneInv
<1>18. ReadInv'
  BY <1>0, ReadLater
<1> QED BY <1>14, <1>15, <1>16, <1>17, <1>18 DEF DataNow

LEMMA DataWriteFails ==
  ASSUME TypeInv, PlaceInv, DataNow, WriteFails
  PROVE  DataNow'
<1>0. /\ pc = "write" /\ Saving /\ save \in SaveType /\ [Next]_vars
      /\ EntryInv /\ EnvInv /\ ProgInv /\ ReadInv
      /\ UNCHANGED <<accept, unsaved>> /\ flash \in FlashType
  BY DEF WriteFails, Saving, TypeInv, DataNow, Next, SaveStep, FlashOK, FlashType
<1>1. PICK n \in Name : n = save.n
  BY <1>0 DEF TypeInv, PointOK
<1>2. PICK b \in Blk : b = save.blk
  BY <1>0 DEF TypeInv, PointOK
<1>3. PICK s \in Slot, k \in 0 .. DataPages : s = save.slot /\ k = save.k /\ s \in Nat
  BY <1>0, Areas DEF SaveType
<1>4. PICK p : p = Spoil(flash[b][s], k)
  OBVIOUS
<1>5. p = Torn \/ p.name = n
  BY <1>0, <1>1, <1>2, <1>3, <1>4, SlotAfter
<1>6. PICK g : g = flash'
  OBVIOUS
<1>7. g = Put(p)
  BY <1>0, <1>2, <1>3, <1>4, <1>6 DEF WriteFails, Put, FlashType
<1>8. /\ Shape(g[b], n, s + 1) /\ (ErasedFrom(flash[b], s + 1) => ErasedFrom(g[b], s + 1))
      /\ \A x \in Blk \ {b} : g[x] = flash[x]
      /\ \A x \in Blk : Whole(g[x])
  BY <1>0, <1>1, <1>2, <1>3, <1>5, <1>7, PutWhole
<1>9. /\ IF SameBlk(This) THEN b = This.blk ELSE b \notin reserved
      /\ Spares(b) /\ KnownBlocks
  BY <1>0, <1>2 DEF PlaceInv, PointPlace
<1>10. CASE Return(FALSE, info[save.n])
  <2>1. ASSUME Env.valid PROVE Roomy(g, Env)
    <3>1. "nenv" \in Name /\ Env.blk \in Blk /\ Env.blk \in reserved /\ Env.slot \in Nat
      BY <1>9, <2>1, Areas DEF Env, TypeInv, InfoType, KnownBlocks, Name
    <3>2. CASE Env.blk # b
      <4>1. Roomy(flash, Env) /\ g[Env.blk] = flash[Env.blk]
        BY <1>0, <1>2, <1>8, <2>1, <3>1, <3>2 DEF EnvInv, Moving
      <4> QED BY <4>1 DEF Roomy
    <3>3. CASE Env.blk = b
      <4>1. n = "nenv"
        BY <1>1, <1>9, <2>1, <3>1, <3>3 DEF Spares, Env
      <4>2. This = Env /\ SameBlk(This)
        BY <1>1, <1>9, <3>1, <3>3, <4>1 DEF This, Env
      <4>3. s = Env.slot + 1 /\ ("nenv" \notin stuck => ErasedFrom(flash[b], s + 1))
        BY <1>0, <1>1, <1>2, <1>3, <4>1, <4>2 DEF ProgInv, Slotted, Clear
      <4>4. Shape(g[b], "nenv", Env.slot + 1)
        <5>1. Env.slot + 1 \in Nat /\ s + 1 \in Nat /\ Env.slot + 1 <= s + 1
          BY <3>1, <4>3
        <5> QED BY <1>8, <3>1, <4>1, <5>1, ShapeLess
      <4>5. s + 1 = Env.slot + 2
        BY <3>1, <4>3
      <4> QED BY <1>8, <3>3, <4>3, <4>4, <4>5 DEF Roomy
    <3> QED BY <3>2, <3>3
  <2>2. Return(FALSE, This)
    BY <1>10 DEF This
  <2> QED BY <1>0, <1>6, <1>8, <2>1, <2>2, DataReturn
<1>11. CASE save' = [save EXCEPT !.tests = @ + 1] /\ pc' = "test" /\ UNCHANGED <<info, stuck>>
  <2>1. save'.n = n /\ save'.blk = b
    BY <1>0, <1>1, <1>2, <1>11 DEF SaveType
  <2>2. EntryInv'
    BY <1>0, <1>1, <1>6, <1>8, <1>11, <2>1 DEF EntryInv, Saving
  <2>3. EnvInv'
    <3>1. Env' = Env /\ (Env.valid => Env.blk \in Blk)
      BY <1>11 DEF Env, TypeInv, Name
    <3>2. CASE Env.blk = b
      BY <1>11, <2>1, <3>1, <3>2 DEF EnvInv, Moving
    <3>3. CASE Env.blk # b
      <4>1. Env.valid => flash'[Env.blk] = flash[Env.blk] /\ (Moving(Env.blk) => Moving(Env.blk)')
        BY <1>2, <1>6, <1>8, <3>1, <3>3 DEF Moving
      <4> QED BY <1>0, <1>11, <3>1, <4>1, EnvKept
    <3> QED BY <3>2, <3>3
  <2>4. ProgInv'
    <3>1. This' = This /\ SameBlk(This)' = SameBlk(This)
      BY <1>1, <1>11, <2>1 DEF This, SameBlk
    <3> QED BY <1>9, <1>11, <2>1, <3>1 DEF ProgInv
  <2>5. AgainInv' /\ DoneInv'
    BY <1>11 DEF AgainInv, DoneInv
  <2>6. ReadInv'
    BY <1>0, <1>11, ReadLater
  <2> QED BY <2>2, <2>3, <2>4, <2>5, <2>6 DEF DataNow
<1> QED BY <1>10, <1>11 DEF WriteFails

LEMMA DataCommit ==
  ASSUME TypeInv, PlaceInv, DataNow, Commit
  PROVE  DataNow'
<1>0. /\ pc = "commit" /\ Saving /\ save \in SaveType /\ [Next]_vars
      /\ EntryInv /\ EnvInv /\ ProgInv /\ ReadInv
      /\ UNCHANGED <<flash, accept, unsaved, stuck>>
  BY DEF Commit, Saving, TypeInv, DataNow, Next, SaveStep, history
<1>1. PICK n \in Name : n = save.n
  BY <1>0 DEF TypeInv, PointOK
<1>2. PICK i \in InfoType : i = info[n] /\ i = This
  BY <1>1 DEF TypeInv, This
<1>3. PICK b \in Blk : b = save.blk
  BY <1>0 DEF TypeInv, PointOK
<1>4. PICK s \in Slot : s = save.slot /\ s \in Nat
  BY <1>0, Areas DEF SaveType
<1>5. PICK c : c = flash[b]
  OBVIOUS
<1>6. PICK j \in InfoType : j = info'[n] /\ j.valid = i.valid /\ j.blk = b /\ j.ts = i.ts
                            /\ j.update = i.update
  BY <1>1, <1>2, <1>3, CommitTo
<1>7. /\ info' = [info EXCEPT ![n] = j] /\ (~i.valid => j.slot = i.slot)
      /\ (i.valid /\ MovesTo(i) => j.slot = 0) /\ (~MovesTo(i) => SameBlk(i) /\ j.slot = i.slot + 1)
  BY <1>1, <1>2, <1>6, CommitTo
<1>8. save'.n = n /\ save'.val = save.val /\ save'.again = save.again
  BY <1>1, CommitTo
<1>9. pc' \in {"eraseold", "finish"}
  BY DEF Commit
<1>10. This' = j /\ TheRecord' = TheRecord /\ \A m \in Name \ {n} : info'[m] = info[m]
  BY <1>1, <1>2, <1>6, <1>7, <1>8 DEF This, TheRecord, TypeInv
<1>11. ~i.valid => i.slot = 0
  BY <1>0, <1>2 DEF EntryInv
<1>12. EntryInv'
  BY <1>0, <1>1, <1>6, <1>7, <1>8, <1>10, <1>11 DEF EntryInv, Saving
<1>13. n = "nenv" => j.slot = s
  <2>1. MovesTo(i) => ~SameBlk(i)
    BY <1>0, <1>1, <1>2 DEF MovesTo, SameBlk, PlaceInv, PointPlace
  <2>2. ~i.valid => ~SameBlk(i) /\ MovesTo(i)
    BY DEF SameBlk, MovesTo
  <2>3. n = "nenv" => s = IF SameBlk(i) THEN i.slot + 1 ELSE 0
    BY <1>0, <1>1, <1>2, <1>4 DEF ProgInv, Slotted
  <2> QED BY <1>7, <1>11, <2>1, <2>2, <2>3
<1>14. ASSUME n = "nenv"
       PROVE  /\ Shape(c, "nenv", j.slot + 1)
              /\ "nenv" \notin stuck => ErasedFrom(c, j.slot + 1) /\ (save.again => c[j.slot] = TheRecord)
  <2>1. Shape(c, n, s + 1) /\ Clear /\ (c[s] = TheRecord \/ Unsure)
    BY <1>0, <1>1, <1>3, <1>4, <1>5 DEF ProgInv
  <2> QED BY <1>3, <1>4, <1>5, <1>13, <1>14, <2>1 DEF Clear, Unsure
<1>15. DoneInv'
  BY <1>0, <1>5, <1>6, <1>8, <1>10, <1>14 DEF DoneInv
<1>16. EnvInv'
  <2> SUFFICES ASSUME Env'.valid PROVE Roomy(flash, Env)'
    BY DEF EnvInv
  <2>1. CASE n = "nenv"
    <3>1. Env' = j /\ j.slot + 1 \in Nat /\ (j.slot + 1) + 1 = j.slot + 2
      BY <1>4, <1>6, <1>13, <2>1 DEF Env
    <3>2. "nenv" \notin stuck => ErasedFrom(c, j.slot + 2)
      BY <1>14, <2>1, <3>1, ErasedLess
    <3> QED BY <1>0, <1>5, <1>6, <1>14, <2>1, <3>1, <3>2 DEF Roomy
  <2>2. CASE n # "nenv"
    <3>1. Env' = Env /\ "nenv" \in Name /\ Env.valid
      BY <1>10, <2>2 DEF Env, Name
    <3>2. Env.blk # b
      BY <1>0, <1>1, <1>3, <2>2, <3>1 DEF PlaceInv, PointPlace, Spares, Env
    <3>3. Roomy(flash, Env)
      BY <1>0, <1>3, <3>1, <3>2 DEF EnvInv, Moving
    <3> QED BY <1>0, <3>1, <3>3 DEF Roomy
  <2> QED BY <2>1, <2>2
<1>17. AgainInv' /\ ProgInv'
  BY <1>9 DEF AgainInv, ProgInv
<1>18. ReadInv'
  BY <1>0, <1>1, <1>10, ReadLater
<1> QED BY <1>12, <1>15, <1>16, <1>17, <1>18 DEF DataNow

LEMMA DataEraseOld ==
  ASSUME TypeInv, PlaceInv, DataNow, EraseOld \/ EraseOldFails \/ TestOldPasses
  PROVE  DataNow'
<1>0. /\ pc \in {"eraseold", "testold"} /\ Saving /\ [Next]_vars /\ EntryInv /\ EnvInv /\ DoneInv /\ ReadInv
      /\ pc' \in {"testold", "finish"} /\ flash \in FlashType
      /\ flash' = flash \/ flash' = [flash EXCEPT ![save.old] = Blank]
      /\ UNCHANGED <<info, save, accept, unsaved, stuck>>
  BY DEF EraseOld, EraseOldFails, TestOldPasses, EraseBlk, Saving, TypeInv, DataNow, Next, SaveStep,
         ram, history, FlashOK, FlashType
<1>1. PICK n \in Name : n = save.n
  BY <1>0 DEF TypeInv, PointOK
<1>2. PICK o \in Blk : o = save.old /\ o # This.blk /\ Spares(o) /\ This.blk \in Blk
  BY <1>0 DEF TypeInv, PointOK, PlaceInv, PointPlace
<1>3. flash'[o] \in {Blank, flash[o]} /\ \A x \in Blk \ {o} : flash'[x] = flash[x]
  BY <1>0, <1>2 DEF FlashType
<1>4. Env.valid => Env.blk \in Blk /\ Env.blk # o
  BY <1>1, <1>2 DEF TypeInv, Env, Name, This, Spares
<1>5. EnvInv'
  <2>1. Env' = Env
    BY <1>0 DEF Env
  <2>2. Env.valid => flash'[Env.blk] = flash[Env.blk] /\ (Moving(Env.blk) => Moving(Env.blk)')
    BY <1>0, <1>3, <1>4 DEF Moving
  <2> QED BY <1>0, <2>1, <2>2, EnvKept
<1>6. EntryInv'
  BY <1>0, <1>1, <1>3, BlankShape DEF EntryInv, Saving
<1>7. DoneInv'
  <2>1. This' = This /\ TheRecord' = TheRecord /\ flash'[This.blk] = flash[This.blk]
    BY <1>0, <1>2, <1>3 DEF This, TheRecord
  <2> QED BY <1>0, <2>1 DEF DoneInv
<1>8. AgainInv' /\ ProgInv'
  BY <1>0 DEF AgainInv, ProgInv
<1>9. ReadInv'
  BY <1>0, ReadLater
<1> QED BY <1>5, <1>6, <1>7, <1>8, <1>9 DEF DataNow

LEMMA DataFinish ==
  ASSUME TypeInv, PlaceInv, DataNow, Finish
  PROVE  DataNow'
<1>0. /\ pc = "finish" /\ Saving /\ save \in SaveType /\ [Next]_vars /\ flash' = flash
      /\ EntryInv /\ EnvInv /\ DoneInv /\ ReadInv
  BY DEF Finish, Saving, TypeInv, DataNow, Next, SaveStep
<1>1. PICK n \in Name : n = save.n
  BY <1>0 DEF TypeInv, PointOK
<1>2. PICK i \in InfoType : i = info[n] /\ i = This
  BY <1>1 DEF TypeInv, This
<1>3. PICK c : c = flash[i.blk]
  OBVIOUS
<1>4. n = "nenv" => /\ Shape(c, "nenv", i.slot + 1)
                    /\ "nenv" \notin stuck => /\ ErasedFrom(c, i.slot + 1) /\ ErasedFrom(c, i.slot + 2)
                                              /\ save.again => c[i.slot] = TheRecord
  <2>0. i.slot \in Nat
    BY Areas DEF InfoType
  <2>1. i.slot + 1 \in Nat /\ (i.slot + 1) + 1 = i.slot + 2
    BY <2>0
  <2> QED BY <1>0, <1>1, <1>2, <1>3, <2>1, ErasedLess DEF DoneInv
<1>5. ASSUME info'[n].valid, info'[n].blk = i.blk, info'[n].slot = i.slot,
             \A m \in Name \ {n} : info'[m] = info[m], stuck' = stuck,
             pc' \notin {"write", "test", "commit"}
      PROVE  EnvInv'
  <2> SUFFICES ASSUME Env'.valid PROVE Roomy(flash, Env)'
    BY DEF EnvInv
  <2>1. CASE n = "nenv"
    BY <1>0, <1>3, <1>4, <1>5, <2>1 DEF Env, Roomy
  <2>2. CASE n # "nenv"
    <3>1. Env' = Env /\ Env.valid
      BY <1>5, <2>2 DEF Env, Name
    <3>2. Roomy(flash, Env)
      BY <1>0, <3>1 DEF EnvInv, Moving
    <3> QED BY <1>0, <1>5, <3>1, <3>2 DEF Roomy
  <2> QED BY <2>1, <2>2
<1>6. CASE /\ WriteAgain([i EXCEPT !.valid = TRUE, !.update = FALSE], n,
                         [save EXCEPT !.again = TRUE, !.full = FALSE])
           /\ UNCHANGED <<accept, unsaved, stuck>>
  <2>1. PICK j : j = [i EXCEPT !.valid = TRUE, !.update = FALSE]
    OBVIOUS
  <2>2. j \in InfoType /\ j.valid /\ j.blk = i.blk /\ j.slot = i.slot
    BY <2>1 DEF InfoType
  <2>3. PICK s : s = [save EXCEPT !.again = TRUE, !.full = FALSE]
    OBVIOUS
  <2>4. s.n = n
    BY <1>0, <1>1, <2>3 DEF SaveType
  <2>5. WriteAgain(j, n, s)
    BY <1>6, <2>1, <2>3
  <2>6. /\ info'[n].valid /\ info'[n].blk = i.blk /\ info'[n].slot = i.slot /\ save' = s /\ pc' = "getblk"
        /\ \A m \in Name \ {n} : info'[m] = info[m]
    BY <2>2, <2>5, AgainTo
  <2>7. EntryInv'
    BY <1>0, <1>1, <1>6, <2>4, <2>6 DEF EntryInv, Saving
  <2>8. EnvInv'
    BY <1>5, <1>6, <2>6
  <2>9. AgainInv'
    BY <1>0, <1>3, <1>4, <1>6, <2>4, <2>6 DEF AgainInv, This
  <2>10. ProgInv' /\ DoneInv'
    BY <2>6 DEF ProgInv, DoneInv
  <2>11. ReadInv'
    BY <1>0, <1>1, <1>6, <2>6, ReadLater
  <2> QED BY <2>7, <2>8, <2>9, <2>10, <2>11 DEF DataNow
<1>7. CASE /\ Return(TRUE, [i EXCEPT !.valid = TRUE]) /\ (FullBlk(n) \/ save.again)
           /\ accept' = [accept EXCEPT ![n] = {save.val}] /\ unsaved' = unsaved \ {n}
  <2>1. PICK j : j = [i EXCEPT !.valid = TRUE]
    OBVIOUS
  <2>2. j \in InfoType /\ j.valid /\ j.blk = i.blk /\ j.slot = i.slot
    BY <2>1 DEF InfoType
  <2>3. /\ info'[n].valid /\ info'[n].blk = i.blk /\ info'[n].slot = i.slot
        /\ pc' \in {"fixcfg", "dead", "fixenv", "relocate", "ready"}
        /\ \A m \in Name \ {n} : info'[m] = info[m]
    BY <1>0, <1>1, <1>7, <2>1, <2>2, ReturnTo
  <2>4. stuck' = stuck
    BY <1>7 DEF Return
  <2>5. EntryInv'
    BY <1>0, <2>3 DEF EntryInv, Saving
  <2>6. EnvInv'
    BY <1>5, <2>3, <2>4
  <2>7. AgainInv' /\ ProgInv' /\ DoneInv'
    BY <2>3 DEF AgainInv, ProgInv, DoneInv
  <2>8. ReadInv'
    <3>1. CASE n = "nenv"
      <4> SUFFICES ASSUME "nenv" \notin stuck PROVE ReadAt("nenv", Env)' \in accept'["nenv"]
        BY <2>4 DEF ReadInv
      <4>1. save.again
        BY <1>7, <3>1 DEF FullBlk
      <4>2. PICK r : r = TheRecord /\ r.name = n /\ r.val = save.val /\ r.len >= DataPages
        BY <1>0, <1>1, TheRecordOK, Areas
      <4>3. Value(n, r) = save.val
        BY <1>0, <1>1, <4>2, RecordReads
      <4>4. c[i.slot] = r
        BY <1>4, <3>1, <4>1, <4>2
      <4>5. ReadAt("nenv", Env)' = Value(n, r)
        BY <1>0, <1>3, <2>3, <3>1, <4>4 DEF ReadAt, Value, Env
      <4>6. accept'["nenv"] = {save.val}
        BY <1>7, <3>1 DEF TypeInv
      <4> QED BY <4>3, <4>5, <4>6
    <3>2. CASE n # "nenv"
      <4>1. Env' = Env /\ accept'["nenv"] = accept["nenv"] /\ "nenv" \in Name
        BY <1>7, <2>3, <3>2 DEF Env, TypeInv, Name
      <4>2. /\ "nenv" \in unsaved => "nenv" \in unsaved'
            /\ pc \notin {"off", "dead"} /\ ~(Saving /\ save.n = "nenv")
        BY <1>0, <1>1, <1>7, <3>2
      <4> QED BY <1>0, <2>4, <4>1, <4>2, ReadKept
    <3> QED BY <3>1, <3>2
  <2> QED BY <2>5, <2>6, <2>7, <2>8 DEF DataNow
<1> QED BY <1>1, <1>2, <1>6, <1>7 DEF Finish

LEMMA DataStart ==
  ASSUME TypeInv, PlaceInv, DataNow, Start
  PROVE  DataNow'
<1>0. /\ FlashOK /\ EntryInv /\ \A b \in Blk : Whole(flash[b])
      /\ UNCHANGED flash /\ pc' \in {"dead", "config"} /\ stuck' = {} /\ unsaved' = {}
      /\ accept' = [n \in Name |-> {AtStart(n)}] /\ "nenv" \in Name
  BY DEF Start, TypeInv, DataNow, EntryInv, Name
<1>1. PICK i : i = Scan("nenv")
  OBVIOUS
<1>2. /\ (i.valid => /\ Shape(flash[i.blk], "nenv", i.slot + 1)
                     /\ ~i.update => ErasedFrom(flash[i.blk], i.slot + 1))
      /\ i \in InfoType /\ \A n \in Name : ~Scan(n).valid => Scan(n).slot = 0
  BY <1>0, <1>1, ScanShape, ScanOutcome
<1>3. /\ Env' = IF pc' = "dead" THEN NoInfo ELSE i
      /\ info'["ncnf"] = Scan("ncnf") /\ "ncnf" \in Name
  BY <1>1 DEF Start, Env, Name
<1>4. \A n \in Name : ~info'[n].valid => info'[n].slot = 0
  <2>1. NoInfo.slot = 0
    BY DEF NoInfo
  <2> QED BY <1>1, <1>2, <1>3, <2>1 DEF Env, Name
<1>5. EntryInv'
  BY <1>0, <1>4 DEF EntryInv, Saving
<1>6. EnvInv'
  <2> SUFFICES ASSUME Env'.valid PROVE Roomy(flash, Env)'
    BY DEF EnvInv
  <2>1. Env' = i
    BY <1>3, Constants
  <2>2. i.slot \in Nat
    BY <1>2, Areas DEF InfoType
  <2>3. i.slot + 1 \in Nat /\ (i.slot + 1) + 1 = i.slot + 2
    BY <2>2
  <2>4. ~i.update => ErasedFrom(flash[i.blk], i.slot + 2)
    BY <1>2, <2>1, <2>3, ErasedLess
  <2> QED BY <1>0, <1>2, <2>1, <2>4 DEF Roomy
<1>7. AgainInv' /\ ProgInv' /\ DoneInv'
  BY <1>0 DEF AgainInv, ProgInv, DoneInv
<1>8. ReadInv'
  <2> SUFFICES ASSUME pc' # "dead" PROVE ReadAt("nenv", Env)' \in accept'["nenv"]
    BY DEF ReadInv
  <2>1. ReadAt("nenv", Env)' = ReadAt("nenv", i)
    BY <1>0, <1>3 DEF ReadAt
  <2> QED BY <1>0, <1>1, <2>1 DEF AtStart
<1> QED BY <1>5, <1>6, <1>7, <1>8 DEF DataNow

LEMMA DataRun ==
  ASSUME TypeInv, PlaceInv, DataNow, Config \/ FixConfig \/ FixEnv \/ Relocate \/ Saveenv
  PROVE  DataNow'
<1>0. /\ pc \in {"config", "fixcfg", "fixenv", "relocate", "ready"} /\ [Next]_vars
      /\ EntryInv /\ EnvInv /\ ReadInv /\ UNCHANGED <<flash, stuck>>
      /\ "ncnf" \in Name /\ "nenv" \in Name /\ info \in [Name -> InfoType]
      /\ accept \in [Name -> SUBSET Val]
  BY DEF Config, FixConfig, FixEnv, Relocate, Saveenv, DataNow, Name, TypeInv, Next, StartStep
<1>1. \/ /\ pc' \in {"fixcfg", "fixenv", "relocate", "ready"}
         /\ info' = info /\ accept' = accept /\ unsaved' = unsaved
      \/ \E n, v, then : n \in Name /\ SaveInfo(n, v, then)
  BY <1>0 DEF Config, FixConfig, FixEnv, Relocate, Saveenv
<1>2. CASE /\ pc' \in {"fixcfg", "fixenv", "relocate", "ready"}
           /\ info' = info /\ accept' = accept /\ unsaved' = unsaved
  <2>1. Env' = Env
    BY <1>2 DEF Env
  <2>2. EnvInv'
    BY <1>0, <2>1, EnvKept DEF Moving
  <2>3. ReadInv'
    <3>1. ~(Saving /\ save.n = "nenv") /\ pc \notin {"off", "dead"}
      BY <1>0 DEF Saving
    <3> QED BY <1>0, <1>2, <2>1, <3>1, ReadKept
  <2>4. EntryInv' /\ AgainInv' /\ ProgInv' /\ DoneInv'
    BY <1>0, <1>2 DEF EntryInv, Saving, AgainInv, ProgInv, DoneInv
  <2> QED BY <2>2, <2>3, <2>4 DEF DataNow
<1>3. ASSUME NEW n \in Name, NEW v, NEW then, SaveInfo(n, v, then) PROVE DataNow'
  <2>1. PICK s : s = [NoSave EXCEPT !.n = n, !.val = v, !.then = then]
    OBVIOUS
  <2>2. s.n = n /\ ~s.again
    BY <2>1 DEF NoSave
  <2>3. /\ WriteAgain(info[n], n, s) /\ accept' = [accept EXCEPT ![n] = @ \union {v}]
        /\ unsaved' = unsaved \union {n}
    BY <1>3, <2>1 DEF SaveInfo
  <2>4. /\ save' = s /\ pc' = "getblk" /\ \A m \in Name \ {n} : info'[m] = info[m]
        /\ info'[n].valid = info[n].valid /\ info'[n].blk = info[n].blk
        /\ info'[n].slot = info[n].slot /\ info'[n].update = info[n].update
    BY <1>0, <2>3, AgainTo
  <2>5. \A m \in Name : /\ info'[m].valid = info[m].valid /\ info'[m].blk = info[m].blk
                        /\ info'[m].slot = info[m].slot /\ info'[m].update = info[m].update
    BY <2>4
  <2>6. EntryInv'
    BY <1>0, <2>2, <2>3, <2>4, <2>5 DEF EntryInv, Saving
  <2>7. EnvInv'
    <3>1. /\ Env'.valid = Env.valid /\ Env'.blk = Env.blk /\ Env'.slot = Env.slot
          /\ Env'.update = Env.update
      BY <1>0, <2>5 DEF Env
    <3>2. ~Moving(Env.blk) /\ flash' = flash
      BY <1>0 DEF Moving
    <3> QED BY <1>0, <3>1, <3>2, EnvKept
  <2>8. AgainInv' /\ ProgInv' /\ DoneInv'
    BY <2>2, <2>4 DEF AgainInv, ProgInv, DoneInv
  <2>9. ReadInv'
    <3>1. CASE n = "nenv"
      BY <2>3, <3>1 DEF ReadInv
    <3>2. CASE n # "nenv"
      <4>1. Env' = Env /\ accept'["nenv"] = accept["nenv"] /\ ("nenv" \in unsaved => "nenv" \in unsaved')
        BY <1>0, <2>3, <2>4, <3>2 DEF Env
      <4>2. ~(Saving /\ save.n = "nenv") /\ pc \notin {"off", "dead"}
        BY <1>0 DEF Saving
      <4> QED BY <1>0, <4>1, <4>2, ReadKept
    <3> QED BY <3>1, <3>2
  <2> QED BY <2>6, <2>7, <2>8, <2>9 DEF DataNow
<1> QED BY <1>1, <1>2, <1>3

LEMMA DataCrash ==
  ASSUME TypeInv, PlaceInv, DataNow, Crash
  PROVE  DataNow'
<1>0. /\ EntryInv /\ pc' = "off" /\ info' = [n \in Name |-> NoInfo] /\ flash \in FlashType
  BY DEF Crash, DataNow, TypeInv, FlashOK, FlashType
<1>1. \A n \in Name : ~info'[n].valid /\ info'[n].slot = 0
  BY <1>0 DEF NoInfo
<1>2. PICK g : g = flash'
  OBVIOUS
<1>3. \A x \in Blk : Whole(g[x])
  <2>1. CASE g = flash
    BY <1>0, <2>1 DEF EntryInv
  <2>2. CASE pc = "write" /\ g = [flash EXCEPT ![save.blk][save.slot] = Spoil(@, save.k)]
    <3>0. save.blk \in Blk /\ save.slot \in Slot
      BY <2>2 DEF TypeInv, PointOK, SaveType
    <3>1. PICK p : p = Spoil(flash[save.blk][save.slot], save.k)
      OBVIOUS
    <3>2. p = Torn \/ p.name = save.n
      BY <2>2, <3>1, SlotAfter
    <3>3. g = Put(p)
      BY <1>0, <2>2, <3>0, <3>1 DEF Put, FlashType
    <3> QED BY <2>2, <3>2, <3>3, PutWhole
  <2>3. ASSUME NEW b \in Blk, NEW c, Whole(c), g = [flash EXCEPT ![b] = c]
        PROVE  \A x \in Blk : Whole(g[x])
    BY <1>0, <2>3 DEF EntryInv, FlashType
  <2>4. CASE pc \in {"erase", "test"} /\ g = [flash EXCEPT ![save.blk] = Unusable]
    <3>1. Saving /\ save.blk \in Blk /\ TRUE \in BOOLEAN
      BY <2>4 DEF Saving, TypeInv, PointOK
    <3>2. Whole(Unusable)
      BY <3>1, LostWhole
    <3> QED BY <2>3, <2>4, <3>1, <3>2
  <2>5. CASE pc \in {"eraseold", "testold"} /\ g = [flash EXCEPT ![save.old] = Unusable]
    <3>1. Saving /\ save.old \in Blk /\ TRUE \in BOOLEAN
      BY <2>5 DEF Saving, TypeInv, PointOK
    <3>2. Whole(Unusable)
      BY <3>1, LostWhole
    <3> QED BY <2>3, <2>5, <3>1, <3>2
  <2>6. ASSUME pc \in {"test", "testold"}, NEW b \in Blk, g \in TestLeft(b)
        PROVE  \A x \in Blk : Whole(g[x])
    <3>1. Saving
      BY <2>6 DEF Saving
    <3>2. CASE g # flash
      <4>1. PICK all \in BOOLEAN : g = [flash EXCEPT ![b] = Filled(all)]
        BY <2>6, <3>2 DEF TestLeft
      <4>2. Whole(Filled(all))
        BY <3>1, LostWhole
      <4> QED BY <2>3, <4>1, <4>2
    <3> QED BY <2>1, <3>2
  <2>7. /\ pc = "test" => save.blk \in Blk
        /\ pc = "testold" => save.old \in Blk
    BY DEF Saving, TypeInv, PointOK
  <2> QED BY <1>2, <2>1, <2>2, <2>4, <2>5, <2>6, <2>7 DEF Crash
<1>4. EntryInv'
  BY <1>0, <1>1, <1>2, <1>3 DEF EntryInv, Saving
<1>5. EnvInv'
  BY <1>1 DEF EnvInv, Env, Name
<1>6. AgainInv' /\ ProgInv' /\ DoneInv' /\ ReadInv'
  BY <1>0 DEF AgainInv, ProgInv, DoneInv, ReadInv
<1> QED BY <1>4, <1>5, <1>6 DEF DataNow

LEMMA DataInit == Init => DataInv
<1> SUFFICES ASSUME Init PROVE DataNow
  BY DEF DataInv
<1>1. /\ pc = "off" /\ flash = [b \in Blk |-> IF b = bbt THEN Table ELSE Blank]
      /\ info = [n \in Name |-> NoInfo]
  BY DEF Init
<1>2. \A n \in Name : ~info[n].valid /\ info[n].slot = 0
  BY <1>1 DEF NoInfo
<1>3. \A b \in Blk : Whole(flash[b])
  <2>1. "nenv" \in Name
    BY DEF Name
  <2>2. Whole(Blank) /\ Whole(Table)
    BY <2>1, BlankShape, TableNone DEF Whole
  <2> QED BY <1>1, <2>2
<1>4. EntryInv /\ EnvInv
  BY <1>1, <1>2, <1>3 DEF EntryInv, Saving, EnvInv, Env, Name
<1>5. AgainInv /\ ProgInv /\ DoneInv /\ ReadInv
  BY <1>1 DEF AgainInv, ProgInv, DoneInv, ReadInv
<1> QED BY <1>4, <1>5 DEF DataNow

\* A block that was marked bad stays marked.
LEMMA BadStays == [Next]_vars /\ bad' = {} => bad = {}
<1> SUFFICES ASSUME [Next]_vars, bad' = {} PROVE bad = {}
  OBVIOUS
<1>1. CASE UNCHANGED vars
  BY <1>1 DEF vars
<1>2. CASE SaveStep
  <2>1. ~(EraseFreeFails \/ TestFails \/ TestOldFails \/ MarkOldFails)
    BY DEF EraseFreeFails, TestFails, TestOldFails, MarkOldFails, MarkBad
  <2> QED BY <1>2, <2>1 DEF SaveStep, GetBlk, EraseFree, WritePage, WriteFails, TestPasses, Commit,
                            EraseOld, EraseOldFails, TestOldPasses, Finish
<1>3. CASE StartStep \/ Saveenv \/ Crash
  BY <1>3 DEF StartStep, Start, Config, FixConfig, FixEnv, Relocate, Saveenv, Crash
<1> QED BY <1>1, <1>2, <1>3 DEF Next, Rest

LEMMA DataStep == TypeInv /\ PlaceInv /\ DataInv /\ [Next]_vars => DataInv'
<1> SUFFICES ASSUME TypeInv, PlaceInv, DataInv, [Next]_vars, bad' = {} PROVE DataNow'
  BY DEF DataInv
<1>0. bad = {} /\ DataNow
  BY BadStays DEF DataInv
<1>1. CASE UNCHANGED vars
  <2>1. UNCHANGED <<flash, bad, info, save, pc, accept, unsaved, stuck>>
    BY <1>1 DEF vars, ram, history
  <2> QED BY <1>0, <2>1 DEF DataNow, EntryInv, EnvInv, Env, Moving, Roomy, AgainInv, ProgInv, Slotted,
             Clear, Appends, Unsure, DoneInv, ReadInv, ReadAt, Saving, This, TheRecord, SameBlk
<1>2. CASE SaveStep
  <2>1. ~(EraseFreeFails \/ TestFails \/ TestOldFails \/ MarkOldFails)
    BY DEF EraseFreeFails, TestFails, TestOldFails, MarkOldFails, MarkBad
  <2> QED BY <1>0, <1>2, <2>1, DataGetBlk, DataErase, DataWrite, DataWriteFails, DataTest, DataCommit,
             DataEraseOld, DataFinish DEF SaveStep
<1>3. CASE StartStep \/ Saveenv
  BY <1>0, <1>3, DataStart, DataRun DEF StartStep
<1>4. CASE Crash
  BY <1>0, <1>4, DataCrash
<1> QED BY <1>1, <1>2, <1>3, <1>4 DEF Next, Rest

\* The environment that aml_nand_update_ubootenv() saved with success, or that
\* the start found, is what amlnand_read_info_by_name() returns, although page
\* writes failed and blocks were tested on the way: as long as no block was
\* marked bad and no move off an unreadable page failed.
THEOREM EnvReadsBack == Spec => []ReadsBack
<1>1. DataInv => ReadsBack
  BY DEF DataInv, DataNow, ReadInv, ReadsBack, Env
<1> QED BY <1>1, InfoTypeInv, BlocksAreOwn, DataInit, DataStep, PTL DEF Spec
====
