------------------------------ MODULE AmlInfo ------------------------------
(***************************************************************************)
(* The store of the Amlogic NAND driver for its own data: the bad block    *)
(* table, the configuration, the keys and, on the boards of this           *)
(* repository, the U-Boot environment (drivers/amlnf/phy/chipenv.c,        *)
(* dev/amlnf_env.c, common/env_amlnf.c).                                   *)
(*                                                                         *)
(* A few blocks of the flash are reserved for it.  An item is a record of  *)
(* several pages, each with the item's name and a timestamp in its spare   *)
(* area.  A FULL_PAGE item (the environment) is appended to its block,     *)
(* twice per save, until the block is full and a new one is taken; a       *)
(* FULL_BLK item (the configuration) fills a new block with copies.  The   *)
(* place of the valid record is kept in memory only and is found again by  *)
(* a scan at every start.                                                  *)
(*                                                                         *)
(* Modelled are one item of each kind, at the grain of the operations of   *)
(* the flash: power can go before, in and after each page write and each   *)
(* erase.  The bad block table, a third item, is saved only while a block  *)
(* is being marked bad, within the save of another one: that inner save is *)
(* one step here, with the block it takes and the one it leaves.           *)
(***************************************************************************)
EXTENDS Integers, FiniteSets, FiniteSetsExt

CONSTANTS
  NBlk,        \* blocks of the reserved area (none left the factory bad)
  Slots,       \* records that fit into a block (pages_read \div arg_pages)
  DataPages,   \* pages of a record that are read back (size \div pagesize)
  TsSize,      \* range of the timestamp (2^16 in the code)
  MaxTest,     \* tests of a block in one save (3 in the code)
  MaxSaves,    \* bound: saveenv commands
  MaxCrashes,  \* bound: losses of power
  MaxFaults,   \* bound: operations of the flash that fail
  MaxTroubles  \* bound: both together

Blk      == 1 .. NBlk
RecPages == DataPages + 1        \* arg_pages: sizes are multiples of the page
Slot     == 0 .. Slots - 1

ASSUME InfoAssumption ==
  /\ NBlk \in Nat /\ NBlk >= 3
  /\ Slots \in Nat \ {0} /\ DataPages \in Nat \ {0} /\ TsSize \in Nat \ {0}
  /\ MaxTest \in Nat
  /\ MaxSaves \in Nat /\ MaxCrashes \in Nat /\ MaxFaults \in Nat /\ MaxTroubles \in Nat

Name   == {"ncnf", "nenv"}
FullBlk(n) == n = "ncnf"         \* amlnand_set_config_attribute()

\* What a record holds: an environment (they are numbered by the saves), the
\* default one, the configuration, a test pattern.  Absent and Bad are what a
\* start can find besides.
Default == 0
Cfg     == -1
Pattern == -2
Bad     == -3
Absent  == -4

\* A slot holds the first len pages of a record; ruined says that the page
\* after them is unreadable (an uncorrectable ECC error) rather than erased.
Erased == [name |-> "none", ts |-> 0, val |-> Absent, len |-> 0, ruined |-> FALSE]
Torn   == [Erased EXCEPT !.ruined = TRUE]

VARIABLES
  flash,      \* the slots of the blocks
  bad,        \* blocks that the bad block table calls bad
  bbt,        \* the block that holds the bad block table
  info,       \* nand_arg_info of each item
  reserved,   \* reserved_blk[]
  pc,         \* where the driver is
  save,       \* the locals of amlnand_save_info_by_name()
  env,        \* the environment in use
  accept,     \* history: what each item may read as after a start
  torn,       \* history: items whose record was cut off by a loss of power
  wfail,      \* history: a write or the erase of an old block failed, or no block was free
  unsaved,    \* history: items whose last save since the start has not succeeded
  stuck,      \* history: items that could not be moved off an unreadable page
  saves, crashes, faults

ram      == <<info, reserved, save, env>>
history  == <<accept, unsaved, stuck, torn, wfail>>
counters == <<saves, crashes, faults>>
vars     == <<flash, bad, bbt, ram, pc, history, counters>>

NoInfo == [valid |-> FALSE, blk |-> 0, slot |-> 0, ts |-> 0, update |-> FALSE]
NoSave == [n |-> "none", val |-> Absent, blk |-> 0, skip |-> 0, slot |-> 0, k |-> 0, old |-> 0,
           full |-> FALSE, again |-> FALSE, tests |-> 0, then |-> "ready"]

(***************************************************************************)
(* amlnand_check_info_by_name(): the scan.  The first page of a record is  *)
(* read; an unreadable one is passed over, and the first readable one      *)
(* tells whether the block is the item's.  Of several blocks the one with  *)
(* the largest timestamp counts (FULL_PAGE) or the first (FULL_BLK).       *)
(***************************************************************************)
Readable(b) == {s \in Slot : flash[b][s] # Torn}
\* The record that tells whose block it is.
Head(b)     == IF Readable(b) = {} THEN Torn ELSE flash[b][Min(Readable(b))]
Found(n)    == {b \in Blk \ bad : Head(b).name = n}

ValidBlk(n, found) ==
  IF FullBlk(n) THEN Min(found)
  ELSE Min({b \in found : \A c \in found : Head(b).ts >= Head(c).ts})

\* In the block: the records up to the first page of something else, the
\* last one (FULL_PAGE) or the first one (FULL_BLK) of them.
\* Mutant: of the copies of a FULL_BLK item, too, the last one is taken.
ScanLast(n) ==
  LET found == Found(n)
      b     == ValidBlk(n, found)
      stop  == {s \in Readable(b) : flash[b][s].name # n}
      end   == IF stop = {} THEN Slots ELSE Min(stop)
      list  == {s \in Readable(b) : flash[b][s].name = n}
      s     == Max({t \in list : t < end})
  IN IF found = {} THEN NoInfo
     ELSE [valid |-> TRUE, blk |-> b, slot |-> s, ts |-> flash[b][s].ts,
           update |-> \E t \in Slot \ Readable(b) : t < end]

Scan(n) ==
  LET found == Found(n)
      b     == ValidBlk(n, found)
      stop  == {s \in Readable(b) : flash[b][s].name # n}
      end   == IF stop = {} THEN Slots ELSE Min(stop)
      list  == {s \in Readable(b) : flash[b][s].name = n}
      s     == IF FullBlk(n) THEN Min(list) ELSE Max({t \in list : t < end})
  IN IF found = {} THEN NoInfo
     ELSE [valid |-> TRUE, blk |-> b, slot |-> s, ts |-> flash[b][s].ts,
           \* An unreadable page was met: the item should move.
           update |-> \E t \in Slot \ Readable(b) : t < IF FullBlk(n) THEN s ELSE end]

(***************************************************************************)
(* amlnand_read_info_by_name() at a place, followed by the check of the    *)
(* checksum: anything but the pages of one record reads as Bad.            *)
(***************************************************************************)
ReadAt(n, i) ==
  LET q == flash[i.blk][i.slot]
  IN IF ~i.valid THEN Absent
     ELSE IF q.name = n /\ q.len >= DataPages /\ q.val # Pattern THEN q.val ELSE Bad

\* What a start from the present contents of the flash reads.
AtStart(n) == ReadAt(n, Scan(n))

(***************************************************************************)
(* The flash.                                                              *)
(***************************************************************************)
Blank    == [s \in Slot |-> Erased]
Unusable == [s \in Slot |-> Torn]

\* Page k of a slot is spoilt.
Spoil(q, k) == IF k = 0 THEN Torn
               ELSE [q EXCEPT !.len = IF @ < k THEN @ ELSE k, !.ruined = TRUE]
\* The pages of a record are programmed in their order; a page that is not
\* erased is spoilt by it.
Program(q, k, r) ==
  IF q.ruined \/ q.len # k THEN Spoil(q, k) ELSE [r EXCEPT !.len = k + 1]
EraseBlk(b) == flash' = [flash EXCEPT ![b] = Blank]

\* Pages without an item's name: copies of the bad block table fill its block;
\* block_markbad() writes one page of zeros.
Table      == [s \in Slot |-> [Erased EXCEPT !.len = RecPages]]
Zeroed(ok) == [Blank EXCEPT ![0] = IF ok THEN [Erased EXCEPT !.len = 1] ELSE Torn]

Fault == /\ faults < MaxFaults /\ crashes + faults < MaxTroubles
         /\ faults' = faults + 1

TheRecord == [name |-> save.n, ts |-> info[save.n].ts, val |-> save.val,
              len |-> RecPages, ruined |-> FALSE]

(***************************************************************************)
(* amlnand_save_info_by_name().                                            *)
(***************************************************************************)
\* label write_again:, which begins the call (again = FALSE) and the second
\* copy.
WriteAgain(i, n, s) ==
  /\ info' = [info EXCEPT ![n] = [i EXCEPT !.ts = (@ + 1) % TsSize]]
  /\ save' = s
  /\ pc' = "getblk"

SaveInfo(n, v, then) ==
  /\ WriteAgain(info[n], n, [NoSave EXCEPT !.n = n, !.val = v, !.then = then])
  /\ accept' = [accept EXCEPT ![n] = @ \union {v}]
  /\ unsaved' = unsaved \union {n}

\* The call returns to its caller: amlnand_get_dev_configs(),
\* amlnand_info_error_handle(), aml_nand_update_ubootenv() or saveenv().
Return(ok, i) ==
  /\ pc' = CASE save.then = "config" -> IF ok THEN "fixcfg" ELSE "dead"
             [] save.then = "fixcfg" -> IF ok THEN "fixenv" ELSE "relocate"
             [] save.then = "fixenv" -> "relocate"
             [] OTHER                -> "ready"
  /\ info' = [info EXCEPT ![save.n] =
                [i EXCEPT !.update = @ /\ save.then \notin {"fixcfg", "fixenv"}]]
  /\ save' = NoSave
  \* The flag is cleared even if the move failed.
  /\ stuck' = stuck \union {n \in {save.n} : ~ok /\ i.update
                                            /\ save.then \in {"fixcfg", "fixenv"}}

\* label get_free_blk:.  Mutant: a full block is not noticed.
SameBlkAlways(i) == i.valid /\ ~i.update /\ ~FullBlk(save.n)
SameBlk(i) == i.valid /\ ~i.update /\ ~FullBlk(save.n) /\ i.slot + 2 <= Slots

\* amlnand_get_free_block(): blocks that are in use and the one that has just
\* failed are left out; blocks marked bad are not.
\* Mutant: the blocks in use are not left out.
FreeBlksAny(used, skip) == Blk \ {skip}
FreeBlks(used, skip) == Blk \ (used \union {skip})

GetBlk ==
  /\ pc = "getblk"
  /\ LET i == info[save.n] IN
     \/ /\ SameBlk(i)
        /\ save' = [save EXCEPT !.blk = i.blk, !.slot = i.slot + 1, !.k = 0]
        /\ pc' = "write"
        /\ UNCHANGED <<info, wfail, stuck, torn>>
     \/ /\ ~SameBlk(i) /\ FreeBlks(reserved, save.blk) # {}
        /\ save' = [save EXCEPT !.blk = Min(FreeBlks(reserved, save.blk)), !.skip = save.blk,
                                !.slot = 0, !.k = 0,
                                !.full = i.valid /\ ~i.update /\ ~FullBlk(save.n)]
        /\ pc' = "erase"
        /\ UNCHANGED <<info, wfail, stuck, torn>>
     \/ /\ ~SameBlk(i) /\ FreeBlks(reserved, save.blk) = {}
        /\ Return(FALSE, i)
        /\ wfail' = TRUE
        /\ UNCHANGED torn
  /\ UNCHANGED <<flash, bad, bbt, reserved, env, accept, unsaved, counters>>

(***************************************************************************)
(* block_markbad(), f being what the failed operation left on the flash.   *)
(* A block that is marked already is left at that.  Else the table is      *)
(* saved (amlnand_update_bbt(), a FULL_BLK item): it moves to the first    *)
(* free block, which can be the one just marked, or, if the erase of that  *)
(* one fails once more, to the next.  Then the page of zeros is written    *)
(* (or not: ok) to the address that this save has left in ops_para, the    *)
(* first page of the table's old block.  Without a free block nothing of   *)
(* this happens within the area.                                           *)
(***************************************************************************)
TableBlks(b) == LET free == FreeBlks(reserved, 0)
                IN {Min(F) : F \in {free, free \ {b}} \ {{}}}

\* The caller then releases the blocks of done.
MarkBad(b, f, ok, done) ==
  /\ bad' = bad \union {b}
  /\ \/ /\ b \in bad \/ TableBlks(b) = {}
        /\ flash' = f
        /\ reserved' = reserved \ done
        /\ UNCHANGED bbt
     \/ /\ b \notin bad
        /\ \E c \in TableBlks(b) :
             /\ flash' = [f EXCEPT ![c] = Table, ![bbt] = Zeroed(ok)]
             /\ bbt' = c
             /\ reserved' = (reserved \union {c}) \ ({bbt} \union done)

EraseFree ==
  /\ pc = "erase"
  /\ EraseBlk(save.blk)
  /\ pc' = "write"
  /\ UNCHANGED <<bad, bbt, ram, history, counters>>

\* The erase fails: the block is marked bad and the next one is tried.
EraseFreeFails ==
  /\ pc = "erase"
  /\ Fault
  /\ \E ok \in BOOLEAN : MarkBad(save.blk, flash, ok, {})
  /\ LET next == {b \in FreeBlks(reserved', save.skip) : b > save.blk} IN
     \/ next # {} /\ save' = [save EXCEPT !.blk = Min(next)]
                  /\ UNCHANGED <<pc, info, stuck, wfail>>
     \/ next = {} /\ Return(FALSE, info[save.n]) /\ wfail' = TRUE
  /\ UNCHANGED <<env, accept, unsaved, torn, saves, crashes>>

WritePage ==
  /\ pc = "write"
  /\ flash' = [flash EXCEPT ![save.blk][save.slot] = Program(@, save.k, TheRecord)]
  /\ \/ /\ save.k + 1 < RecPages
        /\ save' = [save EXCEPT !.k = @ + 1]
        /\ UNCHANGED pc
     \/ /\ save.k + 1 = RecPages /\ FullBlk(save.n) /\ save.slot + 1 < Slots
        /\ save' = [save EXCEPT !.k = 0, !.slot = @ + 1]
        /\ UNCHANGED pc
     \/ /\ save.k + 1 = RecPages /\ ~(FullBlk(save.n) /\ save.slot + 1 < Slots)
        /\ pc' = "commit"
        /\ UNCHANGED save
  /\ UNCHANGED <<bad, bbt, info, reserved, env, history, counters>>

\* Mutant: the tests of a save are not counted.
WriteFailsForever ==
  /\ pc = "write"
  /\ Fault
  /\ flash' = [flash EXCEPT ![save.blk][save.slot] = Spoil(@, save.k)]
  /\ wfail' = TRUE
  /\ pc' = "test"
  /\ UNCHANGED <<bad, bbt, ram, accept, unsaved, stuck, torn, saves, crashes>>

\* "nand write failed": three times the block is tested and the write is
\* tried again.
WriteFails ==
  /\ pc = "write"
  /\ Fault
  /\ flash' = [flash EXCEPT ![save.blk][save.slot] = Spoil(@, save.k)]
  /\ wfail' = TRUE
  /\ \/ /\ save.tests >= MaxTest
        /\ Return(FALSE, info[save.n])
     \/ /\ save.tests < MaxTest
        /\ save' = [save EXCEPT !.tests = @ + 1]
        /\ pc' = "test"
        /\ UNCHANGED <<info, stuck>>
  /\ UNCHANGED <<bad, bbt, reserved, env, accept, unsaved, torn, saves, crashes>>

\* test_block_reserved() erases the block, fills it with a pattern, under the
\* item's name in the spare area, reads it and erases it again.
Filled(all) == [s \in Slot |-> IF all THEN [TheRecord EXCEPT !.val = Pattern]
                               ELSE IF s = 0 THEN [TheRecord EXCEPT !.val = Pattern, !.len = 1]
                               ELSE Erased]

TestPasses ==
  /\ pc = "test"
  /\ EraseBlk(save.blk)
  /\ pc' = "getblk"
  /\ UNCHANGED <<bad, bbt, ram, history, counters>>

\* What a test of block b that fails leaves: nothing changed, or the pattern.
TestLeft(b) == {flash} \union {[flash EXCEPT ![b] = Filled(all)] : all \in BOOLEAN}

TestFails ==
  /\ pc = "test"
  /\ Fault
  /\ \E f \in TestLeft(save.blk), ok \in BOOLEAN : MarkBad(save.blk, f, ok, {})
  /\ pc' = "getblk"
  /\ UNCHANGED <<info, save, env, history, saves, crashes>>

\* The record is written: the tables in memory follow.
MovesTo(i) == ~i.valid \/ FullBlk(save.n) \/ save.full \/ i.update

\* Mutant: the new block is not entered into reserved_blk[].
CommitUnreserved ==
  /\ pc = "commit"
  /\ LET i == info[save.n] IN
     /\ info' = [info EXCEPT ![save.n] =
          [i EXCEPT !.blk = save.blk,
                    !.slot = IF ~i.valid THEN @ ELSE IF MovesTo(i) THEN 0 ELSE @ + 1]]
     /\ save' = [save EXCEPT !.old = IF i.valid /\ MovesTo(i) THEN i.blk ELSE 0]
     /\ pc' = IF i.valid /\ MovesTo(i) THEN "eraseold" ELSE "finish"
  /\ UNCHANGED <<flash, bad, bbt, reserved, env, history, counters>>

\* Mutant: the page of the record is not reset when it moves to a new block.
CommitKeepsPage ==
  /\ pc = "commit"
  /\ LET i == info[save.n] IN
     /\ reserved' = IF MovesTo(i) THEN reserved \union {save.blk} ELSE reserved
     /\ info' = [info EXCEPT ![save.n] =
          [i EXCEPT !.blk = save.blk,
                    !.slot = IF ~i.valid \/ MovesTo(i) THEN @ ELSE @ + 1]]
     /\ save' = [save EXCEPT !.old = IF i.valid /\ MovesTo(i) THEN i.blk ELSE 0]
     /\ pc' = IF i.valid /\ MovesTo(i) THEN "eraseold" ELSE "finish"
  /\ UNCHANGED <<flash, bad, bbt, env, history, counters>>

Commit ==
  /\ pc = "commit"
  /\ LET i == info[save.n] IN
     /\ reserved' = IF MovesTo(i) THEN reserved \union {save.blk} ELSE reserved
     /\ info' = [info EXCEPT ![save.n] =
          [i EXCEPT !.blk = save.blk,
                    !.slot = IF ~i.valid THEN @ ELSE IF MovesTo(i) THEN 0 ELSE @ + 1]]
     /\ save' = [save EXCEPT !.old = IF i.valid /\ MovesTo(i) THEN i.blk ELSE 0]
     /\ pc' = IF i.valid /\ MovesTo(i) THEN "eraseold" ELSE "finish"
  /\ UNCHANGED <<flash, bad, bbt, env, history, counters>>

EraseOld ==
  /\ pc = "eraseold"
  /\ EraseBlk(save.old)
  /\ reserved' = reserved \ {save.old}
  /\ pc' = "finish"
  /\ UNCHANGED <<bad, bbt, info, save, env, history, counters>>

\* The erase fails: the old block is tested, which may erase it after all.
EraseOldFails ==
  /\ pc = "eraseold"
  /\ Fault
  /\ wfail' = TRUE
  /\ pc' = "testold"
  /\ UNCHANGED <<flash, bad, bbt, ram, accept, unsaved, stuck, torn, saves, crashes>>

TestOldPasses ==
  /\ pc = "testold"
  /\ EraseBlk(save.old)
  /\ reserved' = reserved \ {save.old}
  /\ pc' = "finish"
  /\ UNCHANGED <<bad, bbt, info, save, env, history, counters>>

\* It is marked bad and no longer in use.
TestOldFails ==
  /\ pc = "testold"
  /\ Fault
  /\ \E f \in TestLeft(save.old) : MarkBad(save.old, f, TRUE, {save.old})
  /\ pc' = "finish"
  /\ UNCHANGED <<info, save, env, history, saves, crashes>>

\* ... unless the page of zeros cannot be written: the call then returns with
\* the old block still in reserved_blk[].
MarkOldFails ==
  /\ pc = "testold" /\ save.old \notin bad
  /\ Fault
  /\ \E f \in TestLeft(save.old) : MarkBad(save.old, f, FALSE, {})
  /\ Return(FALSE, info[save.n])
  /\ UNCHANGED <<env, accept, unsaved, torn, wfail, saves, crashes>>

\* A FULL_PAGE item gets its second copy; then the call is over.
Finish ==
  /\ pc = "finish"
  /\ LET i == info[save.n] IN
     \/ /\ ~FullBlk(save.n) /\ ~save.again
        /\ WriteAgain([i EXCEPT !.valid = TRUE, !.update = FALSE], save.n,
                      [save EXCEPT !.again = TRUE, !.full = FALSE])
        /\ UNCHANGED <<accept, unsaved, stuck, torn>>
     \/ /\ FullBlk(save.n) \/ save.again
        /\ Return(TRUE, [i EXCEPT !.valid = TRUE])
        /\ accept' = [accept EXCEPT ![save.n] = {save.val}]
        /\ torn' = torn \ {save.n}
        /\ unsaved' = unsaved \ {save.n}
  /\ UNCHANGED <<flash, bad, bbt, reserved, env, wfail, counters>>

(***************************************************************************)
(* The start: amlnand_get_dev_configs() with a valid bad block table, then *)
(* env_relocate_spec().                                                    *)
(***************************************************************************)
Start ==
  /\ pc = "off"
  /\ LET cnf  == Scan("ncnf")
         dead == ReadAt("ncnf", cnf) = Bad
         nenv == IF dead THEN NoInfo ELSE Scan("nenv")
     IN /\ info' = [n \in Name |-> IF n = "ncnf" THEN cnf ELSE nenv]
        /\ reserved' = {bbt} \union {i.blk : i \in {j \in {cnf, nenv} : j.valid}}
        /\ pc' = IF dead THEN "dead" ELSE "config"
  /\ accept' = [n \in Name |-> {AtStart(n)}] /\ unsaved' = {} /\ stuck' = {}
  /\ UNCHANGED <<flash, bad, bbt, save, env, torn, wfail, counters>>

\* "if no config, just save"
Config ==
  /\ pc = "config"
  /\ \/ /\ ~info["ncnf"].valid
        /\ SaveInfo("ncnf", Cfg, "config")
     \/ /\ info["ncnf"].valid
        /\ pc' = "fixcfg"
        /\ UNCHANGED <<info, save, accept, unsaved>>
  /\ UNCHANGED <<flash, bad, bbt, reserved, env, stuck, torn, wfail, counters>>

\* amlnand_info_error_handle(): items with an unreadable page move.
FixConfig ==
  /\ pc = "fixcfg"
  /\ \/ /\ info["ncnf"].valid /\ info["ncnf"].update
        /\ SaveInfo("ncnf", ReadAt("ncnf", info["ncnf"]), "fixcfg")
     \/ /\ ~(info["ncnf"].valid /\ info["ncnf"].update)
        /\ pc' = "fixenv"
        /\ UNCHANGED <<info, save, accept, unsaved>>
  /\ UNCHANGED <<flash, bad, bbt, reserved, env, stuck, torn, wfail, counters>>

FixEnv ==
  /\ pc = "fixenv"
  /\ \/ /\ info["nenv"].valid /\ info["nenv"].update
        /\ SaveInfo("nenv", ReadAt("nenv", info["nenv"]), "fixenv")
     \/ /\ ~(info["nenv"].valid /\ info["nenv"].update)
        /\ pc' = "relocate"
        /\ UNCHANGED <<info, save, accept, unsaved>>
  /\ UNCHANGED <<flash, bad, bbt, reserved, env, stuck, torn, wfail, counters>>

\* env_relocate_spec(): without a good environment the default one is used,
\* and saved.
Relocate ==
  /\ pc = "relocate"
  /\ LET v == ReadAt("nenv", info["nenv"]) IN
     \/ /\ v \in {Bad, Absent}
        /\ env' = Default
        /\ SaveInfo("nenv", Default, "ready")
     \/ /\ v \notin {Bad, Absent}
        /\ env' = v
        /\ pc' = "ready"
        /\ UNCHANGED <<info, save, accept, unsaved>>
  /\ UNCHANGED <<flash, bad, bbt, reserved, stuck, torn, wfail, counters>>

\* The user changes the environment and saves it.
Saveenv ==
  /\ pc = "ready"
  /\ saves < MaxSaves
  /\ saves' = saves + 1
  /\ env' = saves'
  /\ SaveInfo("nenv", saves', "ready")
  /\ UNCHANGED <<flash, bad, bbt, reserved, stuck, torn, wfail, crashes, faults>>

(***************************************************************************)
(* Power is lost; what is under way is left in the middle.                 *)
(***************************************************************************)
\* The record of n on the flash has its first page, and not yet all the
\* pages that are read back.
HalfWritten(n) == /\ pc = "write" /\ save.n = n
                  /\ save.k \in 1 .. DataPages - 1
                  /\ FullBlk(n) => save.slot = 0

Crash ==
  /\ pc # "off"
  /\ crashes < MaxCrashes /\ crashes + faults < MaxTroubles
  /\ crashes' = crashes + 1
  /\ \/ UNCHANGED flash
     \/ pc = "write" /\ flash' = [flash EXCEPT ![save.blk][save.slot] = Spoil(@, save.k)]
     \/ pc \in {"erase", "test"} /\ flash' = [flash EXCEPT ![save.blk] = Unusable]
     \/ pc = "eraseold" /\ flash' = [flash EXCEPT ![save.old] = Unusable]
     \/ pc = "test" /\ flash' \in TestLeft(save.blk)
     \/ pc = "testold" /\ flash' \in TestLeft(save.old) \union {[flash EXCEPT ![save.old] = Unusable]}
  /\ torn' = torn \union {n \in Name : HalfWritten(n)}
  /\ info' = [n \in Name |-> NoInfo] /\ reserved' = {} /\ save' = NoSave
  /\ env' = Default
  /\ pc' = "off"
  /\ UNCHANGED <<bad, bbt, accept, unsaved, stuck, wfail, saves, faults>>

\* Nothing is left to do within the bounds.
Rest == /\ \/ pc = "ready" /\ saves = MaxSaves
           \/ pc = "dead"
        /\ crashes = MaxCrashes \/ crashes + faults = MaxTroubles
        /\ UNCHANGED vars

Init ==
  /\ bad = {} /\ bbt = 1
  /\ flash = [b \in Blk |-> IF b = bbt THEN Table ELSE Blank]
  /\ info = [n \in Name |-> NoInfo] /\ reserved = {} /\ save = NoSave
  /\ env = Default
  /\ pc = "off"
  /\ accept = [n \in Name |-> {Absent}] /\ torn = {} /\ wfail = FALSE /\ unsaved = {} /\ stuck = {}
  /\ saves = 0 /\ crashes = 0 /\ faults = 0

SaveStep  == \/ GetBlk \/ EraseFree \/ EraseFreeFails \/ WritePage \/ WriteFails
             \/ TestPasses \/ TestFails \/ Commit \/ EraseOld \/ EraseOldFails
             \/ TestOldPasses \/ TestOldFails \/ MarkOldFails \/ Finish
StartStep == Start \/ Config \/ FixConfig \/ FixEnv \/ Relocate

Next == SaveStep \/ StartStep \/ Saveenv \/ Crash \/ Rest

Spec == Init /\ [][Next]_vars

(***************************************************************************)
(* Properties.                                                             *)
(***************************************************************************)
Val == 1 .. MaxSaves \union {Default, Cfg, Pattern, Bad, Absent}

\* Types of the variables.
TypeOK ==
  /\ flash \in [Blk -> [Slot -> [name : Name \union {"none"}, ts : 0 .. TsSize - 1, val : Val,
                                 len : 0 .. RecPages, ruined : BOOLEAN]]]
  /\ bad \subseteq Blk /\ bbt \in Blk
  /\ info \in [Name -> [valid : BOOLEAN, blk : 0 .. NBlk, slot : Slot,
                        ts : 0 .. TsSize - 1, update : BOOLEAN]]
  /\ reserved \subseteq Blk
  /\ pc \in {"off", "dead", "config", "fixcfg", "fixenv", "relocate", "ready",
             "getblk", "erase", "write", "test", "commit", "eraseold", "testold", "finish"}
  /\ save.tests \in 0 .. MaxTest
  /\ torn \subseteq Name
  /\ env \in 0 .. MaxSaves

NoFlashFault == ~wfail /\ bad = {}

\* Whatever moment power is lost at, the next start finds each item as it was
\* last saved, or, if a save of it was under way, as it was before or as it
\* was to be; except that a record cut off between its first page and the last
\* page that is read back hides the copies before it.
SavedSurvives ==
  NoFlashFault => \A n \in Name :
    n \in torn \/ HalfWritten(n) \/ AtStart(n) \in accept[n]

\* ... and the device starts.
Starts == pc = "dead" => ~NoFlashFault \/ "ncnf" \in torn

\* saveenv: "save environment variables to persistent storage" (README).
\* Once it has succeeded, a start reads the environment that was saved.
SavedIsPersistent ==
  pc = "ready" /\ crashes = 0 /\ accept["nenv"] = {env} => AtStart("nenv") = env

\* While the system runs, the environment found at the start, or saved since
\* then with success, can be read back, even if page writes failed on the way
\* and the block was tested and erased, as long as no block was marked bad.
\* Excepted is an environment that was to move off a block with an unreadable
\* page and could not: the driver then appends to that block.
ReadsBack ==
  pc = "ready" /\ bad = {} /\ "nenv" \notin unsaved \union stuck =>
    ReadAt("nenv", info["nenv"]) \in accept["nenv"]

\* Saving one item never touches the record of another one.
OthersUntouched ==
  [][\A n \in Name : info[n].valid /\ info'[n].valid /\ (pc # "ready" => save.n # n) =>
       ReadAt(n, info[n])' = ReadAt(n, info[n])]_vars

\* Where a save is, and what it has left to do: its second copy, tests of a
\* block, the way to its end, blocks to look at or records to write, pages.
Saving == pc \in {"getblk", "erase", "write", "test", "commit", "eraseold", "testold", "finish"}
Stage  == CASE pc = "test"     -> 7 [] pc = "getblk"   -> 6
            [] pc = "erase"    -> 5 [] pc = "write"    -> 4
            [] pc = "commit"   -> 3 [] pc = "eraseold" -> 2
            [] pc = "testold"  -> 1 [] OTHER           -> 0
Left   == <<IF save.again THEN 0 ELSE 1,
            MaxTest - save.tests,
            Stage,
            IF pc = "erase" THEN NBlk - save.blk ELSE IF pc = "write" THEN Slots - save.slot ELSE 0,
            IF pc = "write" THEN RecPages - save.k ELSE 0>>

Less(a, b) == \E i \in 1 .. 5 : a[i] < b[i] /\ \A j \in 1 .. i - 1 : a[j] = b[j]

\* A save comes to an end however many operations of the flash fail, and in
\* whatever order: each of its steps, a failed erase, write, test or mark like
\* any other, leaves it less to do, in the lexicographic order of natural
\* numbers, where nothing decreases for ever.  The number of faults plays no
\* part in it: it is test_cnt and the search for a free block, which never
\* turns back, that end a save (chipenv.c:593, 1059, 1175).
SaveEnds ==
  [][ Saving /\ Saving' => /\ \A i \in 1 .. 5 : Left'[i] \in Nat
                          /\ Less(Left', Left) ]_vars

====
