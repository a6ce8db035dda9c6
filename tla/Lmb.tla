-------------------------------- MODULE Lmb --------------------------------
(***************************************************************************)
(* Logical memory blocks (lib/lmb.c): the two small tables in which bootm  *)
(* keeps the memory of the board and the parts of it that are taken, so    *)
(* that the kernel, the ramdisk and the device tree do not overwrite one   *)
(* another.                                                                *)
(*                                                                         *)
(* A table is an array of regions of which the first cnt count.  Entries   *)
(* behind them keep what they last held, and the model keeps it too, since *)
(* the code looks at it.                                                   *)
(***************************************************************************)
EXTENDS Integers, FiniteSets, FiniteSetsExt

CONSTANTS
  W,           \* size of the address space; addresses are added modulo W
  MaxRegions,  \* MAX_LMB_REGIONS
  Memory,      \* regions of memory that lmb_add() is called with
  Sizes,       \* sizes that are asked for
  Aligns,      \* alignments that are asked for
  Limits,      \* upper limits of an allocation, 0 is LMB_ALLOC_ANYWHERE
  MaxOps       \* bound: calls that reserve, allocate or free

Addr == 0 .. W - 1
Region == [base : Addr, size : Addr]
Table == [cnt : 0 .. MaxRegions, reg : [0 .. MaxRegions -> Region]]

ASSUME LmbAssumption ==
  /\ W \in Nat /\ W > 1
  /\ MaxRegions \in Nat \ {0} /\ MaxOps \in Nat
  /\ Memory \subseteq Region
  /\ Sizes \subseteq Addr \ {0} /\ Aligns \subseteq Addr \ {0} /\ Limits \subseteq Addr

\* Banks of memory that end below the top of the address space.
ASSUME MemoryAssumption == \A x \in Memory : x.size > 0 /\ x.base + x.size < W

\* What lmb_align_down() is modelled for.
ASSUME AlignAssumption == \A n \in Aligns : n = 3 \/ \E k \in 0 .. W : n = 2^k

VARIABLES
  memory,    \* lmb->memory
  reserved,  \* lmb->reserved
  got,       \* the last call was an allocation that succeeded: what it gave
  ram,       \* history: addresses that lmb_add() was told of
  held,      \* history: addresses that callers hold
  spoilt,    \* history: calls after which the table is known to be unsound
  ops

vars == <<memory, reserved, got, ram, held, spoilt, ops>>

R(base, size) == [base |-> base, size |-> size]
NoGot == [base |-> 0, size |-> 0, max |-> 0]
Plus(a, b)  == (a + b) % W
Minus(a, b) == (a - b) % W
Span(base, size) == (base .. base + size - 1) \intersect Addr

\* lmb_init(): one region of size zero.
InitTable == [cnt |-> 1, reg |-> [i \in 0 .. MaxRegions |-> R(0, 0)]]
Live(t)   == 0 .. t.cnt - 1
Dummy(t)  == t.cnt = 1 /\ t.reg[0].size = 0

(***************************************************************************)
(* Regions.                                                                *)
(***************************************************************************)
lmb_addrs_overlap(x, y) ==
  x.base < Plus(y.base, y.size) /\ y.base < Plus(x.base, x.size)

lmb_addrs_adjacent(x, y) ==
  IF y.base = Plus(x.base, x.size) THEN 1
  ELSE IF x.base = Plus(y.base, y.size) THEN -1 ELSE 0

lmb_remove_region(t, r) ==
  [cnt |-> t.cnt - 1,
   reg |-> [i \in DOMAIN t.reg |->
              IF r <= i /\ i < t.cnt - 1 THEN t.reg[i + 1] ELSE t.reg[i]]]

lmb_coalesce_regions(t, r1, r2) ==
  lmb_remove_region([t EXCEPT !.reg[r1].size = Plus(@, t.reg[r2].size)], r2)

(***************************************************************************)
(* lmb_add_region(): the result is the new table and the returned value.   *)
(***************************************************************************)
\* Mutant: the region after the one that grew is not looked at.
JoinNextNot(t, i) == t

\* A region that grew may have met the one behind it.
JoinNext(t, i) ==
  IF i < t.cnt - 1 /\ lmb_addrs_adjacent(t.reg[i], t.reg[i + 1]) # 0
  THEN lmb_coalesce_regions(t, i, i + 1) ELSE t

\* Mutant: the table may take one region more.
TableOver(t) == t.cnt > MaxRegions
TableFull(t) == t.cnt >= MaxRegions

\* "add it to the sorted table": behind the last region that does not begin
\* after it.  If there is none the first entry is overwritten, provided that
\* it begins after x.
Insert(t, x) ==
  LET k     == Max({-1} \union {i \in Live(t) : t.reg[i].base <= x.base})
      moved == [j \in DOMAIN t.reg |->
                  IF k + 1 < j /\ j <= t.cnt THEN t.reg[j - 1]
                  ELSE IF j = k + 1 /\ k >= 0 THEN x ELSE t.reg[j]]
  IN [cnt |-> t.cnt + 1,
      reg |-> IF x.base < moved[0].base THEN [moved EXCEPT ![0] = x] ELSE moved]

\* Where the first loop may stop, and what it does there to a neighbour of x.
Near(t, x) == {i \in Live(t) : t.reg[i] = x \/ lmb_addrs_adjacent(x, t.reg[i]) # 0}

Grow(t, i, x) ==
  [t EXCEPT !.reg[i] = IF lmb_addrs_adjacent(x, @) > 0
                       THEN R(Minus(@.base, x.size), Plus(@.size, x.size))
                       ELSE R(@.base, Plus(@.size, x.size))]

lmb_add_region(t, x) ==
  LET i == Min(Near(t, x))
  IN IF Dummy(t) THEN [t |-> [t EXCEPT !.reg[0] = x], ret |-> 0]
     ELSE IF Near(t, x) = {} THEN IF TableFull(t) THEN [t |-> t, ret |-> -1]
                                  ELSE [t |-> Insert(t, x), ret |-> 0]
     ELSE IF t.reg[i] = x THEN [t |-> t, ret |-> 0]
     ELSE [t |-> JoinNext(Grow(t, i, x), i), ret |-> 1]

\* With an empty table (cnt = 0, left by lmb_free()) the test for a region
\* behind, "i < rgn->cnt-1", is true: the entries 0 and 1, which no longer
\* count, may be joined, and lmb_remove_region() then runs past the array.
RunsWild(t) == t.cnt = 0 /\ lmb_addrs_adjacent(t.reg[0], t.reg[1]) # 0

(***************************************************************************)
(* lmb_free().                                                             *)
(***************************************************************************)
\* Mutant: a region that is freed at its front keeps its base.
FreeInFront(t, i, x, end) == [t EXCEPT !.reg[i].size = Minus(@, x.size)]
FreeFront(t, i, x, end) == [t EXCEPT !.reg[i] = R(end, Minus(@.size, x.size))]

lmb_free(t, x) ==
  LET end  == Plus(x.base, x.size)
      upto(i) == Plus(t.reg[i].base, t.reg[i].size)
      in   == {i \in Live(t) : t.reg[i].base <= x.base /\ end <= upto(i)}
      i    == Min(in)
      r    == t.reg[i]
  IN IF in = {} THEN [t |-> t, ret |-> -1]
     ELSE IF r.base = x.base /\ upto(i) = end THEN [t |-> lmb_remove_region(t, i), ret |-> 0]
     ELSE IF r.base = x.base THEN [t |-> FreeFront(t, i, x, end), ret |-> 0]
     ELSE IF upto(i) = end
          THEN [t |-> [t EXCEPT !.reg[i].size = Minus(@, x.size)], ret |-> 0]
     ELSE lmb_add_region([t EXCEPT !.reg[i].size = Minus(x.base, r.base)],
                         R(end, Minus(upto(i), end)))

(***************************************************************************)
(* __lmb_alloc_base().                                                     *)
(***************************************************************************)
\* Mutant: the last region is not looked at.
OverlapsButLast(t, x) == {i \in Live(t) : i < t.cnt - 1 /\ lmb_addrs_overlap(x, t.reg[i])}
lmb_overlaps_region(t, x) == {i \in Live(t) : lmb_addrs_overlap(x, t.reg[i])}

\* addr & ~(align - 1).  Callers pass powers of two, and 0xf (image.c), for
\* which 3 stands here: it keeps the lowest bit.
lmb_align_down(a, align) == IF align = 3 THEN a - (a % 4) + (a % 2) ELSE a - (a % align)
lmb_align_up(a, align)   == lmb_align_down(Plus(a, align - 1), align)

\* The while loop: from b downwards, past every reservation that is met.
Search(m, size, align) ==
  LET f[b \in Addr] ==
        LET j == lmb_overlaps_region(reserved, R(b, size))
            res_base == reserved.reg[Min(j)].base
        IN IF b = 0 \/ b < m.base THEN 0
           ELSE IF j = {} THEN b
           ELSE IF res_base < size THEN 0
           ELSE f[lmb_align_down(res_base - size, align)]
  IN f

\* Where the search begins in region m, and what it finds.
Top(m, max) == LET end == Plus(m.base, m.size)
               IN IF max = 0 \/ end < max THEN end ELSE max
FoundIn(m, size, align, max) ==
  IF m.size < size \/ (max # 0 /\ m.base >= max) THEN 0
  ELSE Search(m, size, align)[lmb_align_down(Minus(Top(m, max), size), align)]

AllocBase(size, align, max) ==
  LET hits == {i \in Live(memory) : FoundIn(memory.reg[i], size, align, max) # 0}
  IN IF hits = {} THEN 0 ELSE FoundIn(memory.reg[Max(hits)], size, align, max)

(***************************************************************************)
(* lmb_is_reserved().                                                      *)
(***************************************************************************)
lmb_is_reserved(a) ==
  \E i \in Live(reserved) :
    LET r == reserved.reg[i] IN r.base <= a /\ a <= Minus(Plus(r.base, r.size), 1)

(***************************************************************************)
(* The calls.                                                              *)
(***************************************************************************)
Call == ops < MaxOps /\ ops' = ops + 1 /\ "wild" \notin spoilt

Overlaps(x) == IF Span(x.base, x.size) \intersect held # {} THEN {"overlap"} ELSE {}
Wild(t)     == IF RunsWild(t) THEN {"wild"} ELSE {}
Wraps(a, b) == IF a + b >= W THEN {"wrapped"} ELSE {}

Add ==
  /\ \E x \in Memory :
       LET a == lmb_add_region(memory, x) IN
       /\ Span(x.base, x.size) \intersect ram = {}
       /\ memory' = a.t
       /\ ram' = IF a.ret >= 0 THEN ram \union Span(x.base, x.size) ELSE ram
  /\ got' = NoGot
  /\ UNCHANGED <<reserved, held, spoilt, ops>>

Reserve ==
  /\ Call
  /\ \E b \in Addr, s \in Sizes :
       LET x == R(b, s)
           a == lmb_add_region(reserved, x)
       IN
       /\ b + s < W
       /\ reserved' = a.t
       /\ held' = IF a.ret >= 0 THEN held \union Span(b, s) ELSE held
       /\ spoilt' = spoilt \union Overlaps(x) \union Wild(reserved)
  /\ got' = NoGot
  /\ UNCHANGED <<memory, ram>>

\* A caller gives back some of what it holds.
Free ==
  /\ Call
  /\ \E b \in Addr, s \in Sizes :
       LET a == lmb_free(reserved, R(b, s)) IN
       /\ Span(b, s) \subseteq held
       /\ reserved' = a.t
       /\ held' = IF a.ret >= 0 THEN held \ Span(b, s) ELSE held
       /\ spoilt' = spoilt
            \union (IF a.t.cnt = 0 THEN {"emptied"} ELSE {})
            \union (IF a.ret < 0 /\ a.t # reserved THEN {"cut"} ELSE {})
  /\ got' = NoGot
  /\ UNCHANGED <<memory, ram>>

\* lmb_alloc_base() and, with max = LMB_ALLOC_ANYWHERE, lmb_alloc().  What is
\* reserved is the size rounded up, which nobody has checked.
Alloc ==
  /\ Call
  /\ \E size \in Sizes, align \in Aligns, max \in Limits :
       LET base == AllocBase(size, align, max)
           x    == R(base, lmb_align_up(size, align))
           a    == lmb_add_region(reserved, x)
       IN
       /\ \/ /\ base = 0 \/ a.ret < 0
             /\ got' = NoGot
             /\ UNCHANGED <<reserved, held, spoilt>>
          \/ /\ base # 0 /\ a.ret >= 0
             /\ reserved' = a.t
             /\ got' = [base |-> base, size |-> size, max |-> max]
             /\ held' = held \union Span(base, x.size)
             /\ spoilt' = spoilt \union Overlaps(x) \union Wild(reserved)
                            \union Wraps(size, align - 1) \union Wraps(base, x.size)
  /\ UNCHANGED <<memory, ram>>

Rest == (ops = MaxOps \/ "wild" \in spoilt) /\ UNCHANGED vars

Init ==
  /\ memory = InitTable /\ reserved = InitTable
  /\ got = NoGot /\ ram = {} /\ held = {} /\ spoilt = {} /\ ops = 0

Next == Add \/ Reserve \/ Free \/ Alloc \/ Rest

Spec == Init /\ [][Next]_vars

(***************************************************************************)
(* Properties.                                                             *)
(***************************************************************************)
\* Types of the variables.
TypeOK ==
  /\ memory \in Table /\ reserved \in Table
  /\ got \in [base : Addr, size : Addr, max : Addr]
  /\ ram \subseteq Addr /\ held \subseteq Addr
  /\ spoilt \subseteq {"overlap", "emptied", "cut", "wild", "wrapped"}
  /\ ops \in 0 .. MaxOps

\* After any calls that reserve, allocate and free, up to one that spoils the
\* table, lmb_is_reserved() answers for an address whether a caller holds it.
\* The table that lmb_init() leaves is the exception: nobody holds anything,
\* and every address is called reserved, for the region of size zero ends at
\* 0 + 0 - 1.
ReservedIsHeld ==
  spoilt = {} =>
    IF Dummy(reserved) THEN held = {} /\ \A a \in Addr : lmb_is_reserved(a)
    ELSE \A a \in Addr : lmb_is_reserved(a) <=> a \in held

\* Regions are in order, apart, and joined where they meet.
Apart(t) == \A i \in Live(t) : i > 0 =>
              t.reg[i - 1].base + t.reg[i - 1].size < t.reg[i].base
TablesApart == Apart(memory) /\ (spoilt = {} => Apart(reserved))

\* Allocated memory exists, lies below the limit and is nobody else's.
AllocIsFresh ==
  [][ got' # NoGot /\ spoilt = {} /\ (got'.max = 0 \/ got'.size <= got'.max) =>
        LET new == Span(got'.base, got'.size) IN
        /\ new \intersect held = {}
        /\ new \subseteq ram
        /\ got'.max # 0 => \A a \in new : a < got'.max ]_vars

====
