------------------------------ MODULE LmbProofs ------------------------------
(***************************************************************************)
(* Proofs about the memory tables, for every address space, every number   *)
(* of regions and every sequence of calls.                                 *)
(***************************************************************************)
EXTENDS Lmb, WellFoundedInduction, TLAPS

-----------------------------------------------------------------------------
(***************************************************************************)
(* Least and greatest numbers.                                             *)
(***************************************************************************)
LessThan == {p \in Nat \X Nat : p[1] < p[2]}

LEMMA LeastNat ==
  ASSUME NEW S \in SUBSET Nat, S # {}
  PROVE  \E x \in S : \A y \in S : x <= y
<1>1. IsWellFoundedOn(LessThan, Nat)
  BY NatLessThanWellFounded DEF OpToRel, LessThan
<1>2. PICK z \in S : \A y \in S : ~(<<y, z>> \in LessThan)
  BY <1>1, WFMin
<1>3. \A y \in S : ~(y < z)
  BY <1>2 DEF LessThan
<1>4. QED
  BY <1>3

LEMMA MinIs ==
  ASSUME NEW S \in SUBSET Nat, S # {}
  PROVE  Min(S) \in S /\ \A y \in S : Min(S) <= y
BY LeastNat DEF Min

LEMMA MaxIs ==
  ASSUME NEW n \in Nat, NEW S \in SUBSET (-1 .. n), S # {}
  PROVE  Max(S) \in S /\ \A y \in S : y <= Max(S)
<1> DEFINE T == {n - x : x \in S}
<1>0. \A x \in S : n - x \in Nat
  OBVIOUS
<1>1. T \in SUBSET Nat /\ T # {}
  BY <1>0
<1>2. PICK z \in T : \A y \in T : z <= y
  BY <1>1, LeastNat
<1>3. PICK x \in S : z = n - x
  BY <1>2
<1>4. \A y \in S : y <= x
  <2> TAKE y \in S
  <2>1. n - x <= n - y
    BY <1>2, <1>3
  <2>2. QED
    BY <2>1
<1>5. QED
  BY <1>4 DEF Max

-----------------------------------------------------------------------------
(***************************************************************************)
(* Types.                                                                  *)
(***************************************************************************)
LEMMA Modular ==
  \A a, b \in Addr : /\ Plus(a, b) \in Addr /\ Minus(a, b) \in Addr
                     /\ a + b < W => Plus(a, b) = a + b
                     /\ b <= a => Minus(a, b) = a - b
<1> SUFFICES ASSUME NEW a \in Addr, NEW b \in Addr
             PROVE  /\ Plus(a, b) \in Addr /\ Minus(a, b) \in Addr
                    /\ a + b < W => Plus(a, b) = a + b
                    /\ b <= a => Minus(a, b) = a - b
  OBVIOUS
<1>1. W \in Nat /\ W > 1
  BY LmbAssumption
<1>2. a \in Int /\ b \in Int /\ 0 <= a /\ a < W /\ 0 <= b /\ b < W
  BY <1>1 DEF Addr
<1>3. (a + b) % W \in 0 .. W - 1 /\ (a - b) % W \in 0 .. W - 1
  BY <1>1, <1>2
<1>4. \A c \in 0 .. W - 1 : c % W = c
  BY <1>1
<1>5. a + b < W => (a + b) % W = a + b
  BY <1>1, <1>2, <1>4
<1>6. b <= a => (a - b) % W = a - b
  BY <1>1, <1>2, <1>4
<1>7. QED
  BY <1>3, <1>5, <1>6 DEF Plus, Minus, Addr

LEMMA RegionType ==
  /\ \A b, s \in Addr : R(b, s) \in Region
  /\ \A b, s \in Addr : R(b, s).base = b /\ R(b, s).size = s
  /\ \A r \in Region : r.base \in Addr /\ r.size \in Addr /\ r = R(r.base, r.size)
BY DEF R, Region

LEMMA TableType ==
  ASSUME NEW t \in Table
  PROVE  /\ t.cnt \in 0 .. MaxRegions /\ t.cnt \in Nat
         /\ DOMAIN t.reg = 0 .. MaxRegions
         /\ Live(t) \subseteq Nat /\ Live(t) \subseteq 0 .. MaxRegions
         /\ \A i \in 0 .. MaxRegions : t.reg[i] \in Region
         /\ \A i \in Live(t) : t.reg[i] \in Region
BY LmbAssumption DEF Table, Live

\* Writing one region.
LEMMA WriteRegion ==
  ASSUME NEW t \in Table, NEW i \in 0 .. MaxRegions, NEW x \in Region,
         NEW u, u = [t EXCEPT !.reg[i] = x]
  PROVE  /\ u \in Table /\ u.cnt = t.cnt /\ Live(u) = Live(t)
         /\ \A j \in 0 .. MaxRegions : u.reg[j] = IF j = i THEN x ELSE t.reg[j]
BY DEF Table, Live

LEMMA RemoveType ==
  ASSUME NEW t \in Table, NEW r \in Live(t)
  PROVE  LET u == lmb_remove_region(t, r) IN
         /\ u \in Table /\ u.cnt = t.cnt - 1
         /\ \A j \in Live(u) : u.reg[j] = IF j < r THEN t.reg[j] ELSE t.reg[j + 1]
<1> DEFINE u == lmb_remove_region(t, r)
<1>1. MaxRegions \in Nat /\ t.cnt \in 1 .. MaxRegions /\ r \in 0 .. t.cnt - 1
  BY LmbAssumption DEF Table, Live
<1>2. DOMAIN t.reg = 0 .. MaxRegions /\ \A i \in 0 .. MaxRegions : t.reg[i] \in Region
  BY TableType
<1>3. /\ u.cnt = t.cnt - 1
      /\ u.reg = [i \in 0 .. MaxRegions |->
                    IF r <= i /\ i < t.cnt - 1 THEN t.reg[i + 1] ELSE t.reg[i]]
      /\ u = [cnt |-> u.cnt, reg |-> u.reg]
  BY <1>2 DEF lmb_remove_region
<1>4. u.reg \in [0 .. MaxRegions -> Region]
  BY <1>1, <1>2, <1>3, SMTT(30)
<1>5. u \in Table
  BY <1>1, <1>3, <1>4 DEF Table
<1>6. \A j \in Live(u) : u.reg[j] = IF j < r THEN t.reg[j] ELSE t.reg[j + 1]
  BY <1>1, <1>3 DEF Live
<1>7. QED
  BY <1>3, <1>5, <1>6

LEMMA AdjacentType == \A x, y \in Region : lmb_addrs_adjacent(x, y) \in {-1, 0, 1}
BY DEF lmb_addrs_adjacent

LEMMA GrowType ==
  ASSUME NEW t \in Table, NEW x \in Region, NEW i \in Live(t)
  PROVE  LET u == Grow(t, i, x)
             r == t.reg[i]
         IN
         /\ u \in Table /\ u.cnt = t.cnt /\ Live(u) = Live(t)
         /\ \A j \in 0 .. MaxRegions : j # i => u.reg[j] = t.reg[j]
         /\ lmb_addrs_adjacent(x, r) > 0 =>
              u.reg[i] = R(Minus(r.base, x.size), Plus(r.size, x.size))
         /\ ~(lmb_addrs_adjacent(x, r) > 0) => u.reg[i] = R(r.base, Plus(r.size, x.size))
<1> DEFINE u == Grow(t, i, x)
           r == t.reg[i]
           y == IF lmb_addrs_adjacent(x, r) > 0
                THEN R(Minus(r.base, x.size), Plus(r.size, x.size))
                ELSE R(r.base, Plus(r.size, x.size))
<1>1. i \in 0 .. MaxRegions /\ r \in Region
  BY TableType
<1>2. y \in Region
  BY <1>1, RegionType, Modular
<1>3. u = [t EXCEPT !.reg[i] = y]
  BY DEF Grow
<1> HIDE DEF y
<1>4. /\ u \in Table /\ u.cnt = t.cnt /\ Live(u) = Live(t)
      /\ \A j \in 0 .. MaxRegions : u.reg[j] = IF j = i THEN y ELSE t.reg[j]
  BY <1>1, <1>2, <1>3, WriteRegion
<1>5. QED
  BY <1>1, <1>4 DEF y

\* Joining region i with the next one.
LEMMA JoinType ==
  ASSUME NEW t \in Table, NEW i \in Live(t)
  PROVE  /\ JoinNext(t, i) \in Table
         /\ i < t.cnt - 1 /\ lmb_addrs_adjacent(t.reg[i], t.reg[i + 1]) # 0 =>
              LET u == JoinNext(t, i) IN
              /\ u.cnt = t.cnt - 1
              /\ \A j \in Live(u) :
                   u.reg[j] = IF j < i THEN t.reg[j]
                              ELSE IF j = i THEN R(t.reg[i].base, Plus(t.reg[i].size, t.reg[i + 1].size))
                              ELSE t.reg[j + 1]
         /\ ~(i < t.cnt - 1 /\ lmb_addrs_adjacent(t.reg[i], t.reg[i + 1]) # 0) =>
              JoinNext(t, i) = t
<1>1. CASE ~(i < t.cnt - 1 /\ lmb_addrs_adjacent(t.reg[i], t.reg[i + 1]) # 0)
  BY <1>1 DEF JoinNext
<1>2. CASE i < t.cnt - 1 /\ lmb_addrs_adjacent(t.reg[i], t.reg[i + 1]) # 0
  <2> DEFINE y == R(t.reg[i].base, Plus(t.reg[i].size, t.reg[i + 1].size))
             v == [t EXCEPT !.reg[i] = y]
             u == lmb_remove_region(v, i + 1)
  <2>1. /\ i \in 0 .. t.cnt - 2 /\ t.cnt \in Nat /\ i \in 0 .. MaxRegions
        /\ i + 1 \in 0 .. MaxRegions /\ i + 1 \in Live(t)
    BY <1>2, TableType, LmbAssumption DEF Live
  <2>2. t.reg[i] \in Region /\ t.reg[i + 1] \in Region
    BY <2>1, TableType
  <2>3. y \in Region
    BY <2>2, RegionType, Modular
  <2>4. [t.reg[i] EXCEPT !.size = Plus(t.reg[i].size, t.reg[i + 1].size)] = y
    BY <2>2 DEF Region, R
  <2>5. [t EXCEPT !.reg[i].size = Plus(@, t.reg[i + 1].size)] = v
    BY <2>4 DEF v
  <2>6. JoinNext(t, i) = u
    BY <1>2, <2>5 DEF JoinNext, lmb_coalesce_regions
  <2> HIDE DEF y
  <2>0. v = [t EXCEPT !.reg[i] = y]
    OBVIOUS
  <2> HIDE DEF v
  <2>7. /\ v \in Table /\ v.cnt = t.cnt /\ Live(v) = Live(t)
        /\ \A j \in 0 .. MaxRegions : v.reg[j] = IF j = i THEN y ELSE t.reg[j]
    BY <2>0, <2>1, <2>3 DEF Table, Live
  <2>8. /\ u \in Table /\ u.cnt = v.cnt - 1
        /\ \A j \in Live(u) : u.reg[j] = IF j < i + 1 THEN v.reg[j] ELSE v.reg[j + 1]
    BY <2>1, <2>7, RemoveType
  <2> HIDE DEF u
  <2>9. \A j \in Live(u) : u.reg[j] = IF j < i THEN t.reg[j] ELSE IF j = i THEN y ELSE t.reg[j + 1]
    <3> SUFFICES ASSUME NEW j \in Live(u)
                 PROVE  u.reg[j] = IF j < i THEN t.reg[j] ELSE IF j = i THEN y ELSE t.reg[j + 1]
      OBVIOUS
    <3>1. j \in 0 .. MaxRegions /\ j + 1 \in 0 .. MaxRegions /\ j \in Nat /\ i \in Nat
      BY <2>1, <2>7, <2>8, TableType, LmbAssumption DEF Live
    <3>2. QED
      BY <2>7, <2>8, <3>1
  <2>10. QED
    BY <1>2, <2>6, <2>7, <2>8, <2>9 DEF y
<1>3. QED
  BY <1>1, <1>2

\* Behind which region a new one goes.
LEMMA InsertType ==
  ASSUME NEW t \in Table, NEW x \in Region, t.cnt < MaxRegions
  PROVE  LET u == Insert(t, x) IN
         /\ u \in Table /\ u.cnt = t.cnt + 1
         /\ t.cnt > 0 /\ (\A i \in Live(t) : t.reg[0].base <= t.reg[i].base) =>
              \E k \in -1 .. t.cnt - 1 :
                /\ \A i \in Live(t) : i > k => x.base < t.reg[i].base
                /\ k >= 0 => t.reg[k].base <= x.base
                /\ \A j \in 0 .. t.cnt :
                     u.reg[j] = IF j <= k THEN t.reg[j]
                                ELSE IF j = k + 1 THEN x ELSE t.reg[j - 1]
<1> DEFINE S == {-1} \union {i \in Live(t) : t.reg[i].base <= x.base}
           k == Max(S)
           moved == [j \in DOMAIN t.reg |->
                       IF k + 1 < j /\ j <= t.cnt THEN t.reg[j - 1]
                       ELSE IF j = k + 1 /\ k >= 0 THEN x ELSE t.reg[j]]
           reg == IF x.base < moved[0].base THEN [moved EXCEPT ![0] = x] ELSE moved
           u == Insert(t, x)
<1>1. /\ t.cnt \in Nat /\ MaxRegions \in Nat /\ DOMAIN t.reg = 0 .. MaxRegions
      /\ \A i \in 0 .. MaxRegions : t.reg[i] \in Region /\ t.reg[i].base \in Int
      /\ x.base \in Int
  BY TableType, RegionType, LmbAssumption DEF Addr
<1>2. S \in SUBSET (-1 .. t.cnt) /\ S # {}
  BY <1>1 DEF Live
<1>3. k \in S /\ \A y \in S : y <= k
  BY <1>1, <1>2, MaxIs
<1>4. k \in -1 .. t.cnt - 1
  BY <1>1, <1>3 DEF Live
<1>5. u = [cnt |-> t.cnt + 1, reg |-> reg]
  BY DEF Insert
<1> HIDE DEF k, u
<1>6. moved \in [0 .. MaxRegions -> Region]
  BY <1>1, <1>4
<1> HIDE DEF moved
<1>7. reg \in [0 .. MaxRegions -> Region]
  BY <1>1, <1>6
<1>8. u \in Table /\ u.cnt = t.cnt + 1
  BY <1>1, <1>5, <1>7 DEF Table
<1>9. ASSUME t.cnt > 0, \A i \in Live(t) : t.reg[0].base <= t.reg[i].base
      PROVE  /\ \A i \in Live(t) : i > k => x.base < t.reg[i].base
             /\ k >= 0 => t.reg[k].base <= x.base
             /\ \A j \in 0 .. t.cnt : u.reg[j] = IF j <= k THEN t.reg[j]
                                                 ELSE IF j = k + 1 THEN x ELSE t.reg[j - 1]
  <2>1. \A i \in Live(t) : i > k => x.base < t.reg[i].base
    <3> SUFFICES ASSUME NEW i \in Live(t), i > k, t.reg[i].base <= x.base PROVE FALSE
      BY <1>1 DEF Live
    <3>1. i \in S
      OBVIOUS
    <3>2. QED
      BY <1>1, <1>3, <1>4, <3>1 DEF Live
  <2>2. k >= 0 => t.reg[k].base <= x.base
    BY <1>3, <1>4
  <2>3. \A j \in 0 .. t.cnt : moved[j] = IF k + 1 < j THEN t.reg[j - 1]
                                         ELSE IF j = k + 1 /\ k >= 0 THEN x ELSE t.reg[j]
    BY <1>1 DEF moved
  <2>4. CASE k >= 0
    <3>1. moved[0] = t.reg[0]
      BY <1>1, <1>4, <2>3, <2>4
    <3>2. ~(x.base < moved[0].base)
      BY <1>1, <1>4, <1>9, <2>2, <2>4, <3>1 DEF Live
    <3>3. reg = moved
      BY <3>2
    <3>4. QED
      BY <1>1, <1>4, <1>5, <2>1, <2>2, <2>3, <2>4, <3>3
  <2>5. CASE k = -1
    <3>1. moved[0] = t.reg[0] /\ x.base < t.reg[0].base
      BY <1>1, <1>9, <2>1, <2>3, <2>5 DEF Live
    <3>2. reg = [moved EXCEPT ![0] = x]
      BY <3>1
    <3>3. \A j \in 0 .. t.cnt : reg[j] = IF j = 0 THEN x ELSE t.reg[j - 1]
      BY <1>1, <1>6, <2>3, <2>5, <3>2
    <3>4. QED
      BY <1>1, <1>5, <2>1, <2>5, <3>3
  <2>6. QED
    BY <1>4, <2>4, <2>5
<1>10. QED
  BY <1>4, <1>8, <1>9 DEF u

-----------------------------------------------------------------------------
\* The cases of lmb_add_region().
LEMMA AddCases ==
  ASSUME NEW t \in Table, NEW x \in Region
  PROVE  LET a == lmb_add_region(t, x)
             i == Min(Near(t, x))
         IN
         /\ Dummy(t) => a.ret = 0 /\ a.t = [t EXCEPT !.reg[0] = x]
         /\ ~Dummy(t) /\ Near(t, x) = {} /\ TableFull(t) => a.ret = -1 /\ a.t = t
         /\ ~Dummy(t) /\ Near(t, x) = {} /\ ~TableFull(t) => a.ret = 0 /\ a.t = Insert(t, x)
         /\ ~Dummy(t) /\ Near(t, x) # {} /\ t.reg[i] = x => a.ret = 0 /\ a.t = t
         /\ ~Dummy(t) /\ Near(t, x) # {} /\ t.reg[i] # x =>
              a.ret = 1 /\ a.t = JoinNext(Grow(t, i, x), i)
BY DEF lmb_add_region

LEMMA NearIs ==
  ASSUME NEW t \in Table, NEW x \in Region, Near(t, x) # {}
  PROVE  LET i == Min(Near(t, x)) IN
         /\ i \in Live(t)
         /\ t.reg[i] = x \/ lmb_addrs_adjacent(x, t.reg[i]) # 0
         /\ \A j \in Live(t) : j < i => lmb_addrs_adjacent(x, t.reg[j]) = 0
<1>1. Near(t, x) \in SUBSET Nat
  BY TableType DEF Near
<1>2. Min(Near(t, x)) \in Near(t, x) /\ \A y \in Near(t, x) : Min(Near(t, x)) <= y
  BY <1>1, MinIs
<1>3. \A j \in Live(t) : j < Min(Near(t, x)) => j \notin Near(t, x)
  BY <1>1, <1>2
<1>4. QED
  BY <1>2, <1>3 DEF Near

LEMMA AddType ==
  ASSUME NEW t \in Table, NEW x \in Region
  PROVE  lmb_add_region(t, x).t \in Table /\ lmb_add_region(t, x).ret \in {-1, 0, 1}
<1> DEFINE a == lmb_add_region(t, x)
           i == Min(Near(t, x))
<1>0. /\ Dummy(t) => a.ret = 0 /\ a.t = [t EXCEPT !.reg[0] = x]
      /\ ~Dummy(t) /\ Near(t, x) = {} /\ TableFull(t) => a.ret = -1 /\ a.t = t
      /\ ~Dummy(t) /\ Near(t, x) = {} /\ ~TableFull(t) => a.ret = 0 /\ a.t = Insert(t, x)
      /\ ~Dummy(t) /\ Near(t, x) # {} /\ t.reg[i] = x => a.ret = 0 /\ a.t = t
      /\ ~Dummy(t) /\ Near(t, x) # {} /\ t.reg[i] # x =>
           a.ret = 1 /\ a.t = JoinNext(Grow(t, i, x), i)
  BY AddCases
<1> SUFFICES a.t \in Table /\ a.ret \in {-1, 0, 1}
  OBVIOUS
<1> HIDE DEF a
<1>1. CASE Dummy(t)
  <2>1. 0 \in 0 .. MaxRegions
    BY LmbAssumption
  <2>2. QED
    BY <1>0, <1>1, <2>1, WriteRegion
<1>2. CASE ~Dummy(t) /\ Near(t, x) = {} /\ ~TableFull(t)
  <2>1. t.cnt < MaxRegions
    BY <1>2, LmbAssumption, TableType DEF TableFull
  <2>2. Insert(t, x) \in Table
    BY <2>1, InsertType
  <2>3. QED
    BY <1>0, <1>2, <2>2
<1>3. CASE ~Dummy(t) /\ Near(t, x) # {} /\ t.reg[i] # x
  <2>1. i \in Live(t)
    BY <1>3, NearIs
  <2> HIDE DEF i
  <2>2. Grow(t, i, x) \in Table /\ i \in Live(Grow(t, i, x))
    BY <2>1, GrowType
  <2>3. JoinNext(Grow(t, i, x), i) \in Table
    BY <2>2, JoinType
  <2>4. QED
    BY <1>0, <1>3, <2>3
<1>4. QED
  BY <1>0, <1>1, <1>2, <1>3

-----------------------------------------------------------------------------
(***************************************************************************)
(* lmb_free().                                                             *)
(***************************************************************************)
Upto(r) == Plus(r.base, r.size)
Holds(t, x) == {i \in Live(t) : t.reg[i].base <= x.base /\ Upto(x) <= Upto(t.reg[i])}

LEMMA FreeCases ==
  ASSUME NEW t \in Table, NEW x \in Region
  PROVE  LET f == lmb_free(t, x)
             i == Min(Holds(t, x))
             r == t.reg[i]
         IN
         /\ Holds(t, x) = {} => f.ret = -1 /\ f.t = t
         /\ Holds(t, x) # {} /\ r.base = x.base /\ Upto(r) = Upto(x) =>
              f.ret = 0 /\ f.t = lmb_remove_region(t, i)
         /\ Holds(t, x) # {} /\ r.base = x.base /\ Upto(r) # Upto(x) =>
              f.ret = 0 /\ f.t = [t EXCEPT !.reg[i] = R(Upto(x), Minus(r.size, x.size))]
         /\ Holds(t, x) # {} /\ r.base # x.base /\ Upto(r) = Upto(x) =>
              f.ret = 0 /\ f.t = [t EXCEPT !.reg[i] = R(r.base, Minus(r.size, x.size))]
         /\ Holds(t, x) # {} /\ r.base # x.base /\ Upto(r) # Upto(x) =>
              f = lmb_add_region([t EXCEPT !.reg[i] = R(r.base, Minus(x.base, r.base))],
                                 R(Upto(x), Minus(Upto(r), Upto(x))))
<1> DEFINE i == Min(Holds(t, x))
           r == t.reg[i]
<1>1. ASSUME Holds(t, x) # {}
      PROVE  /\ i \in Live(t) /\ r \in Region
             /\ \A s : [r EXCEPT !.size = s] = R(r.base, s)
  <2>1. Holds(t, x) \in SUBSET Nat
    BY TableType DEF Holds
  <2>2. i \in Live(t)
    BY <1>1, <2>1, MinIs DEF Holds
  <2>3. r \in Region
    BY <2>2, TableType
  <2>4. QED
    BY <2>2, <2>3 DEF Region, R
<1>2. QED
  BY <1>1 DEF lmb_free, Holds, Upto, FreeFront

LEMMA FreeType ==
  ASSUME NEW t \in Table, NEW x \in Region
  PROVE  lmb_free(t, x).t \in Table
<1> DEFINE f == lmb_free(t, x)
           i == Min(Holds(t, x))
           r == t.reg[i]
           y == R(Upto(x), Minus(Upto(r), Upto(x)))
           cut == R(r.base, Minus(x.base, r.base))
           front == R(Upto(x), Minus(r.size, x.size))
           back == R(r.base, Minus(r.size, x.size))
<1>0. /\ Holds(t, x) = {} => f.ret = -1 /\ f.t = t
      /\ Holds(t, x) # {} /\ r.base = x.base /\ Upto(r) = Upto(x) =>
           f.ret = 0 /\ f.t = lmb_remove_region(t, i)
      /\ Holds(t, x) # {} /\ r.base = x.base /\ Upto(r) # Upto(x) =>
           f.ret = 0 /\ f.t = [t EXCEPT !.reg[i] = front]
      /\ Holds(t, x) # {} /\ r.base # x.base /\ Upto(r) = Upto(x) =>
           f.ret = 0 /\ f.t = [t EXCEPT !.reg[i] = back]
      /\ Holds(t, x) # {} /\ r.base # x.base /\ Upto(r) # Upto(x) =>
           f = lmb_add_region([t EXCEPT !.reg[i] = cut], y)
  BY FreeCases
<1> SUFFICES f.t \in Table
  OBVIOUS
<1> HIDE DEF f
<1>1. SUFFICES ASSUME Holds(t, x) # {} PROVE f.t \in Table
  BY <1>0
<1>2. i \in Live(t)
  <2>1. Holds(t, x) \in SUBSET Nat
    BY TableType DEF Holds
  <2>2. QED
    BY <1>1, <2>1, MinIs DEF Holds
<1> HIDE DEF i
<1>3. r \in Region /\ i \in 0 .. MaxRegions
  BY <1>2, TableType
<1>4. Upto(r) \in Addr /\ Upto(x) \in Addr
  BY <1>3, RegionType, Modular DEF Upto
<1>5. y \in Region /\ cut \in Region /\ front \in Region /\ back \in Region
  BY <1>3, <1>4, RegionType, Modular
<1> HIDE DEF r, y, cut, front, back
<1>6. lmb_remove_region(t, i) \in Table
  BY <1>2, RemoveType
<1>7. \A z \in Region : [t EXCEPT !.reg[i] = z] \in Table
  BY <1>3, WriteRegion
<1>8. lmb_add_region([t EXCEPT !.reg[i] = cut], y).t \in Table
  BY <1>5, <1>7, AddType
<1>9. QED
  BY <1>0, <1>1, <1>5, <1>6, <1>7, <1>8

LEMMA FreeRet ==
  ASSUME NEW t \in Table, NEW x \in Region
  PROVE  lmb_free(t, x).ret \in Int
<1> DEFINE i == Min(Holds(t, x))
           r == t.reg[i]
           y == R(Upto(x), Minus(Upto(r), Upto(x)))
           cut == R(r.base, Minus(x.base, r.base))
<1>1. lmb_free(t, x).ret \in {-1, 0} \/ lmb_free(t, x) = lmb_add_region([t EXCEPT !.reg[i] = cut], y)
  BY FreeCases
<1>2. \A v, z : lmb_add_region(v, z).ret \in Int
  BY DEF lmb_add_region
<1>3. QED
  BY <1>1, <1>2

-----------------------------------------------------------------------------
(***************************************************************************)
(* The search of __lmb_alloc_base().  Search is a recursive function: that *)
(* a function exists that satisfies the recursion, and what its values     *)
(* are, is shown by considering a least address where it fails.            *)
(***************************************************************************)
Met(b, size) == lmb_overlaps_region(reserved, R(b, size))
ResBase(b, size) == reserved.reg[Min(Met(b, size))].base
Descends(m, size, b) ==
  ~(b = 0 \/ b < m.base) /\ Met(b, size) # {} /\ ~(ResBase(b, size) < size)
Below(size, align, b) == lmb_align_down(ResBase(b, size) - size, align)
Stay(m, size, b) == IF b = 0 \/ b < m.base \/ Met(b, size) # {} THEN 0 ELSE b

LEMMA AlignType ==
  \A a \in Addr, n \in Nat \ {0} : lmb_align_down(a, n) \in Addr /\ lmb_align_down(a, n) <= a
<1> SUFFICES ASSUME NEW a \in Addr, NEW n \in Nat \ {0}
             PROVE  lmb_align_down(a, n) \in Addr /\ lmb_align_down(a, n) <= a
  OBVIOUS
<1>1. W \in Nat /\ a \in Nat /\ a < W
  BY LmbAssumption DEF Addr
<1>2. a % n \in Nat /\ a % n <= a
  BY <1>1
<1>3. a % 4 \in Nat /\ a % 2 \in Nat /\ a % 2 <= a % 4 /\ a % 4 <= a
  BY <1>1
<1>4. QED
  BY <1>1, <1>2, <1>3 DEF lmb_align_down, Addr

LEMMA BelowType ==
  ASSUME reserved \in Table, NEW m \in Region, NEW size \in Sizes, NEW align \in Aligns,
         NEW b \in Addr, Descends(m, size, b)
  PROVE  Below(size, align, b) \in Addr /\ Below(size, align, b) < b
<1>1. W \in Nat /\ size \in Nat \ {0} /\ size \in Addr /\ align \in Nat \ {0} /\ b \in Nat
  BY LmbAssumption DEF Addr
<1>2. Met(b, size) \in SUBSET Nat
  BY TableType DEF Met, lmb_overlaps_region
<1>3. Min(Met(b, size)) \in Met(b, size)
  BY <1>2, MinIs DEF Descends
<1>4. PICK i \in Live(reserved) : i = Min(Met(b, size)) /\ lmb_addrs_overlap(R(b, size), reserved.reg[i])
  BY <1>3 DEF Met, lmb_overlaps_region
<1>5. reserved.reg[i].base \in Addr /\ ResBase(b, size) = reserved.reg[i].base
  BY <1>4, TableType, RegionType DEF ResBase
<1>6. ResBase(b, size) < Plus(b, size)
  BY <1>1, <1>4, <1>5, RegionType DEF lmb_addrs_overlap
<1>7. Plus(b, size) <= b + size /\ Plus(b, size) \in Int
  <2>1. Plus(b, size) \in Addr /\ (b + size < W => Plus(b, size) = b + size)
    BY <1>1, Modular
  <2>2. QED
    BY <1>1, <2>1 DEF Addr
<1>8. ResBase(b, size) - size \in Addr /\ ResBase(b, size) - size < b
  <2>1. ResBase(b, size) \in Int /\ 0 <= ResBase(b, size) /\ ResBase(b, size) < W
    BY <1>1, <1>5 DEF Addr
  <2>2. ~(ResBase(b, size) < size)
    BY DEF Descends
  <2>3. QED
    BY <1>1, <1>6, <1>7, <2>1, <2>2 DEF Addr
<1>9. QED
  BY <1>1, <1>8, AlignType DEF Below, Addr

\* The recursion that Search satisfies.
Recurs(f, m, size, align, S) ==
  \A b \in S : f[b] = IF Descends(m, size, b) THEN f[Below(size, align, b)] ELSE Stay(m, size, b)

LEMMA SearchExists ==
  ASSUME reserved \in Table, NEW m \in Region, NEW size \in Sizes, NEW align \in Aligns
  PROVE  \E g : g = [b \in Addr |-> IF Descends(m, size, b) THEN g[Below(size, align, b)]
                                    ELSE Stay(m, size, b)]
<1> DEFINE Ok(n) == \E g : DOMAIN g = 0 .. n /\ g = [b \in 0 .. n |-> g[b]]
                           /\ Recurs(g, m, size, align, 0 .. n)
           Bad == {n \in Addr : ~Ok(n)}
<1>1. W \in Nat /\ W > 1 /\ Addr \in SUBSET Nat /\ W - 1 \in Addr /\ 0 .. W - 1 = Addr
  BY LmbAssumption DEF Addr
<1>2. \A b \in Addr : Descends(m, size, b) =>
        Below(size, align, b) \in Addr /\ Below(size, align, b) < b
  BY BelowType
<1>3. Bad = {}
  <2> SUFFICES ASSUME Bad # {} PROVE FALSE
    OBVIOUS
  <2>1. PICK n \in Bad : \A y \in Bad : n <= y
    <3>1. Bad \in SUBSET Nat
      BY <1>1
    <3> HIDE DEF Bad
    <3>2. QED
      BY <3>1, LeastNat
  <2>2. n \in Addr /\ n \in Nat /\ ~Ok(n)
    BY <1>1, <2>1
  <2>3. \A k \in 0 .. n - 1 : Ok(k)
    <3> SUFFICES ASSUME NEW k \in 0 .. n - 1, ~Ok(k) PROVE FALSE
      OBVIOUS
    <3>1. k \in Addr
      BY <1>1, <2>2 DEF Addr
    <3>2. k \in Bad
      BY <3>1
    <3>3. n <= k
      BY <2>1, <3>2
    <3>4. QED
      BY <2>2, <3>3
  <2> HIDE DEF Ok, Bad
  <2>4. PICK g : n > 0 => DOMAIN g = 0 .. n - 1 /\ Recurs(g, m, size, align, 0 .. n - 1)
    <3>1. CASE n > 0
      <4>1. Ok(n - 1)
        BY <2>2, <2>3, <3>1
      <4>2. QED
        BY <4>1 DEF Ok
    <3>2. CASE ~(n > 0)
      BY <3>2
    <3>3. QED
      BY <3>1, <3>2
  <2> DEFINE last == IF Descends(m, size, n) THEN g[Below(size, align, n)] ELSE Stay(m, size, n)
             h == [b \in 0 .. n |-> IF b = n THEN last ELSE g[b]]
  <2>5. \A b \in 0 .. n : b \in Addr /\ (Descends(m, size, b) =>
          /\ Below(size, align, b) \in 0 .. b - 1 /\ Below(size, align, b) \in 0 .. n
          /\ Below(size, align, b) # n)
    <3> TAKE b \in 0 .. n
    <3>1. b \in Addr
      BY <1>1, <2>2 DEF Addr
    <3>2. QED
      BY <1>1, <1>2, <2>2, <3>1
  <2>6. Recurs(h, m, size, align, 0 .. n)
    <3> SUFFICES ASSUME NEW b \in 0 .. n
                 PROVE  h[b] = IF Descends(m, size, b) THEN h[Below(size, align, b)]
                               ELSE Stay(m, size, b)
      BY DEF Recurs
    <3>1. Descends(m, size, b) => h[Below(size, align, b)] = g[Below(size, align, b)]
      BY <2>5
    <3>2. CASE b = n
      BY <3>1, <3>2
    <3>3. CASE b # n
      <4>1. b \in 0 .. n - 1 /\ n > 0
        BY <2>2, <3>3
      <4>2. h[b] = g[b]
        BY <3>3
      <4>3. QED
        BY <2>4, <3>1, <4>1, <4>2 DEF Recurs
    <3>4. QED
      BY <3>2, <3>3
  <2>7. DOMAIN h = 0 .. n /\ h = [b \in 0 .. n |-> h[b]]
    OBVIOUS
  <2> HIDE DEF h
  <2>8. Ok(n)
    BY <2>6, <2>7 DEF Ok
  <2>9. QED
    BY <2>2, <2>8
<1>4. Ok(W - 1)
  BY <1>1, <1>3
<1>5. PICK g : DOMAIN g = Addr /\ g = [b \in Addr |-> g[b]] /\ Recurs(g, m, size, align, Addr)
  BY <1>1, <1>4
<1>6. g = [b \in Addr |-> IF Descends(m, size, b) THEN g[Below(size, align, b)]
                          ELSE Stay(m, size, b)]
  BY <1>5 DEF Recurs
<1>7. QED
  BY <1>6

LEMMA SearchRecurs ==
  ASSUME reserved \in Table, NEW m \in Region, NEW size \in Sizes, NEW align \in Aligns
  PROVE  Recurs(Search(m, size, align), m, size, align, Addr)
<1> DEFINE f == CHOOSE g : g = [b \in Addr |-> IF Descends(m, size, b) THEN g[Below(size, align, b)]
                                               ELSE Stay(m, size, b)]
<1>1. f = [b \in Addr |-> IF Descends(m, size, b) THEN f[Below(size, align, b)]
                          ELSE Stay(m, size, b)]
  BY SearchExists
<1>2. Search(m, size, align) = f
  BY DEF Search, Descends, Below, Stay, ResBase, Met
<1> HIDE DEF f
<1>3. QED
  BY <1>1, <1>2 DEF Recurs

\* What the search finds is an address between the start of the region and
\* the address it began at, from where no reservation is met.
LEMMA SearchValue ==
  ASSUME reserved \in Table, NEW m \in Region, NEW size \in Sizes, NEW align \in Aligns,
         NEW f, f = Search(m, size, align)
  PROVE  \A b \in Addr : /\ f[b] \in Addr
                         /\ f[b] # 0 => f[b] <= b /\ m.base <= f[b] /\ Met(f[b], size) = {}
<1> DEFINE Fine(b) == /\ f[b] \in Addr
                      /\ f[b] # 0 => f[b] <= b /\ m.base <= f[b] /\ Met(f[b], size) = {}
           Bad == {b \in Addr : ~Fine(b)}
<1>1. W \in Nat /\ W > 1 /\ Addr \in SUBSET Nat /\ 0 \in Addr /\ m.base \in Int
  BY LmbAssumption, RegionType DEF Addr
<1>2. SUFFICES ASSUME Bad # {} PROVE FALSE
  OBVIOUS
<1>3. PICK b \in Bad : \A y \in Bad : b <= y
  <2>1. Bad \in SUBSET Nat
    BY <1>1
  <2> HIDE DEF Bad
  <2>2. QED
    BY <1>2, <2>1, LeastNat
<1>4. b \in Addr /\ b \in Nat /\ ~Fine(b)
  BY <1>1, <1>3
<1>5. \A y \in Addr : y < b => Fine(y)
  <2> SUFFICES ASSUME NEW y \in Addr, y < b, ~Fine(y) PROVE FALSE
    OBVIOUS
  <2>1. y \in Bad
    OBVIOUS
  <2>2. b <= y
    BY <1>3, <2>1
  <2>3. QED
    BY <1>1, <1>4, <2>2
<1>6. f[b] = IF Descends(m, size, b) THEN f[Below(size, align, b)] ELSE Stay(m, size, b)
  BY <1>4, SearchRecurs DEF Recurs
<1>7. CASE Descends(m, size, b)
  <2>1. Below(size, align, b) \in Addr /\ Below(size, align, b) < b
    BY <1>4, <1>7, BelowType
  <2>2. PICK c \in Addr : c = Below(size, align, b) /\ c < b
    BY <2>1
  <2>3. Fine(c) /\ c \in Nat
    BY <1>1, <1>5, <2>2
  <2>4. f[b] = f[c] /\ f[c] \in Nat
    BY <1>1, <1>6, <1>7, <2>2, <2>3
  <2>5. Fine(b)
    BY <1>4, <2>2, <2>3, <2>4
  <2>6. QED
    BY <1>4, <2>5
<1>8. CASE ~Descends(m, size, b)
  <2>1. f[b] = Stay(m, size, b)
    BY <1>6, <1>8
  <2>2. Fine(b)
    BY <1>1, <1>4, <2>1 DEF Stay
  <2>3. QED
    BY <1>4, <2>2
<1>9. QED
  BY <1>7, <1>8

LEMMA FoundValue ==
  ASSUME reserved \in Table, NEW m \in Region,
         NEW size \in Sizes, NEW align \in Aligns, NEW max \in Limits,
         NEW b, b = FoundIn(m, size, align, max)
  PROVE  /\ b \in Addr
         /\ b # 0 => /\ size <= m.size /\ (max # 0 => m.base < max)
                     /\ b <= Minus(Top(m, max), size) /\ m.base <= b /\ Met(b, size) = {}
<1>1. /\ W \in Nat /\ W > 1 /\ 0 \in Addr /\ size \in Addr /\ max \in Addr
      /\ align \in Nat \ {0} /\ m.base \in Addr /\ m.size \in Addr
  BY LmbAssumption, RegionType DEF Addr
<1>2. Plus(m.base, m.size) \in Addr
  BY <1>1, Modular
<1>3. Top(m, max) \in Addr
  BY <1>1, <1>2 DEF Top
<1>4. Minus(Top(m, max), size) \in Addr
  BY <1>1, <1>3, Modular
<1> DEFINE e == Minus(Top(m, max), size)
           a == lmb_align_down(e, align)
           f == Search(m, size, align)
<1>5. a \in Addr /\ a <= e
  BY <1>1, <1>4, AlignType
<1>6. f[a] \in Addr /\ (f[a] # 0 => f[a] <= a /\ m.base <= f[a] /\ Met(f[a], size) = {})
  BY <1>5, SearchValue
<1>7. b = IF m.size < size \/ (max # 0 /\ m.base >= max) THEN 0 ELSE f[a]
  BY DEF FoundIn
<1>8. e \in Int /\ a \in Int /\ m.size \in Int /\ size \in Int /\ m.base \in Int /\ max \in Int
  BY <1>1, <1>4, <1>5 DEF Addr
<1> HIDE DEF e, a, f
<1>9. f[a] \in Int
  BY <1>1, <1>6 DEF Addr
<1>10. QED
  BY <1>1, <1>5, <1>6, <1>7, <1>8, <1>9 DEF e

LEMMA AllocValue ==
  ASSUME memory \in Table, reserved \in Table,
         NEW size \in Sizes, NEW align \in Aligns, NEW max \in Limits,
         NEW base, base = AllocBase(size, align, max)
  PROVE  /\ base \in Addr
         /\ base # 0 => \E i \in Live(memory) : base = FoundIn(memory.reg[i], size, align, max)
<1> DEFINE hits == {i \in Live(memory) : FoundIn(memory.reg[i], size, align, max) # 0}
<1>1. base = IF hits = {} THEN 0 ELSE FoundIn(memory.reg[Max(hits)], size, align, max)
  BY DEF AllocBase
<1>2. memory.cnt \in Nat /\ hits \in SUBSET (-1 .. memory.cnt)
  BY TableType DEF Live
<1> HIDE DEF hits
<1>3. CASE hits = {}
  BY <1>1, <1>3, LmbAssumption DEF Addr
<1>4. CASE hits # {}
  <2>1. Max(hits) \in hits
    BY <1>2, <1>4, MaxIs
  <2>2. Max(hits) \in Live(memory)
    BY <2>1 DEF hits
  <2>3. memory.reg[Max(hits)] \in Region
    BY <2>2, TableType
  <2>4. base = FoundIn(memory.reg[Max(hits)], size, align, max)
    BY <1>1, <1>4
  <2>5. base \in Addr
    BY <2>3, <2>4, FoundValue
  <2>6. QED
    BY <2>2, <2>4, <2>5
<1>5. QED
  BY <1>3, <1>4

-----------------------------------------------------------------------------
LEMMA AlignUpType ==
  \A a \in Addr, n \in Addr \ {0} :
    /\ lmb_align_up(a, n) \in Addr
    /\ a > 0 /\ a + n - 1 < W => lmb_align_up(a, n) > 0
<1> SUFFICES ASSUME NEW a \in Addr, NEW n \in Addr \ {0}
             PROVE  /\ lmb_align_up(a, n) \in Addr
                    /\ a > 0 /\ a + n - 1 < W => lmb_align_up(a, n) > 0
  OBVIOUS
<1>1. W \in Nat /\ n \in Nat \ {0} /\ n - 1 \in Addr /\ a \in Nat
  BY LmbAssumption DEF Addr
<1> DEFINE c == Plus(a, n - 1)
<1>2. c \in Addr /\ (a + n - 1 < W => c = a + n - 1)
  BY <1>1, Modular
<1>3. lmb_align_up(a, n) = lmb_align_down(c, n)
  BY DEF lmb_align_up
<1> HIDE DEF c
<1>4. lmb_align_up(a, n) \in Addr
  BY <1>1, <1>2, <1>3, AlignType
<1>5. ASSUME a > 0, a + n - 1 < W PROVE lmb_align_up(a, n) > 0
  <2>1. c \in Nat /\ c >= n
    BY <1>1, <1>2, <1>5
  <2>2. c % n \in 0 .. n - 1
    BY <1>1, <2>1
  <2>3. n # 3 => lmb_align_down(c, n) > 0
    BY <1>1, <2>1, <2>2 DEF lmb_align_down
  <2>4. c >= 3 => c - (c % 4) + (c % 2) > 0
    BY <2>1
  <2>5. n = 3 => lmb_align_down(c, n) > 0
    BY <2>1, <2>4 DEF lmb_align_down
  <2>6. QED
    BY <1>3, <2>3, <2>5
<1>6. QED
  BY <1>4, <1>5

LEMMA InitTableType == InitTable \in Table
BY LmbAssumption DEF InitTable, Table, Region, R, Addr

LEMMA TypeStep == TypeOK /\ [Next]_vars => TypeOK'
<1> SUFFICES ASSUME TypeOK, [Next]_vars PROVE TypeOK'
  OBVIOUS
<1>a. /\ memory \in Table /\ reserved \in Table
      /\ NoGot \in [base : Addr, size : Addr, max : Addr]
      /\ Sizes \subseteq Addr /\ Limits \subseteq Addr
  BY LmbAssumption DEF TypeOK, NoGot, Addr
<1>b. \A b, s : Span(b, s) \subseteq Addr
  BY DEF Span
<1>c. Call => ops' \in 0 .. MaxOps
  BY LmbAssumption DEF Call, TypeOK
<1>d. /\ \A x : Overlaps(x) \subseteq {"overlap"}
      /\ \A t : Wild(t) \subseteq {"wild"}
      /\ \A a, b : Wraps(a, b) \subseteq {"wrapped"}
  BY DEF Overlaps, Wild, Wraps
<1>1. CASE Add
  <2>1. PICK x \in Memory :
          /\ memory' = lmb_add_region(memory, x).t
          /\ ram' \subseteq ram \union Span(x.base, x.size)
    BY <1>1 DEF Add
  <2>2. x \in Region
    BY LmbAssumption
  <2>3. memory' \in Table
    BY <1>a, <2>1, <2>2, AddType
  <2>4. QED
    BY <1>1, <1>a, <1>b, <2>1, <2>3 DEF Add, TypeOK
<1>2. CASE Reserve
  <2>1. PICK b \in Addr, s \in Sizes :
          /\ reserved' = lmb_add_region(reserved, R(b, s)).t
          /\ held' \subseteq held \union Span(b, s)
          /\ spoilt' = spoilt \union Overlaps(R(b, s)) \union Wild(reserved)
    BY <1>2 DEF Reserve
  <2>2. R(b, s) \in Region
    BY <1>a, RegionType
  <2>3. reserved' \in Table
    BY <1>a, <2>1, <2>2, AddType
  <2>4. QED
    BY <1>2, <1>a, <1>b, <1>c, <1>d, <2>1, <2>3 DEF Reserve, TypeOK
<1>3. CASE Free
  <2>1. PICK b \in Addr, s \in Sizes :
          /\ reserved' = lmb_free(reserved, R(b, s)).t
          /\ held' \subseteq held
          /\ spoilt' \subseteq spoilt \union {"emptied", "cut"}
    BY <1>3 DEF Free
  <2>2. R(b, s) \in Region
    BY <1>a, RegionType
  <2>3. reserved' \in Table
    BY <1>a, <2>1, <2>2, FreeType
  <2>4. QED
    BY <1>3, <1>a, <1>c, <2>1, <2>3 DEF Free, TypeOK
<1>4. CASE Alloc
  <2>1. PICK size, align, max, base :
          /\ size \in Sizes /\ align \in Aligns /\ max \in Limits
          /\ base = AllocBase(size, align, max)
          /\ \/ /\ got' = NoGot
                /\ UNCHANGED <<reserved, held, spoilt>>
             \/ LET x == R(base, lmb_align_up(size, align)) IN
                /\ reserved' = lmb_add_region(reserved, x).t
                /\ got' = [base |-> base, size |-> size, max |-> max]
                /\ held' \subseteq held \union Span(base, x.size)
                /\ spoilt' = spoilt \union Overlaps(x) \union Wild(reserved)
                               \union Wraps(size, align - 1) \union Wraps(base, x.size)
    BY <1>4 DEF Alloc
  <2> size \in Sizes /\ align \in Aligns /\ max \in Limits
    BY <2>1
  <2>2. UNCHANGED <<memory, ram>> /\ Call
    BY <1>4 DEF Alloc
  <2>3. base \in Addr
    BY <1>a, <2>1, AllocValue
  <2>4. lmb_align_up(size, align) \in Addr
    BY <1>a, AlignUpType, LmbAssumption
  <2>5. R(base, lmb_align_up(size, align)) \in Region
    BY <2>3, <2>4, RegionType
  <2>6. lmb_add_region(reserved, R(base, lmb_align_up(size, align))).t \in Table
    BY <1>a, <2>5, AddType
  <2>7. [base |-> base, size |-> size, max |-> max] \in [base : Addr, size : Addr, max : Addr]
    BY <1>a, <2>3
  <2>8. reserved' \in Table /\ got' \in [base : Addr, size : Addr, max : Addr]
    BY <1>a, <2>1, <2>6, <2>7
  <2>9. held' \subseteq Addr /\ spoilt' \subseteq {"overlap", "emptied", "cut", "wild", "wrapped"}
    BY <1>b, <1>d, <2>1 DEF TypeOK
  <2>10. QED
    BY <1>c, <2>2, <2>8, <2>9 DEF TypeOK
<1>5. CASE UNCHANGED vars
  BY <1>5 DEF vars, TypeOK
<1>6. CASE Rest
  BY <1>5, <1>6 DEF Rest
<1>7. QED
  BY <1>1, <1>2, <1>3, <1>4, <1>5, <1>6 DEF Next

LEMMA TypeInit == Init => TypeOK
BY InitTableType, LmbAssumption DEF Init, TypeOK, NoGot, Addr

\* No call makes a table larger than its array, whatever regions are passed,
\* and the search of an allocation, however often it steps down past a
\* reservation, ends at an address.
THEOREM LmbTypeCorrect == Spec => []TypeOK
BY TypeInit, TypeStep, PTL DEF Spec

-----------------------------------------------------------------------------
(***************************************************************************)
(* Sound tables.                                                           *)
(***************************************************************************)
End(r) == r.base + r.size
In(r, a) == r.base <= a /\ a < End(r)
Covered(t, a) == \E i \in Live(t) : In(t.reg[i], a)

Ordered(t) ==
  /\ t.cnt > 0
  /\ \A i \in Live(t) : t.reg[i].size > 0 /\ End(t.reg[i]) < W
  /\ \A i, j \in Live(t) : i < j => End(t.reg[i]) < t.reg[j].base

Sound(t, S) == Ordered(t) /\ \A a \in Addr : a \in S <=> Covered(t, a)

\* A table that was just initialised holds nothing.
Keeps(t, S) == (Dummy(t) /\ t.reg[0].base = 0 /\ S = {}) \/ Sound(t, S)

LEMMA RegionInt ==
  /\ W \in Nat /\ Addr \in SUBSET Nat
  /\ \A r \in Region : r.base \in Nat /\ r.size \in Nat /\ End(r) \in Nat
                       /\ r.base < W /\ r.size < W
                       /\ (End(r) < W => Upto(r) = End(r))
                       /\ \A a \in Addr : a \in Span(r.base, r.size) <=> In(r, a)
<1>1. W \in Nat /\ W > 1 /\ Addr \in SUBSET Nat
  BY LmbAssumption DEF Addr
<1> SUFFICES ASSUME NEW r \in Region
             PROVE  /\ r.base \in Nat /\ r.size \in Nat /\ End(r) \in Nat
                    /\ r.base < W /\ r.size < W
                    /\ (End(r) < W => Upto(r) = End(r))
                    /\ \A a \in Addr : a \in Span(r.base, r.size) <=> In(r, a)
  BY <1>1
<1>2. r.base \in Addr /\ r.size \in Addr
  BY RegionType
<1>3. r.base \in Nat /\ r.size \in Nat /\ r.base < W /\ r.size < W
  BY <1>1, <1>2 DEF Addr
<1>4. End(r) < W => Upto(r) = End(r)
  BY <1>2, Modular DEF End, Upto
<1>5. \A a \in Addr : a \in Span(r.base, r.size) <=> In(r, a)
  BY <1>1, <1>3 DEF Span, In, End
<1>6. QED
  BY <1>3, <1>4, <1>5 DEF End

\* Region i is replaced by m.
LEMMA ReplaceSound ==
  ASSUME NEW t \in Table, NEW u \in Table, Ordered(t), u.cnt = t.cnt,
         NEW i \in Live(t), NEW m \in Region, m.size > 0, End(m) < W,
         \A j \in Live(t) : u.reg[j] = IF j = i THEN m ELSE t.reg[j],
         \A j \in Live(t) : j < i => End(t.reg[j]) < m.base,
         \A j \in Live(t) : j > i => End(m) < t.reg[j].base
  PROVE  /\ Ordered(u)
         /\ \A a : Covered(u, a) <=> In(m, a) \/ \E j \in Live(t) : j # i /\ In(t.reg[j], a)
<1>1. Live(u) = Live(t) /\ Live(t) \subseteq Nat
  BY TableType DEF Live
<1>2. \A j, k \in Live(t) : j < k => End(u.reg[j]) < u.reg[k].base
  BY <1>1 DEF Ordered
<1>3. QED
  BY <1>1, <1>2 DEF Ordered, Covered

\* Region r is removed, and is not the only one.
LEMMA RemoveSound ==
  ASSUME NEW t \in Table, Ordered(t), NEW r \in Live(t), t.cnt > 1,
         NEW u, u = lmb_remove_region(t, r)
  PROVE  /\ Ordered(u)
         /\ \A a : Covered(u, a) <=> \E j \in Live(t) : j # r /\ In(t.reg[j], a)
<1>1. /\ u \in Table /\ u.cnt = t.cnt - 1
      /\ \A j \in Live(u) : u.reg[j] = IF j < r THEN t.reg[j] ELSE t.reg[j + 1]
  BY RemoveType
<1>2. t.cnt \in Nat /\ r \in 0 .. t.cnt - 1 /\ Live(u) = 0 .. t.cnt - 2 /\ Live(t) = 0 .. t.cnt - 1
  BY <1>1, TableType DEF Live
<1> DEFINE from(j) == IF j < r THEN j ELSE j + 1
<1>3. \A j \in Live(u) : from(j) \in Live(t) /\ from(j) # r /\ u.reg[j] = t.reg[from(j)]
  BY <1>1, <1>2
<1>4. \A j, k \in Live(u) : j < k => from(j) < from(k)
  BY <1>2
<1>5. \A j \in Live(t) : j # r => \E k \in Live(u) : from(k) = j
  <2> SUFFICES ASSUME NEW j \in Live(t), j # r PROVE \E k \in Live(u) : from(k) = j
    OBVIOUS
  <2>1. CASE j < r
    BY <1>2, <2>1
  <2>2. CASE j > r
    <3>1. j - 1 \in Live(u) /\ from(j - 1) = j
      BY <1>2, <2>2
    <3>2. QED
      BY <3>1
  <2>3. QED
    BY <1>2, <2>1, <2>2
<1> HIDE DEF from
<1>6. Ordered(u)
  <2>1. u.cnt > 0
    BY <1>1, <1>2
  <2>2. \A j \in Live(u) : u.reg[j].size > 0 /\ End(u.reg[j]) < W
    BY <1>3 DEF Ordered
  <2>3. ASSUME NEW j \in Live(u), NEW k \in Live(u), j < k
        PROVE  End(u.reg[j]) < u.reg[k].base
    <3>1. from(j) \in Live(t) /\ from(k) \in Live(t) /\ from(j) < from(k)
      BY <1>3, <1>4, <2>3
    <3>2. End(t.reg[from(j)]) < t.reg[from(k)].base
      BY <3>1 DEF Ordered
    <3>3. QED
      BY <1>3, <3>2
  <2>4. QED
    BY <2>1, <2>2, <2>3 DEF Ordered
<1>7. QED
  BY <1>3, <1>5, <1>6 DEF Covered

-----------------------------------------------------------------------------
(***************************************************************************)
(* Adding region x, of which nothing is in the table.                      *)
(***************************************************************************)
Fresh(t, x, S) ==
  /\ t \in Table /\ S \in SUBSET Addr /\ Sound(t, S)
  /\ x \in Region /\ x.size > 0 /\ End(x) < W
  /\ Span(x.base, x.size) \intersect S = {}

LEMMA FreshIsApart ==
  ASSUME NEW t, NEW x, NEW S, Fresh(t, x, S), NEW i \in Live(t)
  PROVE  /\ t.reg[i] \in Region /\ t.reg[i] # x
         /\ End(t.reg[i]) <= x.base \/ End(x) <= t.reg[i].base
         /\ t.reg[i].size > 0 /\ End(t.reg[i]) < W
         /\ lmb_addrs_adjacent(x, t.reg[i]) > 0 <=> t.reg[i].base = End(x)
         /\ lmb_addrs_adjacent(x, t.reg[i]) # 0 <=>
              t.reg[i].base = End(x) \/ x.base = End(t.reg[i])
<1>0. /\ t \in Table /\ S \in SUBSET Addr /\ Sound(t, S)
      /\ x \in Region /\ x.size > 0 /\ End(x) < W
      /\ Span(x.base, x.size) \intersect S = {}
  BY DEF Fresh
<1>1. t.reg[i] \in Region /\ t.reg[i].size > 0 /\ End(t.reg[i]) < W
  BY <1>0, TableType DEF Sound, Ordered
<1> DEFINE r == t.reg[i]
<1>2. /\ r.base \in Nat /\ r.size \in Nat /\ End(r) = r.base + r.size
      /\ x.base \in Nat /\ x.size \in Nat /\ End(x) = x.base + x.size
      /\ r.base \in Addr /\ x.base \in Addr
  BY <1>0, <1>1, RegionInt, RegionType DEF End
<1>3. \A a \in Addr : ~(In(r, a) /\ In(x, a))
  <2> SUFFICES ASSUME NEW a \in Addr, In(r, a), In(x, a) PROVE FALSE
    OBVIOUS
  <2>1. a \in S
    BY <1>0 DEF Sound, Covered
  <2>2. a \in Span(x.base, x.size)
    BY <1>0, RegionInt
  <2>3. QED
    BY <1>0, <2>1, <2>2
<1>4. End(r) <= x.base \/ End(x) <= r.base
  <2>1. ~(In(r, x.base) /\ In(x, x.base)) /\ ~(In(r, r.base) /\ In(x, r.base))
    BY <1>2, <1>3
  <2>2. QED
    BY <1>0, <1>1, <1>2, <2>1 DEF In
<1>5. r # x
  BY <1>0, <1>2, <1>4
<1>6. Upto(r) = End(r) /\ Upto(x) = End(x)
  BY <1>0, <1>1, RegionInt
<1>7. QED
  BY <1>0, <1>1, <1>2, <1>4, <1>5, <1>6 DEF lmb_addrs_adjacent, Upto

LEMMA InsertSound ==
  ASSUME NEW t, NEW x, NEW S, Fresh(t, x, S), t.cnt < MaxRegions,
         \A i \in Live(t) : lmb_addrs_adjacent(x, t.reg[i]) = 0
  PROVE  Sound(Insert(t, x), S \union Span(x.base, x.size))
<1>0. /\ t \in Table /\ Ordered(t) /\ (\A a \in Addr : a \in S <=> Covered(t, a))
      /\ x \in Region /\ x.size > 0 /\ End(x) < W /\ S \in SUBSET Addr
  BY DEF Fresh, Sound
<1>1. /\ t.cnt \in Nat /\ t.cnt > 0 /\ Live(t) = 0 .. t.cnt - 1
      /\ x.base \in Nat /\ End(x) \in Nat /\ x.base < End(x)
      /\ \A i \in Live(t) : t.reg[i].base \in Nat /\ End(t.reg[i]) \in Nat
                            /\ t.reg[i].base < End(t.reg[i])
  BY <1>0, TableType, RegionInt, SMTT(30) DEF Ordered, Live, End
<1>2. \A i \in Live(t) : End(t.reg[i]) < x.base \/ End(x) < t.reg[i].base
  BY <1>1, FreshIsApart, SMTT(30)
<1>3. \A i \in Live(t) : t.reg[0].base <= t.reg[i].base
  BY <1>0, <1>1 DEF Ordered
<1> DEFINE u == Insert(t, x)
<1>4. u \in Table /\ u.cnt = t.cnt + 1
  BY <1>0, InsertType
<1>5. PICK k \in -1 .. t.cnt - 1 :
        /\ \A i \in Live(t) : i > k => x.base < t.reg[i].base
        /\ k >= 0 => t.reg[k].base <= x.base
        /\ \A j \in 0 .. t.cnt : u.reg[j] = IF j <= k THEN t.reg[j]
                                            ELSE IF j = k + 1 THEN x ELSE t.reg[j - 1]
  BY <1>0, <1>1, <1>3, InsertType
<1> HIDE DEF u
<1>6. ASSUME NEW i \in Live(t), i <= k PROVE t.reg[i].base <= x.base
  <2>1. k \in Live(t) /\ k >= 0 /\ (i = k \/ i < k)
    BY <1>1, <1>5, <1>6
  <2>2. i < k => End(t.reg[i]) < t.reg[k].base
    BY <1>0, <2>1 DEF Ordered
  <2>3. /\ t.reg[i].base \in Nat /\ t.reg[i].base < End(t.reg[i]) /\ End(t.reg[i]) \in Nat
        /\ t.reg[k].base \in Nat /\ t.reg[k].base <= x.base /\ x.base \in Nat
    BY <1>1, <1>5, <2>1
  <2>4. CASE i = k
    BY <2>3, <2>4
  <2>5. CASE i < k
    BY <2>2, <2>3, <2>5
  <2>6. QED
    BY <2>1, <2>4, <2>5
<1>7. \A i \in Live(t) : /\ i <= k => End(t.reg[i]) < x.base
                         /\ i > k => End(x) < t.reg[i].base
  BY <1>1, <1>2, <1>5, <1>6
<1>8. Live(u) = 0 .. t.cnt
  BY <1>1, <1>4 DEF Live
<1>9. \A j \in Live(u) : /\ j <= k => j \in Live(t) /\ u.reg[j] = t.reg[j]
                         /\ j = k + 1 => u.reg[j] = x
                         /\ j > k + 1 => j - 1 \in Live(t) /\ u.reg[j] = t.reg[j - 1]
  BY <1>1, <1>5, <1>8, SMTT(30)
<1>10. \A j \in Live(u) : u.reg[j].size > 0 /\ End(u.reg[j]) < W
  BY <1>0, <1>1, <1>5, <1>8, <1>9, SMTT(30) DEF Ordered
<1>11. ASSUME NEW i \in Live(u), NEW j \in Live(u), i < j
       PROVE  End(u.reg[i]) < u.reg[j].base
  <2>1. CASE j <= k
    BY <1>0, <1>5, <1>8, <1>9, <1>11, <2>1 DEF Ordered
  <2>2. CASE j = k + 1
    BY <1>5, <1>7, <1>8, <1>9, <1>11, <2>2
  <2>3. CASE j > k + 1 /\ i <= k
    <3>1. /\ i \in Live(t) /\ j - 1 \in Live(t) /\ i < j - 1
          /\ u.reg[i] = t.reg[i] /\ u.reg[j] = t.reg[j - 1]
      BY <1>5, <1>8, <1>9, <2>3
    <3>2. QED
      BY <1>0, <3>1 DEF Ordered
  <2>4. CASE j > k + 1 /\ i = k + 1
    <3>1. j - 1 \in Live(t) /\ j - 1 > k /\ u.reg[i] = x /\ u.reg[j] = t.reg[j - 1]
      BY <1>5, <1>8, <1>9, <2>4
    <3>2. QED
      BY <1>7, <3>1
  <2>5. CASE j > k + 1 /\ i > k + 1
    <3>1. /\ i - 1 \in Live(t) /\ j - 1 \in Live(t) /\ i - 1 < j - 1
          /\ u.reg[i] = t.reg[i - 1] /\ u.reg[j] = t.reg[j - 1]
      BY <1>5, <1>8, <1>9, <1>11, <2>5
    <3>2. QED
      BY <1>0, <3>1 DEF Ordered
  <2>6. QED
    BY <1>1, <1>5, <1>8, <2>1, <2>2, <2>3, <2>4, <2>5
<1>12. Ordered(u)
  BY <1>1, <1>4, <1>10, <1>11 DEF Ordered
<1>13. ASSUME NEW a \in Addr PROVE Covered(u, a) <=> Covered(t, a) \/ In(x, a)
  <2>1. ASSUME NEW j \in Live(u), In(u.reg[j], a) PROVE Covered(t, a) \/ In(x, a)
    BY <1>1, <1>5, <1>8, <1>9, <2>1 DEF Covered
  <2>2. ASSUME NEW i \in Live(t), In(t.reg[i], a) PROVE Covered(u, a)
    <3>1. CASE i <= k
      <4>1. i \in Live(u) /\ u.reg[i] = t.reg[i]
        BY <1>1, <1>8, <1>9, <3>1
      <4>2. QED
        BY <2>2, <4>1 DEF Covered
    <3>2. CASE i > k
      <4>1. i + 1 \in Live(u) /\ u.reg[i + 1] = t.reg[i]
        BY <1>1, <1>5, <1>8, <3>2
      <4>2. QED
        BY <2>2, <4>1 DEF Covered
    <3>3. QED
      BY <1>1, <1>5, <3>1, <3>2
  <2>3. In(x, a) => Covered(u, a)
    <3>1. k + 1 \in Live(u) /\ u.reg[k + 1] = x
      BY <1>1, <1>5, <1>8, <1>9
    <3>2. QED
      BY <3>1 DEF Covered
  <2>4. QED
    BY <2>1, <2>2, <2>3 DEF Covered
<1>14. \A a \in Addr : a \in Span(x.base, x.size) <=> In(x, a)
  BY <1>0, RegionInt
<1>15. QED
  BY <1>0, <1>12, <1>13, <1>14 DEF Sound, u

\* Two regions of which the second begins where the first ends.
LEMMA MergeRegions ==
  ASSUME NEW p \in Region, NEW q \in Region, p.size > 0, q.size > 0,
         q.base = End(p), End(q) < W
  PROVE  /\ Minus(q.base, p.size) = p.base /\ Plus(p.size, q.size) = Plus(q.size, p.size)
         /\ LET m == R(p.base, Plus(p.size, q.size)) IN
            /\ m \in Region /\ m.base = p.base /\ m.size > 0 /\ End(m) = End(q)
            /\ \A a \in Addr : In(m, a) <=> In(p, a) \/ In(q, a)
<1>1. /\ p.base \in Addr /\ p.size \in Addr /\ q.base \in Addr /\ q.size \in Addr
      /\ p.base \in Nat /\ p.size \in Nat /\ q.base \in Nat /\ q.size \in Nat
      /\ q.base < W /\ p.size < W /\ W \in Nat /\ Addr \in SUBSET Nat
  BY RegionType, RegionInt
<1>2. q.base = p.base + p.size /\ q.base + q.size < W
  BY DEF End
<1>3. Minus(q.base, p.size) = p.base
  <2>1. p.size <= q.base /\ q.base - p.size = p.base
    BY <1>1, <1>2
  <2>2. QED
    BY <1>1, <2>1, Modular
<1>4. Plus(p.size, q.size) = p.size + q.size /\ Plus(q.size, p.size) = p.size + q.size
  <2>1. p.size + q.size < W /\ q.size + p.size < W /\ q.size + p.size = p.size + q.size
    BY <1>1, <1>2
  <2>2. QED
    BY <1>1, <2>1, Modular
<1> DEFINE m == R(p.base, Plus(p.size, q.size))
<1>5. m \in Region /\ m.base = p.base /\ m.size = p.size + q.size
  <2>1. Plus(p.size, q.size) \in Addr
    BY <1>1, Modular
  <2>2. QED
    BY <1>1, <1>4, <2>1, RegionType
<1> HIDE DEF m
<1>6. m.size > 0 /\ End(m) = End(q)
  BY <1>1, <1>2, <1>5 DEF End
<1>7. \A a \in Addr : In(m, a) <=> In(p, a) \/ In(q, a)
  BY <1>1, <1>2, <1>5 DEF In, End
<1>8. QED
  BY <1>3, <1>4, <1>5, <1>6, <1>7 DEF m

LEMMA RegionNum ==
  \A r \in Region : r.size > 0 => r.base \in Nat /\ End(r) \in Nat /\ r.base < End(r)
BY RegionInt DEF End

\* Two regions, both within the address space, meet.
LEMMA AdjacentIs ==
  ASSUME NEW p \in Region, NEW q \in Region, End(p) < W, End(q) < W
  PROVE  lmb_addrs_adjacent(p, q) # 0 <=> q.base = End(p) \/ p.base = End(q)
BY RegionInt DEF lmb_addrs_adjacent, Upto

\* A region that ends where x begins, or begins where x ends, grows by x.
LEMMA GrowSound ==
  ASSUME NEW t, NEW x, NEW S, Fresh(t, x, S), NEW i \in Live(t),
         lmb_addrs_adjacent(x, t.reg[i]) # 0,
         \A j \in Live(t) : j < i => lmb_addrs_adjacent(x, t.reg[j]) = 0
  PROVE  Sound(JoinNext(Grow(t, i, x), i), S \union Span(x.base, x.size))
<1>0. /\ t \in Table /\ Ordered(t) /\ (\A a \in Addr : a \in S <=> Covered(t, a))
      /\ x \in Region /\ x.size > 0 /\ End(x) < W /\ S \in SUBSET Addr
  BY DEF Fresh, Sound
<1> DEFINE r == t.reg[i]
           v == Grow(t, i, x)
           u == JoinNext(v, i)
<1>1. t.cnt \in Nat /\ Live(t) = 0 .. t.cnt - 1 /\ i \in 0 .. t.cnt - 1 /\ W \in Nat
  BY <1>0, TableType, RegionInt DEF Live
<1>2. \A j \in Live(t) : /\ t.reg[j] \in Region /\ t.reg[j].size > 0 /\ End(t.reg[j]) < W
                         /\ t.reg[j].base \in Nat /\ End(t.reg[j]) \in Nat
                         /\ t.reg[j].base < End(t.reg[j])
  BY <1>0, TableType, RegionNum DEF Ordered
<1>3. /\ r \in Region /\ r.size > 0 /\ End(r) < W
      /\ r.base \in Nat /\ End(r) \in Nat /\ r.base < End(r)
      /\ x.base \in Nat /\ End(x) \in Nat /\ x.base < End(x)
  BY <1>0, <1>2, RegionNum
<1>4. \A j \in Live(t) : /\ End(t.reg[j]) <= x.base \/ End(x) <= t.reg[j].base
                         /\ j < i => End(t.reg[j]) # x.base /\ End(t.reg[j]) < r.base
                         /\ j > i => End(r) < t.reg[j].base
  BY <1>0, FreshIsApart DEF Ordered
<1>5. r.base = End(x) \/ x.base = End(r)
  BY FreshIsApart
<1>6. /\ v \in Table /\ v.cnt = t.cnt /\ Live(v) = Live(t)
      /\ \A j \in 0 .. MaxRegions : j # i => v.reg[j] = t.reg[j]
      /\ r.base = End(x) => v.reg[i] = R(Minus(r.base, x.size), Plus(r.size, x.size))
      /\ r.base # End(x) => v.reg[i] = R(r.base, Plus(r.size, x.size))
  BY <1>0, GrowType, FreshIsApart
<1> HIDE DEF v
<1>7. \A j \in Live(t) : j # i => v.reg[j] = t.reg[j]
  BY <1>0, <1>6, TableType
<1>8. u \in Table
  BY <1>6, JoinType
<1>9. \A a \in Addr : a \in Span(x.base, x.size) <=> In(x, a)
  BY <1>0, RegionInt
<1>10. SUFFICES Ordered(u) /\ \A a \in Addr : Covered(u, a) <=> Covered(t, a) \/ In(x, a)
  <2> HIDE DEF u
  <2>1. ASSUME Ordered(u), \A a \in Addr : Covered(u, a) <=> Covered(t, a) \/ In(x, a)
        PROVE  Sound(u, S \union Span(x.base, x.size))
    BY <1>0, <1>9, <2>1 DEF Sound
  <2>2. QED
    BY <2>1 DEF u, v
<1> HIDE DEF u, r
\* What region i became.
<1>11. PICK m \in Region :
         /\ v.reg[i] = m /\ m.size > 0 /\ End(m) < W
         /\ \A a \in Addr : In(m, a) <=> In(r, a) \/ In(x, a)
         /\ r.base = End(x) => m.base = x.base /\ End(m) = End(r)
         /\ r.base # End(x) => m.base = r.base /\ End(m) = End(x)
  <2>1. CASE r.base = End(x)
    BY <1>0, <1>3, <1>6, <2>1, MergeRegions
  <2>2. CASE r.base # End(x)
    BY <1>0, <1>3, <1>5, <1>6, <2>2, MergeRegions
  <2>3. QED
    BY <2>1, <2>2
<1>12. m.base \in Nat /\ End(m) \in Nat /\ m.base < End(m)
  BY <1>11, RegionNum
<1>13. \A j \in Live(t) : /\ j < i => End(t.reg[j]) < m.base
                          /\ j > i => End(m) <= t.reg[j].base
  <2> TAKE j \in Live(t)
  <2>1. t.reg[j].base \in Nat /\ End(t.reg[j]) \in Nat /\ t.reg[j].base < End(t.reg[j])
    BY <1>2
  <2>2. /\ End(t.reg[j]) <= x.base \/ End(x) <= t.reg[j].base
        /\ j < i => End(t.reg[j]) # x.base /\ End(t.reg[j]) < r.base
        /\ j > i => End(r) < t.reg[j].base
    BY <1>4
  <2>3. QED
    BY <1>3, <1>5, <1>11, <1>12, <2>1, <2>2
<1>14. i < t.cnt - 1 => /\ i + 1 \in Live(t) /\ v.reg[i + 1] = t.reg[i + 1]
                        /\ lmb_addrs_adjacent(v.reg[i], v.reg[i + 1]) # 0 <=> t.reg[i + 1].base = End(m)
  <2> SUFFICES ASSUME i < t.cnt - 1
               PROVE  /\ i + 1 \in Live(t) /\ v.reg[i + 1] = t.reg[i + 1]
                      /\ lmb_addrs_adjacent(v.reg[i], v.reg[i + 1]) # 0 <=> t.reg[i + 1].base = End(m)
    OBVIOUS
  <2>1. PICK k \in Live(t) : k = i + 1 /\ k > i /\ k # i
    BY <1>1
  <2>2. End(m) <= t.reg[k].base /\ v.reg[k] = t.reg[k]
    BY <1>7, <1>13, <2>1
  <2>3. m.base # End(t.reg[k])
    BY <1>2, <1>12, <2>2
  <2>4. lmb_addrs_adjacent(m, t.reg[k]) # 0 <=> t.reg[k].base = End(m)
    BY <1>2, <1>11, <2>3, AdjacentIs
  <2>5. QED
    BY <1>11, <2>1, <2>2, <2>4
<1>15. CASE ~(i < t.cnt - 1 /\ t.reg[i + 1].base = End(m))
  <2>1. u = v
    BY <1>6, <1>14, <1>15, JoinType DEF u
  <2>2. \A j \in Live(t) : u.reg[j] = IF j = i THEN m ELSE t.reg[j]
    BY <1>7, <1>11, <2>1
  <2>3. ASSUME NEW j \in Live(t), j > i PROVE End(m) < t.reg[j].base
    <3>1. PICK k \in Live(t) : k = i + 1 /\ k > i /\ i < t.cnt - 1 /\ (j = k \/ k < j)
      BY <1>1, <2>3
    <3>2. End(m) <= t.reg[k].base /\ End(m) # t.reg[k].base
      BY <1>13, <1>15, <3>1
    <3>3. k < j => End(t.reg[k]) < t.reg[j].base
      BY <1>0 DEF Ordered
    <3>4. /\ t.reg[k].base \in Nat /\ End(t.reg[k]) \in Nat /\ t.reg[k].base < End(t.reg[k])
          /\ t.reg[j].base \in Nat
      BY <1>2
    <3>5. QED
      BY <1>12, <3>1, <3>2, <3>3, <3>4
  <2>4. \A j \in Live(t) : j < i => End(t.reg[j]) < m.base
    BY <1>13
  <2>5. u.cnt = t.cnt /\ m.size > 0 /\ End(m) < W
    BY <1>6, <1>11, <2>1
  <2>6. /\ Ordered(u)
        /\ \A a : Covered(u, a) <=> In(m, a) \/ \E j \in Live(t) : j # i /\ In(t.reg[j], a)
    BY <1>0, <1>8, <2>2, <2>3, <2>4, <2>5, ReplaceSound
  <2>7. QED
    BY <1>11, <2>6 DEF Covered, r
<1>16. CASE i < t.cnt - 1 /\ t.reg[i + 1].base = End(m)
  <2> DEFINE n == t.reg[i + 1]
             mm == R(m.base, Plus(m.size, n.size))
             w == lmb_remove_region(t, i + 1)
  <2>1. i + 1 \in Live(t) /\ n \in Region /\ n.size > 0 /\ End(n) < W
    BY <1>2, <1>14, <1>16
  <2>2. /\ mm \in Region /\ mm.base = m.base /\ mm.size > 0 /\ End(mm) = End(n)
        /\ \A a \in Addr : In(mm, a) <=> In(m, a) \/ In(n, a)
    BY <1>11, <1>16, <2>1, MergeRegions
  <2>3. /\ u.cnt = t.cnt - 1
        /\ \A j \in Live(u) : u.reg[j] = IF j < i THEN v.reg[j] ELSE IF j = i THEN mm ELSE v.reg[j + 1]
    <3>1. i < v.cnt - 1 /\ lmb_addrs_adjacent(v.reg[i], v.reg[i + 1]) # 0 /\ i \in Live(v)
      BY <1>6, <1>14, <1>16
    <3>2. R(v.reg[i].base, Plus(v.reg[i].size, v.reg[i + 1].size)) = mm
      BY <1>11, <1>14, <1>16
    <3> HIDE DEF mm
    <3>3. QED
      BY <1>6, <3>1, <3>2, JoinType DEF u
  <2>4. /\ w \in Table /\ w.cnt = t.cnt - 1
        /\ \A j \in Live(w) : w.reg[j] = IF j < i + 1 THEN t.reg[j] ELSE t.reg[j + 1]
    BY <1>0, <2>1, RemoveType
  <2>5. t.cnt > 1 /\ w = lmb_remove_region(t, i + 1)
    BY <1>1, <1>16
  <2> HIDE DEF w, mm
  <2>6. /\ Ordered(w)
        /\ \A a : Covered(w, a) <=> \E j \in Live(t) : j # i + 1 /\ In(t.reg[j], a)
    BY <1>0, <2>1, <2>5, RemoveSound
  <2>7. Live(w) = 0 .. t.cnt - 2 /\ Live(u) = Live(w) /\ i \in Live(w) /\ Live(w) \subseteq Live(t)
    BY <1>1, <1>16, <2>3, <2>4 DEF Live
  <2>8. \A j \in Live(w) : u.reg[j] = IF j = i THEN mm ELSE w.reg[j]
    <3> TAKE j \in Live(w)
    <3>1. CASE j < i
      BY <1>1, <1>7, <2>3, <2>4, <2>7, <3>1
    <3>2. CASE j = i
      BY <1>1, <2>3, <2>7, <3>2
    <3>3. CASE j > i
      <4>1. j + 1 \in Live(t) /\ j + 1 # i /\ ~(j < i) /\ j # i /\ ~(j < i + 1)
        BY <1>1, <2>7, <3>3
      <4>2. QED
        BY <1>7, <2>3, <2>4, <2>7, <4>1
    <3>4. QED
      BY <1>1, <2>7, <3>1, <3>2, <3>3
  <2>9. End(mm) < W /\ u.cnt = w.cnt
    BY <2>1, <2>2, <2>3, <2>4
  <2>10. ASSUME NEW j \in Live(w), j < i PROVE End(w.reg[j]) < mm.base
    <3>1. w.reg[j] = t.reg[j] /\ j \in Live(t)
      BY <1>1, <2>4, <2>7, <2>10
    <3>2. QED
      BY <1>13, <2>2, <2>10, <3>1
  <2>11. ASSUME NEW j \in Live(w), j > i PROVE End(mm) < w.reg[j].base
    <3>1. w.reg[j] = t.reg[j + 1] /\ j + 1 \in Live(t) /\ i + 1 < j + 1
      BY <1>1, <2>4, <2>7, <2>11
    <3>2. End(n) < t.reg[j + 1].base
      BY <1>0, <2>1, <3>1 DEF Ordered
    <3>3. QED
      BY <2>2, <3>1, <3>2
  <2>12. /\ Ordered(u)
         /\ \A a : Covered(u, a) <=> In(mm, a) \/ \E j \in Live(w) : j # i /\ In(w.reg[j], a)
    <3>1. w \in Table /\ i \in Live(w) /\ mm \in Region /\ mm.size > 0 /\ Ordered(w)
      BY <2>2, <2>4, <2>6, <2>7
    <3>2. QED
      BY <1>8, <2>8, <2>9, <2>10, <2>11, <3>1, ReplaceSound
  <2>13. ASSUME NEW a \in Addr PROVE Covered(u, a) <=> Covered(t, a) \/ In(x, a)
    <3>1. In(mm, a) <=> In(m, a) \/ In(n, a)
      BY <2>2
    <3>2. w.reg[i] = r
      BY <1>1, <2>4, <2>7 DEF r
    <3>3. Covered(w, a) <=> In(r, a) \/ \E j \in Live(w) : j # i /\ In(w.reg[j], a)
      BY <2>7, <3>2 DEF Covered
    <3>4. In(m, a) <=> In(r, a) \/ In(x, a)
      BY <1>11
    <3>5. Covered(u, a) <=> In(m, a) \/ In(n, a) \/ Covered(w, a)
      BY <2>12, <3>1, <3>3, <3>4
    <3>6. Covered(t, a) <=> In(n, a) \/ Covered(w, a)
      BY <2>1, <2>6 DEF Covered
    <3>7. Covered(w, a) \/ In(m, a) <=> Covered(w, a) \/ In(x, a)
      BY <3>3, <3>4
    <3>8. QED
      BY <3>5, <3>6, <3>7
  <2>14. QED
    BY <2>12, <2>13
<1>17. QED
  BY <1>15, <1>16

\* lmb_add_region() of memory that is not in the table: the table then covers
\* it too, or is full and unchanged.
LEMMA AddSound ==
  ASSUME NEW t \in Table, NEW S \in SUBSET Addr, Keeps(t, S),
         NEW x \in Region, x.size > 0, End(x) < W, Span(x.base, x.size) \intersect S = {},
         NEW a, a = lmb_add_region(t, x)
  PROVE  /\ a.ret >= 0 => Sound(a.t, S \union Span(x.base, x.size))
         /\ ~(a.ret >= 0) => a.t = t /\ ~Dummy(t)
<1> DEFINE i == Min(Near(t, x))
<1>0. /\ Dummy(t) => a.ret = 0 /\ a.t = [t EXCEPT !.reg[0] = x]
      /\ ~Dummy(t) /\ Near(t, x) = {} /\ TableFull(t) => a.ret = -1 /\ a.t = t
      /\ ~Dummy(t) /\ Near(t, x) = {} /\ ~TableFull(t) => a.ret = 0 /\ a.t = Insert(t, x)
      /\ ~Dummy(t) /\ Near(t, x) # {} /\ t.reg[i] = x => a.ret = 0 /\ a.t = t
      /\ ~Dummy(t) /\ Near(t, x) # {} /\ t.reg[i] # x =>
           a.ret = 1 /\ a.t = JoinNext(Grow(t, i, x), i)
  BY AddCases
<1>1. CASE Dummy(t)
  <2>1. 0 \in 0 .. MaxRegions
    BY LmbAssumption
  <2>2. /\ a.t \in Table /\ a.t.cnt = t.cnt
        /\ \A j \in 0 .. MaxRegions : a.t.reg[j] = IF j = 0 THEN x ELSE t.reg[j]
    BY <1>0, <1>1, <2>1, WriteRegion
  <2>3. a.t.cnt = 1 /\ Live(a.t) = {0} /\ a.t.reg[0] = x
    BY <1>1, <2>1, <2>2 DEF Dummy, Live
  <2>4. S = {}
    <3>1. Sound(t, S) => FALSE
      <4>1. 0 \in Live(t) /\ ~(t.reg[0].size > 0)
        BY <1>1 DEF Dummy, Live
      <4>2. QED
        BY <4>1 DEF Sound, Ordered
    <3>2. QED
      BY <3>1 DEF Keeps
  <2>5. \A b \in Addr : b \in Span(x.base, x.size) <=> In(x, b)
    BY RegionInt
  <2>6. Sound(a.t, S \union Span(x.base, x.size))
    BY <2>3, <2>4, <2>5 DEF Sound, Ordered, Covered
  <2>7. QED
    BY <1>0, <1>1, <2>6
<1>2. SUFFICES ASSUME ~Dummy(t)
               PROVE  /\ a.ret >= 0 => Sound(a.t, S \union Span(x.base, x.size))
                      /\ ~(a.ret >= 0) => a.t = t
  BY <1>1, <1>2
<1>3. Fresh(t, x, S)
  BY <1>2 DEF Keeps, Fresh
<1>4. CASE Near(t, x) = {}
  <2>1. CASE TableFull(t)
    BY <1>0, <1>2, <1>4, <2>1
  <2>2. CASE ~TableFull(t)
    <3>1. t.cnt < MaxRegions
      BY <2>2, LmbAssumption, TableType DEF TableFull
    <3>2. \A j \in Live(t) : lmb_addrs_adjacent(x, t.reg[j]) = 0
      BY <1>4 DEF Near
    <3>3. Sound(Insert(t, x), S \union Span(x.base, x.size))
      BY <1>3, <3>1, <3>2, InsertSound
    <3>4. QED
      BY <1>0, <1>2, <1>4, <2>2, <3>3
  <2>3. QED
    BY <2>1, <2>2
<1>5. CASE Near(t, x) # {}
  <2>1. /\ i \in Live(t)
        /\ t.reg[i] = x \/ lmb_addrs_adjacent(x, t.reg[i]) # 0
        /\ \A j \in Live(t) : j < i => lmb_addrs_adjacent(x, t.reg[j]) = 0
    BY <1>5, NearIs
  <2> HIDE DEF i
  <2>2. t.reg[i] # x
    BY <1>3, <2>1, FreshIsApart
  <2>3. Sound(JoinNext(Grow(t, i, x), i), S \union Span(x.base, x.size))
    BY <1>3, <2>1, <2>2, GrowSound
  <2>4. QED
    BY <1>0, <1>2, <1>5, <2>2, <2>3
<1>6. QED
  BY <1>4, <1>5

-----------------------------------------------------------------------------
(***************************************************************************)
(* Freeing x, all of which is in the table.                                *)
(***************************************************************************)
LEMMA FreeSound ==
  ASSUME NEW t \in Table, NEW S \in SUBSET Addr, Keeps(t, S),
         NEW x \in Region, x.size > 0, Span(x.base, x.size) \subseteq S,
         NEW f, f = lmb_free(t, x)
  PROVE  /\ f.ret >= 0 /\ f.t.cnt > 0 => Sound(f.t, S \ Span(x.base, x.size))
         /\ ~(f.ret >= 0) /\ f.t = t => Keeps(f.t, S)
         /\ f.ret >= 0 \/ f.t.cnt > 0
<1> DEFINE i == Min(Holds(t, x))
           r == t.reg[i]
           y == R(Upto(x), Minus(Upto(r), Upto(x)))
           cut == R(r.base, Minus(x.base, r.base))
           front == R(Upto(x), Minus(r.size, x.size))
           back == R(r.base, Minus(r.size, x.size))
           rest == S \ Span(x.base, x.size)
<1>0. /\ Holds(t, x) = {} => f.ret = -1 /\ f.t = t
      /\ Holds(t, x) # {} /\ r.base = x.base /\ Upto(r) = Upto(x) =>
           f.ret = 0 /\ f.t = lmb_remove_region(t, i)
      /\ Holds(t, x) # {} /\ r.base = x.base /\ Upto(r) # Upto(x) =>
           f.ret = 0 /\ f.t = [t EXCEPT !.reg[i] = front]
      /\ Holds(t, x) # {} /\ r.base # x.base /\ Upto(r) = Upto(x) =>
           f.ret = 0 /\ f.t = [t EXCEPT !.reg[i] = back]
      /\ Holds(t, x) # {} /\ r.base # x.base /\ Upto(r) # Upto(x) =>
           f = lmb_add_region([t EXCEPT !.reg[i] = cut], y)
  BY FreeCases
<1>1. x.base \in Addr /\ x.base \in Nat /\ x.size \in Nat /\ End(x) \in Nat /\ x.base < End(x) /\ W \in Nat
  BY RegionType, RegionInt DEF End
<1>2. \A a \in Addr : a \in Span(x.base, x.size) <=> In(x, a)
  BY RegionInt
<1>3. x.base \in S /\ Sound(t, S)
  <2>1. x.base \in S
    BY <1>1, <1>2 DEF In
  <2>2. QED
    BY <2>1 DEF Keeps
<1>4. Ordered(t) /\ t.cnt > 0 /\ t.cnt \in Nat
  BY <1>3, TableType DEF Sound, Ordered
<1>5. \A j \in Live(t) : /\ t.reg[j] \in Region /\ t.reg[j].size > 0 /\ End(t.reg[j]) < W
                         /\ t.reg[j].base \in Nat /\ End(t.reg[j]) \in Nat
                         /\ t.reg[j].base < End(t.reg[j])
  BY <1>4, TableType, RegionNum DEF Ordered
<1>6. End(x) < W
  <2> SUFFICES ASSUME W <= End(x) PROVE FALSE
    BY <1>1
  <2>1. W - 1 \in Addr /\ In(x, W - 1)
    BY <1>1, LmbAssumption DEF Addr, In
  <2>2. W - 1 \in S
    BY <1>2, <2>1
  <2>3. PICK j \in Live(t) : In(t.reg[j], W - 1)
    BY <1>3, <2>1, <2>2 DEF Sound, Covered
  <2>4. QED
    BY <1>1, <1>5, <2>3 DEF In
<1>7. Upto(x) = End(x)
  BY <1>6, RegionInt
<1>8. SUFFICES ASSUME Holds(t, x) # {}
               PROVE  /\ f.ret >= 0 /\ f.t.cnt > 0 => Sound(f.t, rest)
                      /\ ~(f.ret >= 0) => f.t # t
                      /\ f.ret >= 0 \/ f.t.cnt > 0
  BY <1>0, <1>4
<1>9. i \in Live(t) /\ r.base <= x.base /\ Upto(x) <= Upto(r)
  <2>1. Holds(t, x) \in SUBSET Nat
    BY TableType DEF Holds
  <2>2. i \in Holds(t, x)
    BY <1>8, <2>1, MinIs
  <2>3. QED
    BY <2>2 DEF Holds
<1> HIDE DEF i
<1>10. /\ r \in Region /\ r.size > 0 /\ End(r) < W /\ r.base \in Nat /\ End(r) \in Nat
       /\ r.base < End(r) /\ Upto(r) = End(r) /\ i \in 0 .. MaxRegions
  BY <1>5, <1>9, RegionInt, TableType
<1>11. r.base <= x.base /\ End(x) <= End(r)
  BY <1>7, <1>9, <1>10
<1>12. \A j \in Live(t) : /\ j < i => End(t.reg[j]) < r.base
                          /\ j > i => End(r) < t.reg[j].base
                          /\ \A a \in Addr : j # i /\ In(t.reg[j], a) => ~In(r, a)
  <2> TAKE j \in Live(t)
  <2>1. j \in Nat /\ i \in Nat
    BY <1>9, TableType
  <2>2. /\ j < i => End(t.reg[j]) < r.base
        /\ j > i => End(r) < t.reg[j].base
    BY <1>4, <1>9 DEF Ordered
  <2>3. \A a \in Addr : a \in Nat
    BY RegionInt
  <2>4. QED
    BY <1>5, <1>10, <2>1, <2>2, <2>3 DEF In
<1>13. \A a \in Addr : a \in rest <=> (In(r, a) /\ ~In(x, a)) \/ \E j \in Live(t) : j # i /\ In(t.reg[j], a)
  <2> TAKE a \in Addr
  <2>1. a \in S <=> Covered(t, a)
    BY <1>3 DEF Sound
  <2>2. In(x, a) => In(r, a)
    <3>1. a \in Nat
      BY RegionInt
    <3>2. QED
      BY <1>1, <1>10, <1>11, <3>1 DEF In
  <2>3. \A j \in Live(t) : j # i /\ In(t.reg[j], a) => ~In(x, a)
    BY <1>12, <2>2
  <2>4. QED
    BY <1>2, <1>9, <2>1, <2>3 DEF Covered
<1> HIDE DEF rest
<1>14. /\ x.size \in Addr /\ r.size \in Addr /\ r.base \in Addr /\ End(x) \in Addr /\ End(r) \in Addr
       /\ r.size \in Nat /\ End(x) = x.base + x.size /\ End(r) = r.base + r.size
  BY <1>1, <1>6, <1>10, RegionType, RegionInt DEF Addr, End
<1> HIDE DEF r
<1>15. ASSUME NEW m \in Region, NEW u \in Table, u = [t EXCEPT !.reg[i] = m], m.size > 0,
              r.base <= m.base, End(m) <= End(r)
       PROVE  /\ Ordered(u) /\ u.cnt = t.cnt
              /\ \A a : Covered(u, a) <=> In(m, a) \/ \E j \in Live(t) : j # i /\ In(t.reg[j], a)
  <2>1. u.cnt = t.cnt /\ \A j \in 0 .. MaxRegions : u.reg[j] = IF j = i THEN m ELSE t.reg[j]
    BY <1>10, <1>15 DEF Table
  <2>2. \A j \in Live(t) : u.reg[j] = IF j = i THEN m ELSE t.reg[j]
    BY <2>1, TableType
  <2>3. m.base \in Nat /\ End(m) \in Nat /\ End(m) < W
    BY <1>1, <1>10, <1>15, RegionNum
  <2>4. ASSUME NEW j \in Live(t), j < i PROVE End(t.reg[j]) < m.base
    BY <1>5, <1>10, <1>12, <1>15, <2>3, <2>4
  <2>5. ASSUME NEW j \in Live(t), j > i PROVE End(m) < t.reg[j].base
    BY <1>5, <1>10, <1>12, <1>15, <2>3, <2>5
  <2>6. Ordered(t) /\ i \in Live(t) /\ m.size > 0 /\ u.cnt = t.cnt /\ End(m) < W
    BY <1>4, <1>9, <1>15, <2>1, <2>3
  <2>7. QED
    BY <2>2, <2>4, <2>5, <2>6, ReplaceSound
<1>16. CASE r.base = x.base /\ End(r) = End(x)
  <2>1. f.ret = 0 /\ f.t = lmb_remove_region(t, i)
    BY <1>0, <1>7, <1>8, <1>10, <1>16
  <2>2. ASSUME f.t.cnt > 0 PROVE Sound(f.t, rest)
    <3>1. t.cnt > 1
      BY <1>4, <1>9, <2>1, <2>2, RemoveType
    <3>2. /\ Ordered(f.t)
          /\ \A a : Covered(f.t, a) <=> \E j \in Live(t) : j # i /\ In(t.reg[j], a)
      BY <1>4, <1>9, <2>1, <3>1, RemoveSound
    <3>3. \A a \in Addr : In(r, a) => In(x, a)
      BY <1>16 DEF In
    <3>4. QED
      BY <1>13, <3>2, <3>3 DEF Sound
  <2>3. QED
    BY <2>1, <2>2
<1>17. ASSUME NEW m \in Region, m.size > 0, r.base <= m.base, End(m) <= End(r),
              f.ret = 0, f.t = [t EXCEPT !.reg[i] = m],
              \A a \in Addr : In(m, a) <=> In(r, a) /\ ~In(x, a)
       PROVE  f.t.cnt > 0 /\ Sound(f.t, rest)
  <2>1. f.t \in Table
    BY <1>10, <1>17, WriteRegion
  <2>2. /\ Ordered(f.t) /\ f.t.cnt = t.cnt
        /\ \A a : Covered(f.t, a) <=> In(m, a) \/ \E j \in Live(t) : j # i /\ In(t.reg[j], a)
    BY <1>15, <1>17, <2>1
  <2>3. QED
    BY <1>4, <1>13, <1>17, <2>2 DEF Sound
<1>18. CASE r.base = x.base /\ End(r) # End(x)
  <2>1. Minus(r.size, x.size) = r.size - x.size /\ r.size - x.size \in Addr /\ r.size > x.size
    <3>1. x.size < r.size
      BY <1>1, <1>11, <1>14, <1>18
    <3>2. x.size <= r.size /\ r.size - x.size \in Addr
      BY <1>1, <1>14, <3>1 DEF Addr
    <3>3. QED
      BY <1>1, <1>14, <3>1, <3>2, Modular
  <2>2. PICK m \in Region : m = front /\ m.base = End(x) /\ m.size = r.size - x.size
    BY <1>7, <1>14, <2>1, RegionType
  <2>3. m.size > 0 /\ End(m) = End(r) /\ r.base <= m.base
    BY <1>1, <1>10, <1>14, <1>18, <2>1, <2>2 DEF End
  <2>4. \A a \in Addr : In(m, a) <=> In(r, a) /\ ~In(x, a)
    <3> TAKE a \in Addr
    <3>1. a \in Nat
      BY RegionInt
    <3>2. QED
      BY <1>1, <1>10, <1>11, <1>18, <2>2, <2>3, <3>1 DEF In
  <2>5. f.ret = 0 /\ f.t = [t EXCEPT !.reg[i] = m]
    BY <1>0, <1>7, <1>8, <1>10, <1>18, <2>2
  <2>6. End(m) <= End(r)
    BY <1>10, <2>3
  <2>7. QED
    BY <1>17, <2>3, <2>4, <2>5, <2>6
<1>19. CASE r.base # x.base /\ End(r) = End(x)
  <2>1. Minus(r.size, x.size) = r.size - x.size /\ r.size - x.size \in Addr /\ r.size > x.size
    <3>1. x.size < r.size
      BY <1>1, <1>10, <1>11, <1>14, <1>19
    <3>2. x.size <= r.size /\ r.size - x.size \in Addr
      BY <1>1, <1>14, <3>1 DEF Addr
    <3>3. QED
      BY <1>1, <1>14, <3>1, <3>2, Modular
  <2>2. PICK m \in Region : m = back /\ m.base = r.base /\ m.size = r.size - x.size
    BY <1>14, <2>1, RegionType
  <2>3. m.size > 0 /\ End(m) = x.base /\ r.base <= m.base
    BY <1>1, <1>10, <1>14, <1>19, <2>1, <2>2 DEF End
  <2>4. \A a \in Addr : In(m, a) <=> In(r, a) /\ ~In(x, a)
    <3> TAKE a \in Addr
    <3>1. a \in Nat
      BY RegionInt
    <3>2. QED
      BY <1>1, <1>10, <1>11, <1>19, <2>2, <2>3, <3>1 DEF In
  <2>5. f.ret = 0 /\ f.t = [t EXCEPT !.reg[i] = m]
    BY <1>0, <1>7, <1>8, <1>10, <1>19, <2>2
  <2>6. End(m) <= End(r)
    BY <1>1, <1>10, <1>11, <2>3
  <2>7. QED
    BY <1>17, <2>3, <2>4, <2>5, <2>6
<1>20. CASE r.base # x.base /\ End(r) # End(x)
  <2>1. r.base < x.base /\ End(x) < End(r)
    BY <1>1, <1>10, <1>11, <1>20
  <2>2. /\ Minus(x.base, r.base) = x.base - r.base /\ Minus(End(r), End(x)) = End(r) - End(x)
        /\ x.base - r.base \in Addr /\ End(r) - End(x) \in Addr
    <3>1. r.base <= x.base /\ End(x) <= End(r) /\ x.base - r.base \in Addr /\ End(r) - End(x) \in Addr
      BY <1>1, <1>10, <1>14, <2>1 DEF Addr
    <3>2. QED
      BY <1>1, <1>14, <3>1, Modular
  <2>3. PICK m \in Region : m = cut /\ m.base = r.base /\ m.size = x.base - r.base
    BY <1>14, <2>2, RegionType
  <2>4. PICK q \in Region : q = y /\ q.base = End(x) /\ q.size = End(r) - End(x)
    BY <1>7, <1>10, <1>14, <2>2, RegionType
  <2>5. PICK u \in Table : u = [t EXCEPT !.reg[i] = m]
    BY <1>10, WriteRegion
  <2>6. f = lmb_add_region(u, q)
    BY <1>0, <1>7, <1>8, <1>10, <1>20, <2>3, <2>4, <2>5
  <2>7. /\ m.size > 0 /\ End(m) = x.base /\ r.base <= m.base /\ End(m) <= End(r)
        /\ q.size > 0 /\ End(q) = End(r) /\ End(q) < W
    BY <1>1, <1>10, <2>1, <2>3, <2>4 DEF End
  <2>8. /\ Ordered(u) /\ u.cnt = t.cnt
        /\ \A a : Covered(u, a) <=> In(m, a) \/ \E j \in Live(t) : j # i /\ In(t.reg[j], a)
    BY <1>15, <2>5, <2>7
  <2> DEFINE C == {a \in Addr : Covered(u, a)}
  <2>9. Keeps(u, C) /\ C \in SUBSET Addr
    BY <2>8 DEF Keeps, Sound
  <2>10. \A a \in Addr : /\ a \in Span(q.base, q.size) <=> In(q, a)
                         /\ In(q, a) => In(r, a) /\ ~In(m, a) /\ ~In(x, a)
                         /\ In(r, a) <=> In(m, a) \/ In(x, a) \/ In(q, a)
                         /\ In(m, a) => ~In(x, a)
    <3> TAKE a \in Addr
    <3>1. a \in Nat
      BY RegionInt
    <3>2. a \in Span(q.base, q.size) <=> In(q, a)
      BY RegionInt
    <3>3. QED
      BY <1>1, <1>10, <2>1, <2>3, <2>4, <2>7, <3>1, <3>2 DEF In
  <2>11. Span(q.base, q.size) \intersect C = {}
    <3> SUFFICES ASSUME NEW a \in C, a \in Span(q.base, q.size) PROVE FALSE
      OBVIOUS
    <3>1. a \in Addr /\ In(q, a) /\ In(r, a) /\ ~In(m, a) /\ Covered(u, a)
      BY <2>10
    <3>2. QED
      BY <1>12, <2>8, <3>1
  <2>12. C \union Span(q.base, q.size) = rest
    <3>1. rest \in SUBSET Addr /\ Span(q.base, q.size) \in SUBSET Addr
      BY DEF rest, Span
    <3>2. \A a \in Addr : a \in C \union Span(q.base, q.size) <=> a \in rest
      BY <1>13, <2>8, <2>10
    <3>3. QED
      BY <3>1, <3>2
  <2> HIDE DEF C
  <2>13. /\ f.ret >= 0 => Sound(f.t, C \union Span(q.base, q.size))
         /\ ~(f.ret >= 0) => f.t = u
    BY <2>6, <2>7, <2>9, <2>11, AddSound
  <2>14. u # t
    <3>1. u.reg[i] = m
      BY <1>10, <2>5 DEF Table
    <3>2. m # r
      BY <1>10, <2>1, <2>7, <1>1
    <3>3. QED
      BY <3>1, <3>2 DEF r
  <2>15. QED
    BY <1>4, <2>8, <2>12, <2>13, <2>14
<1>21. QED
  BY <1>16, <1>18, <1>19, <1>20

-----------------------------------------------------------------------------
(***************************************************************************)
(* The inductive invariant: the memory table covers what lmb_add() was     *)
(* told of, and as long as no call is known to spoil it, the table of      *)
(* reservations covers what callers hold.                                  *)
(***************************************************************************)
LmbInv ==
  /\ TypeOK
  /\ Keeps(memory, ram)
  /\ spoilt = {} => Keeps(reserved, held)

LEMMA LmbStep == LmbInv /\ [Next]_vars => LmbInv'
<1> SUFFICES ASSUME LmbInv, [Next]_vars PROVE LmbInv'
  OBVIOUS
<1>a. TypeOK' /\ TypeOK /\ Keeps(memory, ram)
  BY TypeStep DEF LmbInv
<1>b. /\ memory \in Table /\ reserved \in Table /\ ram \in SUBSET Addr /\ held \in SUBSET Addr
  BY <1>a DEF TypeOK
<1>c. spoilt' = {} /\ spoilt \subseteq spoilt' => Keeps(reserved, held)
  BY DEF LmbInv
<1>1. CASE Add
  <2>1. PICK x, a :
          /\ x \in Memory
          /\ a = lmb_add_region(memory, x) /\ Span(x.base, x.size) \intersect ram = {}
          /\ memory' = a.t
          /\ ram' = IF a.ret >= 0 THEN ram \union Span(x.base, x.size) ELSE ram
    BY <1>1 DEF Add
  <2> x \in Memory
    BY <2>1
  <2>2. UNCHANGED <<reserved, held, spoilt>>
    BY <1>1 DEF Add
  <2>3. x \in Region /\ x.size > 0 /\ End(x) < W
    BY LmbAssumption, MemoryAssumption DEF End
  <2>4. /\ a.ret >= 0 => Sound(a.t, ram \union Span(x.base, x.size))
        /\ ~(a.ret >= 0) => a.t = memory
    BY <1>a, <1>b, <2>1, <2>3, AddSound
  <2>5. Keeps(memory', ram')
    <3>1. CASE a.ret >= 0
      BY <2>1, <2>4, <3>1 DEF Keeps
    <3>2. CASE ~(a.ret >= 0)
      BY <1>a, <2>1, <2>4, <3>2
    <3>3. QED
      BY <3>1, <3>2
  <2>6. spoilt = {} => Keeps(reserved, held)
    BY DEF LmbInv
  <2>7. QED
    BY <1>a, <2>2, <2>5, <2>6 DEF LmbInv, Keeps, Sound, Ordered, Covered, Live, Dummy
<1>2. ASSUME NEW b \in Addr, NEW s \in Addr, NEW a, a = lmb_add_region(reserved, R(b, s)),
             s > 0, b + s < W, Span(b, s) \intersect held = {}, Keeps(reserved, held),
             reserved' = a.t,
             held' = IF a.ret >= 0 THEN held \union Span(b, s) ELSE held
      PROVE  Keeps(reserved', held')
  <2>1. PICK x \in Region : x = R(b, s) /\ x.base = b /\ x.size = s
    BY RegionType
  <2>2. x.size > 0 /\ End(x) < W /\ Span(x.base, x.size) \intersect held = {}
    BY <1>2, <2>1 DEF End
  <2>3. /\ a.ret >= 0 => Sound(a.t, held \union Span(x.base, x.size))
        /\ ~(a.ret >= 0) => a.t = reserved
    BY <1>2, <1>b, <2>1, <2>2, AddSound
  <2>4. CASE a.ret >= 0
    BY <1>2, <2>1, <2>3, <2>4 DEF Keeps
  <2>5. CASE ~(a.ret >= 0)
    BY <1>2, <2>3, <2>5
  <2>6. QED
    BY <2>4, <2>5
<1>3. ASSUME NEW b \in Addr, NEW s \in Addr, Overlaps(R(b, s)) = {}
      PROVE  Span(b, s) \intersect held = {}
  BY <1>3, RegionType DEF Overlaps
<1>4. CASE Reserve
  <2>1. PICK b, s, a :
          /\ b \in Addr /\ s \in Sizes
          /\ a = lmb_add_region(reserved, R(b, s)) /\ b + s < W
          /\ reserved' = a.t
          /\ held' = IF a.ret >= 0 THEN held \union Span(b, s) ELSE held
          /\ spoilt' = spoilt \union Overlaps(R(b, s)) \union Wild(reserved)
    BY <1>4 DEF Reserve
  <2> b \in Addr /\ s \in Sizes
    BY <2>1
  <2>2. s \in Addr /\ s > 0
    BY LmbAssumption DEF Addr
  <2>3. ASSUME spoilt' = {} PROVE Keeps(reserved', held')
    <3>1. Overlaps(R(b, s)) = {} /\ Keeps(reserved, held)
      BY <1>c, <2>1, <2>3
    <3>2. QED
      BY <1>2, <1>3, <2>1, <2>2, <3>1
  <2>4. UNCHANGED <<memory, ram>>
    BY <1>4 DEF Reserve
  <2>5. QED
    BY <1>a, <2>3, <2>4 DEF LmbInv, Keeps, Sound, Ordered, Covered, Live, Dummy
<1>5. CASE Free
  <2>1. PICK b, s, f :
          /\ b \in Addr /\ s \in Sizes
          /\ f = lmb_free(reserved, R(b, s)) /\ Span(b, s) \subseteq held
          /\ reserved' = f.t
          /\ held' = IF f.ret >= 0 THEN held \ Span(b, s) ELSE held
          /\ spoilt' = spoilt \union (IF f.t.cnt = 0 THEN {"emptied"} ELSE {})
                              \union (IF f.ret < 0 /\ f.t # reserved THEN {"cut"} ELSE {})
    BY <1>5 DEF Free
  <2> b \in Addr /\ s \in Sizes
    BY <2>1
  <2>2. s \in Addr /\ s > 0
    BY LmbAssumption DEF Addr
  <2>3. PICK x \in Region : x = R(b, s) /\ x.base = b /\ x.size = s
    BY <2>2, RegionType
  <2>4. ASSUME spoilt' = {} PROVE Keeps(reserved', held')
    <3>1. Keeps(reserved, held) /\ f.t.cnt # 0 /\ ~(f.ret < 0 /\ f.t # reserved)
      BY <1>c, <2>1, <2>4
    <3>2. /\ f.ret >= 0 /\ f.t.cnt > 0 => Sound(f.t, held \ Span(x.base, x.size))
          /\ ~(f.ret >= 0) /\ f.t = reserved => Keeps(f.t, held)
      BY <1>b, <2>1, <2>2, <2>3, <3>1, FreeSound
    <3>3. f.t.cnt > 0
      BY <1>a, <2>1, <3>1, TableType DEF TypeOK
    <3>4. f.ret \in Int
      BY <1>b, <2>1, <2>3, FreeRet
    <3>5. CASE f.ret >= 0
      BY <2>1, <2>3, <3>2, <3>3, <3>5 DEF Keeps
    <3>6. CASE ~(f.ret >= 0)
      BY <2>1, <3>1, <3>2, <3>4, <3>6
    <3>7. QED
      BY <3>5, <3>6
  <2>5. UNCHANGED <<memory, ram>>
    BY <1>5 DEF Free
  <2>6. QED
    BY <1>a, <2>4, <2>5 DEF LmbInv, Keeps, Sound, Ordered, Covered, Live, Dummy
<1>6. CASE Alloc
  <2>1. PICK size, align, max, base :
          /\ size \in Sizes /\ align \in Aligns /\ max \in Limits
          /\ base = AllocBase(size, align, max)
          /\ \/ UNCHANGED <<reserved, held, spoilt>>
             \/ LET x == R(base, lmb_align_up(size, align))
                    a == lmb_add_region(reserved, x)
                IN
                /\ a.ret >= 0
                /\ reserved' = a.t
                /\ held' = held \union Span(base, x.size)
                /\ spoilt' = spoilt \union Overlaps(x) \union Wild(reserved)
                               \union Wraps(size, align - 1) \union Wraps(base, x.size)
    BY <1>6 DEF Alloc
  <2> size \in Sizes /\ align \in Aligns /\ max \in Limits
    BY <2>1
  <2>2. UNCHANGED <<memory, ram>>
    BY <1>6 DEF Alloc
  <2>3. CASE UNCHANGED <<reserved, held, spoilt>>
    BY <1>a, <2>2, <2>3 DEF LmbInv, Keeps, Sound, Ordered, Covered, Live, Dummy
  <2>4. CASE ~UNCHANGED <<reserved, held, spoilt>>
    <3>1. PICK s, a :
            /\ s = lmb_align_up(size, align) /\ a = lmb_add_region(reserved, R(base, s))
            /\ a.ret >= 0 /\ reserved' = a.t
            /\ held' = held \union Span(base, R(base, s).size)
            /\ spoilt' = spoilt \union Overlaps(R(base, s)) \union Wild(reserved)
                           \union Wraps(size, align - 1) \union Wraps(base, R(base, s).size)
      BY <2>1, <2>4
    <3>2. base \in Addr
      BY <1>b, <2>1, AllocValue
    <3>3. size \in Addr /\ size > 0 /\ align \in Addr \ {0} /\ align \in Int /\ size \in Int /\ W \in Nat
      BY LmbAssumption DEF Addr
    <3>4. s \in Addr /\ (size + align - 1 < W => s > 0)
      BY <3>1, <3>3, AlignUpType
    <3>5. R(base, s).size = s
      BY <3>2, <3>4, RegionType
    <3>6. ASSUME spoilt' = {} PROVE Keeps(reserved', held')
      <4>1. /\ Overlaps(R(base, s)) = {} /\ Keeps(reserved, held)
            /\ Wraps(size, align - 1) = {} /\ Wraps(base, s) = {}
        BY <1>c, <3>1, <3>5, <3>6
      <4>2. base \in Int /\ s \in Int
        BY <3>2, <3>4, RegionInt
      <4>3. size + align - 1 < W /\ base + s < W
        BY <3>3, <4>1, <4>2 DEF Wraps
      <4>4. held' = IF a.ret >= 0 THEN held \union Span(base, s) ELSE held
        BY <3>1, <3>5
      <4>5. QED
        BY <1>2, <1>3, <3>1, <3>2, <3>4, <4>1, <4>3, <4>4
    <3>7. QED
      BY <1>a, <2>2, <3>6 DEF LmbInv, Keeps, Sound, Ordered, Covered, Live, Dummy
  <2>5. QED
    BY <2>3, <2>4
<1>7. CASE UNCHANGED vars
  BY <1>a, <1>7 DEF vars, LmbInv, Keeps, Sound, Ordered, Covered, Live, Dummy
<1>8. CASE Rest
  BY <1>7, <1>8 DEF Rest
<1>9. QED
  BY <1>1, <1>4, <1>5, <1>6, <1>7, <1>8 DEF Next

LEMMA LmbInvariant == Spec => []LmbInv
<1>1. Init => LmbInv
  <2> SUFFICES ASSUME Init PROVE LmbInv
    OBVIOUS
  <2>1. Dummy(InitTable) /\ InitTable.reg[0].base = 0
    BY LmbAssumption DEF Dummy, InitTable, R
  <2>2. QED
    BY <2>1, TypeInit DEF Init, LmbInv, Keeps
<1>2. QED
  BY <1>1, LmbStep, PTL DEF Spec

\* As long as no call is known to spoil the table, the regions of both tables
\* stay in order, apart and joined where they meet, whatever is reserved,
\* allocated and freed.
THEOREM TablesStayApart == Spec => []TablesApart
<1>1. LmbInv => TablesApart
  <2> SUFFICES ASSUME LmbInv PROVE TablesApart
    OBVIOUS
  <2>1. ASSUME NEW t \in Table, NEW S, Keeps(t, S) PROVE Apart(t)
    <3> SUFFICES ASSUME NEW i \in Live(t), i > 0
                 PROVE  End(t.reg[i - 1]) < t.reg[i].base
      BY DEF Apart, End
    <3>1. i - 1 \in Live(t) /\ i - 1 < i /\ t.cnt # 1
      BY TableType DEF Live
    <3>2. QED
      BY <2>1, <3>1 DEF Keeps, Dummy, Sound, Ordered
  <2>2. QED
    BY <2>1 DEF LmbInv, TypeOK, TablesApart
<1>2. QED
  BY <1>1, LmbInvariant, PTL

\* The table that lmb_init() leaves calls every address reserved.
LEMMA NoneHeldAtFirst ==
  ASSUME LmbInv, spoilt = {}, Dummy(reserved)
  PROVE  held = {} /\ \A a \in Addr : lmb_is_reserved(a)
<1>1. 0 \in Live(reserved) /\ reserved.reg[0].size = 0
  BY DEF Dummy, Live
<1>2. ~Sound(reserved, held)
  BY <1>1 DEF Sound, Ordered
<1>3. reserved.reg[0].base = 0 /\ held = {}
  BY <1>2 DEF LmbInv, Keeps
<1>4. W \in Nat /\ W > 1
  BY LmbAssumption
<1>5. Minus(Plus(0, 0), 1) = W - 1
  <2>1. 0 \in 0 .. W - 1 /\ 1 \in 0 .. W - 1 /\ (0 + 0) % W = 0
    BY <1>4
  <2>2. (0 - 1) % W = W - 1
    BY <1>4
  <2> QED BY <2>1, <2>2 DEF Plus, Minus
<1>6. \A a \in Addr : 0 <= a /\ a <= W - 1
  BY <1>4 DEF Addr
<1> QED BY <1>1, <1>3, <1>5, <1>6 DEF lmb_is_reserved

\* Once something was reserved, what lmb_is_reserved() answers is what callers
\* hold: no reservation is lost or widened by joining, splitting and moving
\* regions.  Before that nothing is held, and it calls every address reserved.
THEOREM ReservedAreHeld == Spec => []ReservedIsHeld
<1>1. LmbInv => ReservedIsHeld
  <2> SUFFICES ASSUME LmbInv, spoilt = {}, ~Dummy(reserved), NEW a \in Addr
               PROVE  lmb_is_reserved(a) <=> a \in held
    BY NoneHeldAtFirst DEF ReservedIsHeld
  <2>1. Ordered(reserved) /\ (a \in held <=> Covered(reserved, a)) /\ reserved \in Table
    BY DEF LmbInv, Keeps, Sound, TypeOK
  <2>2. ASSUME NEW i \in Live(reserved)
        PROVE  a <= Minus(Plus(reserved.reg[i].base, reserved.reg[i].size), 1) <=> a < End(reserved.reg[i])
    <3>1. PICK r \in Region : r = reserved.reg[i] /\ r.size > 0 /\ End(r) < W
      BY <2>1, TableType DEF Ordered
    <3>2. Upto(r) = End(r) /\ End(r) \in Nat /\ r.base \in Nat /\ r.base < End(r) /\ W \in Nat /\ a \in Nat
      BY <3>1, RegionInt, RegionNum
    <3>3. 1 \in Addr /\ End(r) \in Addr /\ 1 <= End(r)
      BY <3>1, <3>2, LmbAssumption DEF Addr
    <3>4. Minus(End(r), 1) = End(r) - 1
      BY <3>3, Modular
    <3>5. QED
      BY <3>1, <3>2, <3>4 DEF Upto
  <2>3. QED
    BY <2>1, <2>2 DEF lmb_is_reserved, Covered, In
<1>2. QED
  BY <1>1, LmbInvariant, PTL

\* An allocation gives memory that exists, lies below the limit and is held by
\* nobody, however many reservations the search had to step past.
THEOREM AllocatedIsFresh == Spec => AllocIsFresh
<1> DEFINE P == got' # NoGot /\ spoilt = {} /\ (got'.max = 0 \/ got'.size <= got'.max) =>
                  LET new == Span(got'.base, got'.size) IN
                  /\ new \intersect held = {}
                  /\ new \subseteq ram
                  /\ got'.max # 0 => \A a \in new : a < got'.max
<1>1. LmbInv /\ [Next]_vars => [P]_vars
  <2> SUFFICES ASSUME LmbInv, Next, ~UNCHANGED vars, got' # NoGot, spoilt = {},
                      got'.max = 0 \/ got'.size <= got'.max
               PROVE  /\ Span(got'.base, got'.size) \intersect held = {}
                      /\ Span(got'.base, got'.size) \subseteq ram
                      /\ got'.max # 0 => \A a \in Span(got'.base, got'.size) : a < got'.max
    OBVIOUS
  <2>0. /\ memory \in Table /\ reserved \in Table /\ held \in SUBSET Addr
        /\ Keeps(memory, ram) /\ Keeps(reserved, held)
    BY DEF LmbInv, TypeOK
  <2>1. ~Rest /\ ~Add /\ ~Reserve /\ ~Free
    BY DEF Rest, Add, Reserve, Free
  <2>2. CASE Alloc
    <3>1. PICK size, align, max, base :
            /\ size \in Sizes /\ align \in Aligns /\ max \in Limits
            /\ base = AllocBase(size, align, max) /\ base # 0
            /\ got' = [base |-> base, size |-> size, max |-> max]
      BY <2>2 DEF Alloc
    <3> size \in Sizes /\ align \in Aligns /\ max \in Limits
      BY <3>1
    <3>2. got'.base = base /\ got'.size = size /\ got'.max = max
      BY <3>1
    <3>3. PICK i \in Live(memory) : base = FoundIn(memory.reg[i], size, align, max)
      BY <2>0, <3>1, AllocValue
    <3>4. PICK m \in Region : m = memory.reg[i]
      BY <2>0, TableType
    <3>5. /\ base \in Addr /\ size <= m.size /\ (max # 0 => m.base < max)
          /\ base <= Minus(Top(m, max), size) /\ m.base <= base /\ Met(base, size) = {}
      BY <2>0, <3>1, <3>3, <3>4, FoundValue
    <3>6. /\ W \in Nat /\ size \in Addr /\ size \in Nat /\ size > 0 /\ max \in Addr /\ max \in Nat
          /\ max < W /\ base \in Nat /\ m.base \in Nat /\ m.size \in Nat /\ End(m) = m.base + m.size
          /\ m.size \in Addr
      BY <3>5, LmbAssumption, RegionInt, RegionType DEF Addr, End
    <3>7. Sound(memory, ram) /\ m.size > 0 /\ End(m) < W
      <4>1. m.size > 0
        BY <3>5, <3>6
      <4>2. ~Dummy(memory)
        BY <2>0, <3>4, <4>1, TableType DEF Dummy, Live
      <4>3. QED
        BY <2>0, <3>4, <4>1, <4>2 DEF Keeps, Sound, Ordered
    <3>8. Upto(m) = End(m) /\ End(m) \in Addr
      BY <3>6, <3>7, RegionInt DEF Addr
    <3>9. Top(m, max) \in Addr /\ size <= Top(m, max) /\ Top(m, max) <= End(m)
          /\ (max # 0 => Top(m, max) <= max)
      <4>1. Top(m, max) = IF max = 0 \/ End(m) < max THEN End(m) ELSE max
        BY <3>8 DEF Top, Upto
      <4>2. QED
        BY <3>1, <3>2, <3>5, <3>6, <3>8, <4>1
    <3>10. Minus(Top(m, max), size) = Top(m, max) - size
      BY <3>6, <3>9, Modular
    <3>11. base + size <= End(m) /\ base + size < W /\ (max # 0 => base + size <= max)
      <4>1. Top(m, max) \in Int /\ End(m) \in Int
        BY <3>6, <3>8, <3>9 DEF Addr
      <4>2. QED
        BY <3>5, <3>6, <3>7, <3>9, <3>10, <4>1
    <3>12. \A a \in Span(base, size) : a \in Addr /\ a \in Nat /\ base <= a /\ a < base + size
      BY <3>6 DEF Span, Addr
    <3>13. ASSUME NEW a \in Span(base, size) PROVE a \in ram /\ (max # 0 => a < max)
      <4>1. In(m, a)
        BY <3>5, <3>6, <3>11, <3>12 DEF In
      <4>2. a \in ram
        BY <3>4, <3>7, <3>12, <4>1 DEF Sound, Covered
      <4>3. QED
        BY <3>6, <3>11, <3>12, <4>2
    <3>14. ASSUME NEW a \in Span(base, size), a \in held PROVE FALSE
      <4>1. Sound(reserved, held)
        BY <2>0, <3>14 DEF Keeps
      <4>2. PICK j \in Live(reserved) : In(reserved.reg[j], a)
        BY <3>12, <3>14, <4>1 DEF Sound, Covered
      <4>3. PICK r \in Region : r = reserved.reg[j] /\ End(r) < W
        BY <2>0, <4>1, TableType DEF Sound, Ordered
      <4>4. ~lmb_addrs_overlap(R(base, size), r)
        BY <3>5, <4>3 DEF Met, lmb_overlaps_region
      <4>5. Plus(base, size) = base + size /\ Upto(r) = End(r)
        BY <3>5, <3>6, <3>11, <4>3, Modular, RegionInt
      <4>6. r.base \in Nat /\ End(r) \in Nat
        BY RegionInt
      <4>7. ~(base < End(r) /\ r.base < base + size)
        BY <3>5, <3>6, <4>4, <4>5, RegionType DEF lmb_addrs_overlap, Upto
      <4>8. QED
        BY <3>6, <3>12, <4>2, <4>3, <4>6, <4>7 DEF In
    <3>15. QED
      BY <3>2, <3>13, <3>14
  <2>3. QED
    BY <2>1, <2>2 DEF Next
<1>2. QED
  BY <1>1, LmbInvariant, PTL DEF Spec, AllocIsFresh
====
