----------------------------- MODULE HashTable -----------------------------
(***************************************************************************)
(* The hash table that holds the environment (lib/hashtable.c): double     *)
(* hashing with open addressing, deletion by tombstones.                   *)
(*                                                                         *)
(* A slot's field used is 0 (never used), -1 (deleted) or the first hash   *)
(* index of the key in it.  Hash(k) is the number computed from the        *)
(* characters of k, before it is reduced to the size of the table.         *)
(***************************************************************************)
EXTENDS Integers, FiniteSets

CONSTANTS
  Key, Value,       \* names and values of the environment
  NoKey, NoValue,   \* the NULL pointers strdup() returns
  Hash,             \* the hash value of each key
  Nents,            \* the possible arguments of hcreate_r()
  FilledMod,        \* 2^32: filled is an unsigned int
  MaxNoMem          \* bound: how often strdup() or calloc() returns NULL

(***************************************************************************)
(* hcreate_r(): the size is the first prime, odd, not below nel.           *)
(***************************************************************************)
\* isprime() stops at the first odd div >= 3 that divides or is too large.
IsPrime(n) ==
  \E div \in 3 .. n + 3 :
    /\ div % 2 = 1
    /\ div * div >= n \/ n % div = 0
    /\ \A d \in 3 .. div - 1 : d % 2 = 1 => d * d < n /\ n % d # 0
    /\ n % div # 0

Odd(nel) == IF nel % 2 = 0 THEN nel + 1 ELSE nel

\* (Between n and 2n + 1 there is a prime.)
TableSize(nel) ==
  CHOOSE n \in Odd(nel) .. 2 * nel + 7 :
    /\ n % 2 = 1 /\ IsPrime(n)
    /\ \A m \in Odd(nel) .. n - 1 : m % 2 = 1 => ~IsPrime(m)

Sizes == {TableSize(n) : n \in Nents}

(***************************************************************************)
(* The sequence of slots that hsearch_r() visits for hash value h in a     *)
(* table of size s: i steps of hval2 down from the first index.            *)
(***************************************************************************)
Home(s, k) == IF Hash[k] % s = 0 THEN 1 ELSE Hash[k] % s

Hval2(s, h) == 1 + (h % (s - 2))

Probe(s, h, i) == 1 + ((h - 1 - i * Hval2(s, h)) % s)

ASSUME HashTableAssumption ==
  /\ NoKey \notin Key
  /\ NoValue \notin Value
  /\ Hash \in [Key -> Nat]
  /\ Nents # {} /\ Nents \subseteq Nat /\ \A nel \in Nents : nel > 3
  /\ FilledMod \in Nat /\ \A s \in Sizes : s < FilledMod
  /\ MaxNoMem \in Nat

\* There is a prime in the range that TableSize looks at.
ASSUME PrimeAssumption ==
  \A nel \in Nents : \E n \in Odd(nel) .. 2 * nel + 7 : n % 2 = 1 /\ IsPrime(n)

VARIABLES
  size, table, filled,   \* struct hsearch_data
  bound,                 \* history: names entered and not deleted since
  crowded,               \* history: an entry was made when no slot of the
                         \* table was left that had never been used
  nomem                  \* history: memory ran out so many times

vars == <<size, table, filled, bound, crowded, nomem>>

\* Size 0 stands for table = NULL: there is no table.
Slot == 1 .. size
Empty == [used |-> 0, key |-> NoKey, data |-> NoValue]
TombstoneUnused == Empty                    \* mutant: the chain is cut
Tombstone == [Empty EXCEPT !.used = -1]     \* its key and data are freed

Kth(k, i) == Probe(size, Home(size, k), i)

\* A key whose strdup() failed matches no name: strcmp() reads what is at
\* address 0, and NoKey, which is no variable's name, stands for that.
Matches(k, n) == table[n].used = Home(size, k) /\ table[n].key = k

\* Mutant: a tombstone ends the search.
EndsAtTombstone(k, i) ==
  /\ \A j \in 0 .. i - 1 : table[Kth(k, j)].used > 0 /\ ~Matches(k, Kth(k, j))
  /\ i = size \/ table[Kth(k, i)].used <= 0 \/ Matches(k, Kth(k, i))

\* The search for k ends after i steps: at the entry, at a slot that was
\* never used, or (i = size) back at the first index.
EndsAt(k, i) ==
  /\ \A j \in 0 .. i - 1 : table[Kth(k, j)].used # 0 /\ ~Matches(k, Kth(k, j))
  /\ i = size \/ table[Kth(k, i)].used = 0 \/ Matches(k, Kth(k, i))

\* hsearch_r(FIND) returns slot n.
FoundIn(k, n) ==
  Matches(k, n) /\ \E i \in 0 .. size - 1 : n = Kth(k, i) /\ EndsAt(k, i)
Found(k) == \E n \in Slot : FoundIn(k, n)

(***************************************************************************)
(* hsearch_r(ENTER)                                                        *)
(***************************************************************************)
\* The entry exists: its value is replaced, or lost if strdup() fails.
Update(k, v) ==
  \E n \in Slot :
    /\ FoundIn(k, n)
    /\ \E d \in {v, NoValue} :
         /\ d = NoValue => nomem < MaxNoMem
         /\ table' = [table EXCEPT ![n].data = d]
         /\ nomem' = IF d = NoValue THEN nomem + 1 ELSE nomem
    /\ UNCHANGED <<size, filled, bound, crowded>>

\* Mutant: a new entry takes its first index without probing.
NewSlotHome(k, n) == n = Home(size, k)

\* The slot that a new entry takes: the first one if it is a tombstone (no
\* other tombstone is remembered), else the one where the search ended.
NewSlot(k, n) ==
  LET home == Home(size, k) IN
  IF table[home].used = -1 THEN n = home
  ELSE \E i \in 0 .. size : EndsAt(k, i) /\ n = IF i = size THEN home ELSE Kth(k, i)

Unused == {n \in Slot : table[n].used = 0}

\* The error for a full table.
TableFull(k) ==
  /\ size > 0
  /\ ~Found(k)
  /\ filled = size
  /\ UNCHANGED vars

Create(k, v) ==
  /\ ~Found(k)
  /\ filled # size
  /\ \E n \in Slot :
       /\ NewSlot(k, n)
       /\ table' = [table EXCEPT ![n] =
                      [used |-> Home(size, k), key |-> k, data |-> v]]
  /\ filled' = (filled + 1) % FilledMod
  /\ bound' = bound \union {k}
  /\ crowded' = (crowded \/ Unused = {})
  /\ UNCHANGED <<size, nomem>>

\* One of the two strdup() calls fails, or both.  The slot stays taken, and
\* is not counted in filled.
CreateNoMem(k, v) ==
  /\ nomem < MaxNoMem
  /\ ~Found(k)
  /\ filled # size
  /\ \E n \in Slot, kk \in {k, NoKey}, d \in {v, NoValue} :
       /\ kk = NoKey \/ d = NoValue
       /\ NewSlot(k, n)
       /\ table' = [table EXCEPT ![n] =
                      [used |-> Home(size, k), key |-> kk, data |-> d]]
  /\ nomem' = nomem + 1
  /\ crowded' = (crowded \/ Unused = {})
  /\ UNCHANGED <<size, filled, bound>>

(***************************************************************************)
(* hdelete_r(), and himport_r() without H_NOCLEAR, which destroys the      *)
(* table and creates a new one before it enters what it imports.  If there *)
(* is no memory for the new one it returns, and the table is gone; until   *)
(* the next import every call would follow the pointer NULL, so none is    *)
(* modelled but that import.                                               *)
(***************************************************************************)
\* Mutants: filled is not decremented; it is, but as a signed number.
DeleteUncounted(k) ==
  \E n \in Slot :
    /\ FoundIn(k, n)
    /\ table' = [table EXCEPT ![n] = Tombstone]
    /\ bound' = bound \ {k}
    /\ UNCHANGED <<size, filled, crowded, nomem>>
DeleteSigned(k) ==
  \E n \in Slot :
    /\ FoundIn(k, n)
    /\ table' = [table EXCEPT ![n] = Tombstone]
    /\ filled' = filled - 1
    /\ bound' = bound \ {k}
    /\ UNCHANGED <<size, crowded, nomem>>

Delete(k) ==
  \E n \in Slot :
    /\ FoundIn(k, n)
    /\ table' = [table EXCEPT ![n] = Tombstone]
    /\ filled' = (filled - 1) % FilledMod
    /\ bound' = bound \ {k}
    /\ UNCHANGED <<size, crowded, nomem>>

Recreate ==
  \E s \in Sizes :
    /\ size' = s
    /\ table' = [n \in 1 .. s |-> Empty]
    /\ filled' = 0
    /\ bound' = {}
    /\ crowded' = FALSE
    /\ UNCHANGED nomem

RecreateNoMem ==
  /\ nomem < MaxNoMem
  /\ size' = 0
  /\ table' = [n \in 1 .. 0 |-> Empty]
  /\ filled' = 0
  /\ bound' = {}
  /\ crowded' = FALSE
  /\ nomem' = nomem + 1

Init ==
  \E s \in Sizes :
    /\ size = s
    /\ table = [n \in 1 .. s |-> Empty]
    /\ filled = 0
    /\ bound = {}
    /\ crowded = FALSE
    /\ nomem = 0

\* The calls that leave a table behind.
Call ==
  \/ \E k \in Key : TableFull(k) \/ Delete(k)
  \/ \E k \in Key, v \in Value : Update(k, v) \/ Create(k, v) \/ CreateNoMem(k, v)
  \/ Recreate

Next == Call \/ RecreateNoMem

Spec == Init /\ [][Next]_vars

(***************************************************************************)
(* Properties.                                                             *)
(***************************************************************************)
Entry == [used : {-1} \union 0 .. size - 1,
          key : Key \union {NoKey}, data : Value \union {NoValue}]

\* The type of every variable.
TypeOK ==
  /\ size \in Sizes \union {0}
  /\ table \in [Slot -> Entry]
  /\ filled \in 0 .. FilledMod - 1
  /\ bound \subseteq Key
  /\ crowded \in BOOLEAN
  /\ nomem \in 0 .. MaxNoMem

Live(n) == table[n].used > 0

\* Whatever was deleted and entered before, an entry in the table is the one
\* the search for its key ends at: no slot on the way to it was ever unused,
\* and no second entry for the key comes before it.
EntriesReachable == \A n \in Slot : Live(n) /\ table[n].key # NoKey => FoundIn(table[n].key, n)

\* filled, which the test for a full table uses, counts the entries, unless
\* memory ran out or every slot had been used.
FilledIsEntries ==
  ~crowded /\ nomem = 0 => filled = Cardinality({n \in Slot : Live(n)})

\* "An empty bucket has been found" (hashtable.c): a new entry goes to an
\* empty slot, so that every name that was entered and not deleted is found.
NamesFound == \A k \in bound : Found(k)

\* That holds while some slot has never been used.
NamesKept == ~crowded => NamesFound

\* The environment that the table stands for.
Contents ==
  [k \in Key |-> IF Found(k) THEN table[CHOOSE n \in Slot : FoundIn(k, n)].data
                             ELSE NoValue]

Map == INSTANCE EnvMap WITH env <- Contents, kept <- ~crowded

\* Seen through hsearch_r(FIND), the table is a map: every operation changes
\* the value of its own key only.
IsMap == Map!MapSpec

====
