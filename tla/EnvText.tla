------------------------------ MODULE EnvText ------------------------------
(***************************************************************************)
(* The linear form of the environment: hexport_r() writes the entries of   *)
(* the hash table as name=value pairs in the order of their names, and     *)
(* himport_r() reads them back.  It is what saveenv stores (separator NUL) *)
(* and what "env export -t" gives to the user (separator newline).         *)
(*                                                                         *)
(* A text is a sequence of characters.  KeyText and ValueText give the     *)
(* characters of the keys and values that module HashTable takes as they   *)
(* are; a value without characters is not imported again (it deletes), and *)
(* a name that starts with blank or # is not either: there are none.       *)
(***************************************************************************)
EXTENDS HashTable, Sequences, SequencesExt

CONSTANTS
  Char,                \* the characters
  KeyText, ValueText,  \* the characters of each key and of each value
  KeyOrder             \* the keys in the order of strcmp()

Nul == "NUL"
Newline == "LF"
Backslash == "BS"
Blank == {" ", "TAB"}
Sep == {Nul, Newline}

ASSUME EnvTextAssumption ==
  /\ Sep \union {Backslash, "="} \subseteq Char
  /\ KeyText \in [Key -> Seq(Char)] /\ IsInjective(KeyText)
  /\ ValueText \in [Value -> Seq(Char)]
  /\ KeyOrder \in Seq(Key)
  /\ \A k \in Key : /\ \E i \in 1 .. Len(KeyOrder) : KeyOrder[i] = k
                    /\ KeyText[k] # <<>> /\ KeyText[k][1] \notin Blank \union {"#"}
                    /\ \A i \in 1 .. Len(KeyText[k]) :
                         KeyText[k][i] \notin Sep \union {"="}
  /\ \A v \in Value : /\ ValueText[v] # <<>>
                      /\ \A i \in 1 .. Len(ValueText[v]) : ValueText[v][i] # Nul

(***************************************************************************)
(* hexport_r()                                                             *)
(***************************************************************************)
\* Pass 1, and qsort(): the entries in the order of their keys.
Rank(n) == CHOOSE i \in 1 .. Len(KeyOrder) : KeyOrder[i] = table[n].key
LiveSlots == {n \in Slot : Live(n)}
List == CHOOSE s \in [1 .. Cardinality(LiveSlots) -> LiveSlots] :
          \A i, j \in DOMAIN s : i < j => Rank(s[i]) < Rank(s[j])

Escaped(ch, sep) == ch = sep \/ ch = Backslash

\* Mutant: no room for the escapes.
DataRoomPlain(text, sep) == Len(text)

\* Room for a value.  Escapes are counted only if the separator is not NUL ...
DataRoom(text, sep) ==
  IF sep = Nul THEN Len(text)
  ELSE Len(text) + Cardinality({i \in 1 .. Len(text) : Escaped(text[i], sep)})

\* ... but there are two characters to spare for each entry.
EntryRoom(n, sep) ==
  Len(KeyText[table[n].key]) + 2 + DataRoom(ValueText[table[n].data], sep) + 2

Total(f, n) ==
  LET sum[i \in 0 .. n] == IF i = 0 THEN 0 ELSE sum[i - 1] + f[i] IN sum[n]

\* The size of the result that is allocated, or that the buffer must have.
ExportSize(sep) ==
  Total([i \in 1 .. Len(List) |-> EntryRoom(List[i], sep)], Len(List)) + 1

\* Mutant: a separator in a value is escaped, a backslash is not.
EscapeSep(text, sep) ==
  FlattenSeq([i \in 1 .. Len(text) |->
                IF text[i] = sep THEN <<Backslash, text[i]>> ELSE <<text[i]>>])

\* Pass 2.  The escapes are written whatever the separator is.
Escape(text, sep) ==
  FlattenSeq([i \in 1 .. Len(text) |->
                IF Escaped(text[i], sep) THEN <<Backslash, text[i]>>
                                         ELSE <<text[i]>>])

EntryText(n, sep) ==
  KeyText[table[n].key] \o <<"=">> \o Escape(ValueText[table[n].data], sep) \o <<sep>>

Export(sep) == FlattenSeq([i \in 1 .. Len(List) |-> EntryText(List[i], sep)]) \o <<Nul>>

(***************************************************************************)
(* himport_r() of a text into an empty table.                              *)
(***************************************************************************)
At(t, i) == IF i <= Len(t) THEN t[i] ELSE Nul

\* The first position from i on that has a character of S, or has none of it.
Next1(t, i, S) == CHOOSE j \in i .. Len(t) + 1 :
  At(t, j) \in S /\ \A l \in i .. j - 1 : At(t, l) \notin S
Skip1(t, i, S) == CHOOSE j \in i .. Len(t) + 1 :
  At(t, j) \notin S /\ \A l \in i .. j - 1 : At(t, l) \in S

\* The value that starts at each position, and where parsing goes on.
Values(t, sep) ==
  LET val[i \in 1 .. Len(t) + 2] ==
        IF At(t, i) \in {Nul, sep} THEN [text |-> <<>>, next |-> i + 1]
        ELSE LET j == IF At(t, i) = Backslash /\ At(t, i + 1) # Nul THEN i + 1
                                                                    ELSE i
             IN [text |-> <<At(t, j)>> \o val[j + 1].text, next |-> val[j + 1].next]
  IN val

Pair(name, value) == [name |-> name, value |-> value]

\* One turn of the loop at position i: what it finds, and where the next one
\* starts.  A pair with no value is a deletion.
Turn(t, sep, i) ==
  LET End == {Nul, sep}
      p == Skip1(t, i, Blank)
      q == Next1(t, p, End \union {"="})
      name == SubSeq(t, p, q - 1)
      value == Values(t, sep)[q + 1]
  IN IF At(t, p) = "#" THEN [pairs |-> <<>>, next |-> Next1(t, p, End) + 1]
     ELSE IF At(t, q) \in End \/ At(t, q + 1) \in End
     THEN [pairs |-> <<Pair(name, <<>>)>>,
           next |-> IF At(t, q) = "=" THEN q + 2 ELSE q + 1]
     ELSE [pairs |-> <<Pair(name, value.text)>>, next |-> value.next]

\* The pairs found in the text; the loop is left after its end or at a NUL.
Import(t, sep) ==
  LET from[i \in 1 .. Len(t)] ==
        LET e == Turn(t, sep, i)
        IN e.pairs \o (IF At(t, e.next) = Nul THEN <<>> ELSE from[e.next])
  IN from[1]

\* The table after the import: the last pair of a name counts.
Imported(t, sep) ==
  LET s == Import(t, sep) IN
  {s[i] : i \in {i \in 1 .. Len(s) : /\ s[i].value # <<>>
                                     /\ \A j \in i + 1 .. Len(s) : s[j].name # s[i].name}}

(***************************************************************************)
(* Properties.                                                             *)
(***************************************************************************)
\* The pointers of all the entries are valid.
Exportable == nomem = 0

\* "This is the inverse function to hexport()" (hashtable.c): whatever
\* characters the values have, and with either separator, the text that is
\* written gives back the environment when it is read.
ImportInverts ==
  Exportable => \A sep \in Sep :
    Imported(Export(sep), sep) =
      {Pair(KeyText[k], ValueText[Contents[k]]) : k \in {k \in Key : Found(k)}}

BackslashesIn(n) ==
  LET text == ValueText[table[n].data]
  IN Cardinality({i \in 1 .. Len(text) : text[i] = Backslash})
Backslashes == Total([i \in 1 .. Len(List) |-> BackslashesIn(List[i])], Len(List))

\* What hexport_r() writes fits into the size that it computed for it, which
\* is what it allocates or compares with the size of the buffer, whatever the
\* values are, as long as the separator is not NUL or there are at most two
\* backslashes for each entry.
ExportFits ==
  Exportable => \A sep \in Sep :
    sep # Nul \/ Backslashes <= 2 * Len(List) => Len(Export(sep)) <= ExportSize(sep)

\* "A string of sufficient length will be allocated", and for a size that is
\* given "an error will be returned if the size is not sufficient"
\* (hashtable.c:434, 442): what is written always fits.
ExportAlwaysFits ==
  Exportable => \A sep \in Sep : Len(Export(sep)) <= ExportSize(sep)

====
