---------------------------- MODULE MCHashTable ----------------------------
\* Instances of the hash table and its linear form for TLC.  With size 5 and
\* the three hash values below, a and b have the same first index and c's lies
\* on their way.  The values have what makes a text hard to read back.
EXTENDS EnvText

CONSTANTS a, b, c, d, v1, v2

HashColliding == [k \in Key |-> IF k = a THEN 3 ELSE IF k = b THEN 8 ELSE IF k = c THEN 4 ELSE 2]

MCChar == Sep \union Blank \union {Backslash, "=", "#", "x", "y", "z"}
MCKeyText == [k \in Key |-> IF k = a THEN <<"x">> ELSE IF k = b THEN <<"x", "y">>
                            ELSE IF k = c THEN <<"y", "#">> ELSE <<"z">>]
MCValueText == [v \in Value |->
  IF v = v1 THEN <<Backslash, Newline, "=", Backslash, Backslash>>
            ELSE <<Newline, " ", "#", Newline>>]
MCKeyOrder == SelectSeq(<<a, b, c, d>>, LAMBDA k : k \in Key)
=============================================================================
