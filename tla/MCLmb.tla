------------------------------- MODULE MCLmb -------------------------------
\* Instances of the memory tables for TLC.
EXTENDS Lmb
MCMemory == {[base |-> 1, size |-> 3], [base |-> 5, size |-> 4]}
=============================================================================
