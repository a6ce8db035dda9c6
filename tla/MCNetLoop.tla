----------------------------- MODULE MCNetLoop -----------------------------
\* Instances of the network loop for TLC.
EXTENDS NetLoop

\* Every device's init() always succeeds, and every device is configured.
AllUp  == {Dev}
MacAll == Dev
=============================================================================
