----------------------------- MODULE MCEnvNand -----------------------------
\* Instances of the redundant environment for TLC.
EXTENDS EnvNand
=============================================================================
