----------------------------- MODULE MCAmlInfo -----------------------------
\* Instances of the driver's store for TLC.
EXTENDS AmlInfo
=============================================================================
