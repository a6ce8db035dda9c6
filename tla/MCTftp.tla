------------------------------- MODULE MCTftp -------------------------------
\* Instances of the TFTP client in the network loop for TLC.
EXTENDS Tftp

AllUp   == {Dev}
MacAll  == Dev
MacRest == Dev \ {0}
WireAll == Dev

AllOps  == {"RRQ", "ACK", "DATA", "OACK", "ERROR", "ARPREQ", "ARPREP",
            "TIMER"}
None    == {}
=============================================================================
