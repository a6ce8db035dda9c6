------------------------------ MODULE MCNetBoot ------------------------------
\* Instances of the dhcp command for TLC.
EXTENDS NetBoot

AllUp    == {Dev}
MacRest  == Dev \ {0}
WireLast == {NDev - 1}
AllOps   == {"RRQ", "ACK", "DATA", "OACK", "ERROR", "ARPREQ", "ARPREP", "TIMER",
             "DISCOVER", "OFFER", "REQUEST", "NAK"}
=============================================================================
