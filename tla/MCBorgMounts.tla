--------------------------- MODULE MCBorgMounts ---------------------------
EXTENDS BorgMounts

MCName == [r \in Reqs |-> "a"]
===========================================================================
