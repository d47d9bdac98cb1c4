--------------------------- MODULE MCRingBootstrap ---------------------------
(* Small rings of processes for TLC.                                         *)
EXTENDS RingBootstrap

\* All ranks on one machine, where only the ports tell them apart.
Localhost == [r \in Ranks |-> "localhost"]
=============================================================================
