---------------------------- MODULE MCSahiyReads ----------------------------
(* Instances of SahiyReads for TLC: a list of two pages, of which the client *)
(* would ask for three.                                                     *)
EXTENDS SahiyReads

CONSTANTS c1, c2, pickup

MCPages    == [l \in Lists |-> 2]
MCMaxPages == [l \in Lists |-> 3]

=============================================================================
