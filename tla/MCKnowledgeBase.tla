--------------------------- MODULE MCKnowledgeBase ---------------------------
(* Instances of KnowledgeBase for TLC: a release and its successor, which   *)
(* brings one more migration and one more entry of the seed.                *)
EXTENDS KnowledgeBase

CONSTANTS api, bot, e1, e2, old, new

MCMigrations == [r \in Releases |-> IF r = old THEN 1 ELSE 2]
MCSeeds      == [r \in Releases |-> IF r = old THEN 1 ELSE 2]

=============================================================================
