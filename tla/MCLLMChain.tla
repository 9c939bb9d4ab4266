----------------------------- MODULE MCLLMChain -----------------------------
(* Instances of LLMChain for TLC.                                          *)
EXTENDS LLMChain

CONSTANTS c1, c2, c3

=============================================================================
