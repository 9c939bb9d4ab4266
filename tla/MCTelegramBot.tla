--------------------------- MODULE MCTelegramBot ----------------------------
(* Instances of TelegramBot for TLC.                                       *)
EXTENDS TelegramBot, TLC

CONSTANTS r1, r2, r3, r4, u1, u2

Symmetry == Permutations({r1, r2, r3, r4} \cap Requests)

\* What the adapter can ask of the chat service for texts of the given kinds.
Calls(texts) ==
    {c \in Command :
        /\ c.channel = "telegram"
        /\ c.op = "reply" => c.text \in texts
        /\ c.op # "reply" => c.text = "plain" /\ c.hint = None /\ ~c.meta}

PlainCalls      == Calls({"plain"})
MarkedCalls     == Calls({"plain", "marker"})
IdentifiedCalls == Calls({"plain", "phone"})

=============================================================================
