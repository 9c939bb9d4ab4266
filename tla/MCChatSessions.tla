--------------------------- MODULE MCChatSessions ---------------------------
(* Instances of ChatSessions for TLC.                                      *)
EXTENDS ChatSessions, TLC

CONSTANTS r1, r2, r3, u1, u2, x1

Symmetry == Permutations({r1, r2, r3} \cap Requests)

Reply(u, ch, h, txt, known) ==
    [op |-> "reply", user |-> u, channel |-> ch, hint |-> h, text |-> txt, meta |-> known]

Reset(u, ch) == [Reply(u, ch, None, "plain", FALSE) EXCEPT !.op = "reset"]

Contact(u, ch) == [Reply(u, ch, None, "plain", FALSE) EXCEPT !.op = "phone"]

\* Everything a Telegram customer can do: verified or not, naming no session,
\* with identities or a marker in texts, a shared contact and /new.
TelegramCommands ==
    {Reply(u1, "telegram", None, t, FALSE) : t \in {"plain", "account", "phoneOnly", "marker"}}
    \cup {Reply(u1, "telegram", None, "plain", TRUE), Reset(u1, "telegram"), Contact(u1, "telegram")}

\* The same, and two customers of the API with an id of their own choosing, or
\* one learnt from a reply.
AllCommands ==
    TelegramCommands
    \cup {Reply(u2, "api", h, "plain", FALSE) : h \in {None, x1} \cup Requests}
    \cup {Reply(u1, "api", x1, "plain", FALSE)}

\* A customer who is not verified writes a text, or one that reads as a marker.
TextCommands == {Reply(u1, "telegram", None, t, FALSE) : t \in {"plain", "marker"}}

\* One customer whose calls name no session.
ImplicitCommands ==
    {Reply(u1, "telegram", None, "plain", TRUE), Reset(u1, "telegram"), Contact(u1, "telegram")}
=============================================================================
