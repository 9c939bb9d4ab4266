----------------------------- MODULE MCAnswers ------------------------------
(* Turns of a customer for the run of Answers.                               *)
EXTENDS Answers, MCOrderData

\* "bu chi?", "operator kerak ahmoq", "ahmoq", "salom", "sahiy nima", "bormi"
FollowUp == Message({"followUp"})
Angry    == Message({"operator", "profanity"})
Insult   == Message({"profanity"})
Hello    == Message({"chitchat"})
Company  == Message({"company"})
Other    == Message({})

\* The gate's marker of a phone; the one of an account is like Other.
PhoneMarker == Digits

Asks(req, prior) == [msg |-> req.msg, prior |-> prior, user |-> req.user, phone |-> req.phone]

MCTurns ==
  {Asks(req, <<>>) : req \in MCRequests}
    \cup {Asks(Verified(m), <<>>) : m \in {Angry, Insult, Hello, Company, Other}}
    \cup {Asks(Verified(FollowUp), prior) :
             prior \in {<<Naming(Number(k3)), MyOrders, PhoneMarker, Naming(Number(k1)), Other>>,
                       <<Naming(Number(k1)), FollowUp, PhoneMarker>>,
                       <<MyOrders>>}}

\* What the turns make of them, a follow-up with the turn it follows.
MCTurnRequests ==
  {RequestOf(t) : t \in MCTurns}

AllOn   == [stack |-> TRUE, models |-> TRUE, embedder |-> TRUE]
MCSetups == {AllOn, [AllOn EXCEPT !.models = FALSE], [AllOn EXCEPT !.stack = FALSE, !.embedder = FALSE]}
=============================================================================
