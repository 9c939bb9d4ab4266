------------------------------ MODULE Answers -------------------------------
(***************************************************************************)
(* One turn of RouterResponder: the route of a message is decided, and the *)
(* handler of the route answers it - from the customer's orders (the       *)
(* lookup of OrderLookup), from the knowledge base, from a list of the     *)
(* shop, by a fixed text, or by handing the customer to a person.          *)
(*                                                                         *)
(* The model chain, the embedder, Postgres, Sahiy and the exchange service *)
(* may fail at any call of the turn.  What they return is a choice from    *)
(* small sets; texts are told apart by who wrote them.  Confidences are in *)
(* percent.  Languages are left out.                                       *)
(***************************************************************************)
EXTENDS OrderLookup

CONSTANTS
    Turns,               \* a message, the earlier ones of the user role, who it is
    Setups,              \* what the program was started with
    EscalationThreshold, \* below it an answer is handed to a person
    RagThreshold,        \* a vector match below it is none
    Similarities,        \* scores of matches
    Claims,              \* confidences a model may report
    Rates, FallbackRate, \* exchange rates: the service's, the configured one
    NoTurn, NoRoute, NoMatch, NoCompletion, NoFacts, NoOutcome

Routes == {"faq", "api", "ticket", "pickup", "product_search", "category", "chitchat"}

Percent == 0..100

\* A model's reply follows the contract or is prose; the rules client answers
\* with a placeholder that is marked degraded.
Contract(c) == [degraded |-> FALSE, contract |-> TRUE, confidence |-> c]
Prose       == [degraded |-> FALSE, contract |-> FALSE, confidence |-> 0]
Placeholder == [degraded |-> TRUE, contract |-> FALSE, confidence |-> 0]

Setup == [stack : BOOLEAN,    \* a Sahiy service user is configured
          models : BOOLEAN,   \* Available(): a provider is
          embedder : BOOLEAN] \* one besides the mock is

ASSUME AnswersAssumption ==
    /\ Setups \subseteq Setup
    /\ Similarities \subseteq Percent
    /\ Claims \subseteq Int
    /\ EscalationThreshold \in Percent
    /\ NoRoute \notin [to : Routes, by : {"rule", "keywords", "model"}]
    /\ NoTurn \notin Turns

\* What a turn asks of the lookup.  t.prior holds every earlier message of the
\* user role: the customer's texts and the markers of the identity gate, of which
\* the phone's digits read as a number.
RequestOf(t) == [msg |-> MergeFollowUp(t.msg, t.prior), user |-> t.user, phone |-> t.phone]

ASSUME TurnsAssumption ==
    \A t \in Turns :
        /\ RequestOf(t) \in Requests
        /\ DOMAIN t.prior \subseteq Nat /\ "track" \in DOMAIN t.msg

VARIABLES
    setup,
    turn,      \* the turn that is answered
    at,        \* how far it is
    route,     \* the decision and who took it
    match,     \* the knowledge-base entry that was found
    rate,      \* the rate this turn uses
    told,      \* what the model is told of the customer's orders
    said,      \* the model's reply
    outcome

answerVars == <<setup, turn, at, route, match, rate, told, said, outcome>>
allVars    == <<lookupVars, answerVars>>

NoRate == 0

AnswersInit ==
    /\ LookupInit
    /\ setup \in Setups
    /\ turn = NoTurn /\ at = "idle"
    /\ route = NoRoute /\ match = NoMatch
    /\ rate = NoRate
    /\ told = NoFacts /\ said = NoCompletion /\ outcome = NoOutcome

-----------------------------------------------------------------------------
(* The model                                                               *)

\* Complete: a provider's reply, or the placeholder when none gave one.
Completions ==
    {Placeholder} \cup (IF setup.models THEN {Contract(c) : c \in Claims} \cup {Prose} ELSE {})

Clamp(c) == IF c < 0 THEN 0 ELSE IF c > 100 THEN 100 ELSE c

\* Mutant: what a model claims is taken as it is.
ParseUnclamped(c) == IF c.contract THEN c.confidence ELSE 30

\* ParseAnswer: what a model did not vouch for in the contract's form is
\* scored below the threshold.
FallbackConfidence == 30
ParseAnswer(c) == IF c.contract THEN Clamp(c.confidence) ELSE FallbackConfidence

Below(confidence) == confidence < EscalationThreshold

-----------------------------------------------------------------------------
(* Outcomes                                                                *)

Out(text, confidence, escalate) ==
    [text |-> text, confidence |-> confidence, escalate |-> escalate, degraded |-> FALSE]

Ack         == Out("ticket", 100, TRUE)
Operator    == Out("operator", 100, TRUE)
Civility    == Out("civility", 100, FALSE)
Greeting    == Out("greeting", 95, FALSE)
NotFound    == Out("notFound", 20, TRUE)
Degraded(o) == [o EXCEPT !.degraded = TRUE]

Move(p) == at' = p
Replies(o) == Move("replied") /\ outcome' = o
TurnFails  == Move("failed") /\ UNCHANGED outcome

\* What dispatch makes of an answer of the FAQ service.
FromFAQ(ans) ==
    IF route.to = "chitchat"
    THEN IF ans.degraded THEN Degraded(Greeting) ELSE Out(ans.text, 95, FALSE)
    ELSE IF ans.degraded THEN Degraded(Operator)
    ELSE Out(ans.text, ans.confidence, Below(ans.confidence))

-----------------------------------------------------------------------------
(* The route                                                               *)

Ask(t) ==
    /\ at = "idle"
    /\ turn' = t
    /\ Move("decide")
    /\ UNCHANGED <<lookupVars, setup, route, match, rate, told, said, outcome>>

ParseRoute(raw) == IF raw \in Routes THEN raw ELSE "faq"

\* Mutant: keywords do not know the customer's own orders.
FallbackRouteToArticles(m) ==
    IF Says(m, "operator") THEN "ticket"
    ELSE IF Says(m, "chitchat") THEN "chitchat"
    ELSE "faq"

FallbackRoute(m) ==
    IF Says(m, "operator") THEN "ticket"
    ELSE IF IsLookupRequest(m) THEN "api"
    ELSE IF Says(m, "chitchat") THEN "chitchat"
    ELSE "faq"

Routed(to, by) == route' = [to |-> to, by |-> by]

\* The model is asked when no rule decides; what cannot be used of its reply
\* (it failed, is degraded or has no route) leaves the keywords.
Decide ==
    /\ at = "decide"
    /\ LET m == turn.msg
       IN  \/ Says(m, "operator") /\ Routed("ticket", "rule")
           \/ ~Says(m, "operator") /\ Names(m) /\ Routed("api", "rule")
           \/ /\ ~Says(m, "operator") /\ ~Names(m) /\ setup.models
              /\ \E raw \in Routes \cup {"unknown"} : Routed(ParseRoute(raw), "model")
           \/ /\ ~Says(m, "operator") /\ ~Names(m)
              /\ Routed(FallbackRoute(m), "keywords")
    /\ Move("dispatch")
    /\ UNCHANGED <<lookupVars, setup, turn, match, rate, told, said, outcome>>

\* Mutant: insults come first.
HandlerCivilFirst ==
    IF Says(turn.msg, "profanity") THEN "civility"
    ELSE IF route.to = "ticket" \/ (setup.stack /\ route.to \in {"api", "product_search", "category", "pickup"})
    THEN route.to
    ELSE "retrieve"

\* A route whose handler is not wired is the knowledge base's.
Handler ==
    IF route.to = "ticket" THEN "ticket"
    ELSE IF Says(turn.msg, "profanity") THEN "civility"
    ELSE IF setup.stack /\ route.to \in {"api", "product_search", "category", "pickup"}
    THEN route.to
    ELSE "retrieve"

Dispatch ==
    /\ at = "dispatch"
    /\ IF Handler = "civility" THEN Replies(Civility) ELSE Move(Handler) /\ UNCHANGED outcome
    /\ UNCHANGED <<lookupVars, setup, turn, route, match, rate, told, said>>

\* Support.Respond: the session's open ticket, or a new one.
OpenTicket ==
    /\ at = "ticket"
    /\ Replies(Ack) \/ TurnFails
    /\ UNCHANGED <<lookupVars, setup, turn, route, match, rate, told, said>>

-----------------------------------------------------------------------------
(* The knowledge base                                                      *)

\* The best entry of a search, and whether it has a text for the language.
Match == [similarity : Similarities, text : BOOLEAN]

\* keywordMinScore of the lexical search, which the query itself applies.
KeywordMinScore == 38

\* Mock vectors are marked degraded and never searched for.
SearchByVector ==
    /\ at = "retrieve"
    /\ \/ /\ setup.embedder
          /\ match' \in {m \in Match : m.similarity >= RagThreshold}
          /\ Move("compose")
       \/ Move("lexical") /\ UNCHANGED match
    /\ UNCHANGED <<lookupVars, setup, turn, route, rate, told, said, outcome>>

SearchByKeyword ==
    /\ at = "lexical"
    /\ \/ match' \in {m \in Match : m.similarity >= KeywordMinScore} /\ Move("compose")
       \/ Move("static") /\ UNCHANGED match
    /\ UNCHANGED <<lookupVars, setup, turn, route, rate, told, said, outcome>>

Answer(text, confidence) == [text |-> text, confidence |-> confidence, degraded |-> FALSE]

\* A question about the company has a fixed answer, when no entry matches.
StaticAnswer ==
    /\ at = "static"
    /\ IF Says(turn.msg, "company")
       THEN Replies(FromFAQ(Answer("static", 100)))
       ELSE Move("compose") /\ UNCHANGED outcome
    /\ UNCHANGED <<lookupVars, setup, turn, route, match, rate, told, said>>

\* An answer no entry supports is worth less.
Penalised(confidence) == IF match = NoMatch THEN (confidence * 8) \div 10 ELSE confidence

\* Mutant: a placeholder is parsed like any reply.
ToAnswerUnchecked(c) == Answer("model", Penalised(ParseAnswer(c)))

ToAnswer(c) ==
    IF c.degraded THEN [Answer("none", 0) EXCEPT !.degraded = TRUE]
    ELSE Answer("model", Penalised(ParseAnswer(c)))

\* Without a model a matching entry is served as it is stored.
Phrased(c) ==
    IF c.degraded /\ match # NoMatch /\ match.text
    THEN Answer("stored", match.similarity)
    ELSE ToAnswer(c)

\* ragAnswer or genericAnswer.
Compose ==
    /\ at = "compose"
    /\ \/ \E c \in Completions : said' = c /\ Replies(FromFAQ(Phrased(c)))
       \/ TurnFails /\ UNCHANGED said
    /\ UNCHANGED <<lookupVars, setup, turn, route, match, rate, told>>

-----------------------------------------------------------------------------
(* The customer's orders                                                   *)

StartLookup ==
    /\ at = "api" /\ pc = "idle"
    /\ Lookup(RequestOf(turn))
    /\ UNCHANGED answerVars

LookUp == at = "api" /\ LookupStep /\ UNCHANGED answerVars

TakeSnapshot ==
    /\ at = "api" /\ result # NoResult
    /\ IF result = LookupError \/ IsEmpty(result)
       THEN Replies(NotFound)
       ELSE Move("rate") /\ UNCHANGED outcome
    /\ UNCHANGED <<lookupVars, setup, turn, route, match, rate, told, said>>

\* CNYToUZS: the rate of the service, cached or fetched, or the configured one.
CNYToUZS == rate' \in Rates \cup {FallbackRate}

Quote ==
    /\ at = "rate"
    /\ CNYToUZS
    /\ told' = Summarize(result, rate')
    /\ Move("answer")
    /\ UNCHANGED <<lookupVars, setup, turn, route, match, said, outcome>>

\* Mutant: the reply is shown whatever the model says of it.
OrderOutcomeTrusting(c) ==
    IF c.degraded THEN NotFound ELSE Out("orders", ParseAnswer(c), FALSE)

OrderOutcome(c) ==
    IF c.degraded THEN NotFound
    ELSE Out("orders", ParseAnswer(c), Below(ParseAnswer(c)))

AnswerOrder ==
    /\ at = "answer"
    /\ \/ \E c \in Completions : said' = c /\ Replies(OrderOutcome(c))
       \/ TurnFails /\ UNCHANGED said
    /\ UNCHANGED <<lookupVars, setup, turn, route, match, rate, told>>

-----------------------------------------------------------------------------
(* The shop's lists                                                        *)

\* ProductSearchService.Respond: found, nothing found, or the search failed.
SearchProducts ==
    /\ at = "product_search"
    /\ CNYToUZS
    /\ \E o \in {Out("products", 90, FALSE), Out("noProducts", 50, FALSE),
                 Out("noProducts", 30, FALSE)} : Replies(o)
    /\ UNCHANGED <<lookupVars, setup, turn, route, match, told, said>>

BrowseCategories ==
    /\ at = "category"
    /\ \E o \in {Out("categories", 90, FALSE), Out("noCategories", 30, FALSE)} : Replies(o)
    /\ UNCHANGED <<lookupVars, setup, turn, route, match, rate, told, said>>

ListPickupPoints ==
    /\ at = "pickup"
    /\ \E o \in {Out("pickup", 90, FALSE), Out("noPickup", 50, FALSE),
                 Out("noPickup", 30, FALSE)} : Replies(o)
    /\ UNCHANGED <<lookupVars, setup, turn, route, match, rate, told, said>>

-----------------------------------------------------------------------------
Work ==
    \/ Decide \/ Dispatch \/ OpenTicket
    \/ SearchByVector \/ SearchByKeyword \/ StaticAnswer \/ Compose
    \/ StartLookup \/ LookUp \/ TakeSnapshot \/ Quote \/ AnswerOrder
    \/ SearchProducts \/ BrowseCategories \/ ListPickupPoints

Ended == at \in {"replied", "failed"} /\ UNCHANGED allVars

AnswersNext == (\E t \in Turns : Ask(t)) \/ Work \/ Ended

AnswersSpec == AnswersInit /\ [][AnswersNext]_allVars

\* The turn runs under its handler's deadline: every call it makes returns.
AnswersFairSpec == AnswersSpec /\ WF_allVars(Work)

-----------------------------------------------------------------------------
(* Properties                                                              *)

Texts == {"ticket", "operator", "civility", "greeting", "static", "stored", "model",
          "orders", "notFound", "products", "noProducts", "categories",
          "noCategories", "pickup", "noPickup"}

AnswersTypeOK ==
    /\ TypeOK
    /\ setup \in Setups
    /\ turn \in Turns \cup {NoTurn}
    /\ at \in Routes \cup {"idle", "decide", "dispatch", "retrieve", "lexical", "static",
                            "compose", "rate", "answer", "replied", "failed"}
    /\ route \in [to : Routes, by : {"rule", "keywords", "model"}] \cup {NoRoute}
    /\ match \in Match \cup {NoMatch}
    /\ rate \in {NoRate, FallbackRate} \cup Rates
    /\ outcome \in [text : Texts, confidence : Percent, escalate : BOOLEAN,
                    degraded : BOOLEAN] \cup {NoOutcome}

Replied == at = "replied"

\* "A canned placeholder must never stand in": when no model answered, the
\* customer is shown what people wrote (an entry, a greeting) or handed to one.
NoModelMeansPeople ==
    Replied /\ said # NoCompletion /\ said.degraded =>
        outcome.escalate \/ outcome.text \in {"stored", "greeting"}

\* "A reply we cannot vouch for": what a model wrote below the threshold, or
\* outside the contract, and an entry that matches badly go with a handoff,
\* but for small talk.
UnsureAnswersAreHandedOver ==
    Replied /\ outcome.text \in {"model", "stored", "orders"} /\ route.to # "chitchat" =>
        /\ Below(outcome.confidence) => outcome.escalate
        /\ outcome.text # "stored" /\ ~said.contract
             /\ EscalationThreshold > FallbackConfidence => outcome.escalate

\* "Without it, a customer asking where are my orders during an LLM outage is
\* answered with an article": keywords alone send such a customer to the orders.
OwnOrdersAreNoArticle ==
    Replied /\ route.by = "keywords" /\ setup.stack
    /\ IsLookupRequest(turn.msg) /\ ~Says(turn.msg, "profanity")
    => outcome.text \in {"orders", "notFound"}

\* "A customer asking for an operator still gets one", whatever else is said.
OperatorIsReached ==
    Replied /\ Says(turn.msg, "operator") => outcome = Ack

\* A bare follow-up of a known customer is answered from the delivery whose
\* number the last earlier message with a number carries, and from nothing else,
\* when nothing fails; a phone number counts, typed or in a marker of the gate.
FollowUpsKeepTheirParcel ==
    Replied /\ outcome.text = "orders" /\ failed = {} /\ turn.user # Nobody =>
        \A i \in DOMAIN turn.prior :
            /\ ~Names(turn.msg) /\ Says(turn.msg, "followUp")
            /\ Names(turn.prior[i]) /\ \A j \in DOMAIN turn.prior : j > i => ~Names(turn.prior[j])
            /\ \E o \in RowsOf(sahiy, "delivery") : o.track = turn.prior[i].track
            => \A f \in told.orders : f.track = turn.prior[i].track

\* Every message is replied to, or its turn fails and the caller is told.
EveryTurnEnds == turn # NoTurn ~> at \in {"replied", "failed"}

=============================================================================
