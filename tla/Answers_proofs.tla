--------------------------- MODULE Answers_proofs ----------------------------
(***************************************************************************)
(* What RouterResponder promises of every turn: who answers it, when a     *)
(* person is asked, and that an answer about orders is the one the lookup  *)
(* promises, with nothing of it lost on the way to the model.              *)
(***************************************************************************)
EXTENDS Answers, OrderLookup_proofs

-----------------------------------------------------------------------------
(* A turn under way                                                        *)

\* The lookup that is under way is this turn's, and what the model is told is
\* its result.
Looking ==
    /\ at # "idle" => turn \in Turns
    /\ at \notin {"api", "rate", "answer", "replied", "failed"} => pc = "idle"
    /\ pc # "idle" => asked = RequestOf(turn)
    /\ at \in {"rate", "answer"} => pc = "done" /\ result # LookupError
    /\ at = "answer" => told = Summarize(result, rate)
    /\ at = "replied" /\ outcome.text = "orders" =>
          pc = "done" /\ result # LookupError /\ told = Summarize(result, rate)

\* The model is heard once, for the reply.
Speaking == at # "replied" => said = NoCompletion

Decided == at \notin {"idle", "decide"}

\* A customer who wants a person is on the way to one.
Escorting ==
    Decided /\ Says(turn.msg, "operator") =>
        /\ route.to = "ticket"
        /\ at \in {"dispatch", "ticket", "replied", "failed"}
        /\ at = "replied" => outcome = Ack

\* A customer who asks for own orders, as the keywords tell it, is on the way there.
Serving ==
    /\ Decided /\ route.by = "keywords" /\ setup.stack
    /\ IsLookupRequest(turn.msg) /\ ~Says(turn.msg, "profanity")
    => /\ route.to = "api"
       /\ at \in {"dispatch", "api", "rate", "answer", "replied", "failed"}
       /\ at = "replied" => outcome.text \in {"orders", "notFound"}

AInv ==
    /\ IInv
    /\ Looking
    /\ Speaking
    /\ Escorting
    /\ Serving
    /\ NoModelMeansPeople
    /\ UnsureAnswersAreHandedOver

\* The part of it that is not about the lookup.
Way == Looking /\ Speaking /\ Escorting /\ Serving /\ NoModelMeansPeople /\ UnsureAnswersAreHandedOver

LEMMA TurnStarts == AnswersInit => AInv
  BY LookupStarts DEF AnswersInit, AInv, Looking, Speaking, Escorting, Serving, Decided,
     NoModelMeansPeople, UnsureAnswersAreHandedOver, Replied, LookupInit

-----------------------------------------------------------------------------
(* Steps of the turn that leave the lookup alone                           *)

\* A step on the way: nothing is replied yet.
LEMMA OnTheWay ==
    ASSUME Way, UNCHANGED <<lookupVars, setup, said>>, at # "replied", at' # "replied",
           Looking', Escorting', Serving'
    PROVE  Way'
  BY DEF Way, Speaking, NoModelMeansPeople, UnsureAnswersAreHandedOver, Replied

\* A reply that no model wrote.
LEMMA PeopleReply ==
    ASSUME Way, UNCHANGED <<lookupVars, setup, turn, route, said>>,
           at \notin {"idle", "replied"}, NEW o, Replies(o), o.text \notin {"model", "stored", "orders"},
           Escorting', Serving'
    PROVE  Way'
  <1>1. at' = "replied" /\ outcome' = o /\ said' = NoCompletion
    BY DEF Replies, Move, Way, Speaking
  <1>2. Looking'
    BY <1>1 DEF Way, Looking, lookupVars
  <1> QED BY <1>1, <1>2 DEF Way, Speaking, NoModelMeansPeople, UnsureAnswersAreHandedOver, Replied

LEMMA TurnBegins ==
    ASSUME Way, NEW t \in Turns, Ask(t)
    PROVE  Way'
  BY OnTheWay DEF Ask, Move, Way, Looking, Escorting, Serving, Decided, lookupVars

LEMMA DecideStep ==
    ASSUME Way, Decide
    PROVE  Way'
  <1>1. /\ at = "decide" /\ at' = "dispatch"
        /\ UNCHANGED <<lookupVars, setup, turn, match, rate, told, said, outcome>>
    BY DEF Decide, Move
  <1>2. Looking'
    BY <1>1 DEF Way, Looking, lookupVars
  <1>3. Escorting'
    BY <1>1 DEF Decide, Escorting, Routed, Decided
  <1>4. Serving'
    BY <1>1 DEF Decide, Serving, Routed, Decided, FallbackRoute
  <1> QED BY <1>1, <1>2, <1>3, <1>4, OnTheWay

LEMMA DispatchStep ==
    ASSUME Way, Dispatch
    PROVE  Way'
  <1>1. at = "dispatch" /\ UNCHANGED <<lookupVars, setup, turn, route, match, rate, told, said>>
    BY DEF Dispatch
  <1>2. CASE Handler = "civility" /\ Replies(Civility)
    <2>1. Escorting' /\ Serving' /\ Civility.text = "civility"
      BY <1>1, <1>2 DEF Handler, Way, Escorting, Serving, Decided, Civility, Out
    <2> QED BY <1>1, <1>2, <2>1, PeopleReply
  <1>3. CASE Handler # "civility" /\ Move(Handler) /\ outcome' = outcome
    <2>1. Handler \in {"ticket", "api", "product_search", "category", "pickup", "retrieve"}
      BY <1>3 DEF Handler
    <2>2. at' = Handler
      BY <1>3 DEF Move
    <2>3. Looking'
      BY <1>1, <1>3, <2>1, <2>2 DEF Way, Looking, lookupVars
    <2>4. Escorting' /\ Serving'
      BY <1>1, <2>1, <2>2 DEF Handler, Way, Escorting, Serving, Decided
    <2> QED BY <1>1, <2>1, <2>2, <2>3, <2>4, OnTheWay
  <1> QED BY <1>2, <1>3 DEF Dispatch

\* The handlers whose replies no model writes.
LEMMA TicketStep ==
    ASSUME Way, OpenTicket
    PROVE  Way'
  <1>1. at = "ticket" /\ UNCHANGED <<lookupVars, setup, turn, route, match, rate, told, said>>
    BY DEF OpenTicket
  <1>2. CASE Replies(Ack)
    <2>1. Escorting' /\ Serving' /\ Ack.text = "ticket"
      BY <1>1, <1>2 DEF Replies, Move, Way, Escorting, Serving, Decided, Ack, Out
    <2> QED BY <1>1, <1>2, <2>1, PeopleReply
  <1>3. CASE TurnFails
    <2>1. Looking' /\ Escorting' /\ Serving' /\ at' = "failed"
      BY <1>1, <1>3 DEF TurnFails, Move, Way, Looking, Escorting, Serving, Decided, lookupVars
    <2> QED BY <1>1, <2>1, OnTheWay
  <1> QED BY <1>2, <1>3 DEF OpenTicket

LEMMA ListStep ==
    ASSUME Way, SearchProducts \/ BrowseCategories \/ ListPickupPoints
    PROVE  Way'
  <1>1. /\ at \in {"product_search", "category", "pickup"}
        /\ UNCHANGED <<lookupVars, setup, turn, route, match, told, said>>
    BY DEF SearchProducts, BrowseCategories, ListPickupPoints
  <1>2. PICK o : Replies(o) /\ o.text \notin {"model", "stored", "orders"}
    BY DEF SearchProducts, BrowseCategories, ListPickupPoints, Out
  <1>3. Escorting' /\ Serving'
    BY <1>1 DEF Way, Escorting, Serving, Decided
  <1> QED BY <1>1, <1>2, <1>3, PeopleReply

LEMMA SearchesStep ==
    ASSUME Way, SearchByVector \/ SearchByKeyword \/ StaticAnswer
    PROVE  Way'
  <1>1. /\ at \in {"retrieve", "lexical", "static"}
        /\ UNCHANGED <<lookupVars, setup, turn, route, rate, told, said>>
    BY DEF SearchByVector, SearchByKeyword, StaticAnswer
  <1>2. Escorting' /\ Serving'
    BY <1>1 DEF Way, Escorting, Serving, Decided
  <1>3. CASE at' \in {"lexical", "static", "compose"} /\ outcome' = outcome
    <2>1. Looking'
      BY <1>1, <1>3 DEF Way, Looking, lookupVars
    <2> QED BY <1>1, <1>2, <1>3, <2>1, OnTheWay
  <1>4. CASE Replies(FromFAQ(Answer("static", 100)))
    <2> DEFINE o == FromFAQ(Answer("static", 100))
    <2>1. o.text = "static"
      BY DEF FromFAQ, Answer, Out
    <2> HIDE DEF o
    <2> QED BY <1>1, <1>2, <1>4, <2>1, PeopleReply DEF o
  <1> QED BY <1>3, <1>4 DEF SearchByVector, SearchByKeyword, StaticAnswer, Move

-----------------------------------------------------------------------------
(* Replies a model may have written                                        *)

LEMMA ComposeStep ==
    ASSUME Way, Compose
    PROVE  Way'
  <1>1. at = "compose" /\ UNCHANGED <<lookupVars, setup, turn, route, match, rate, told>>
    BY DEF Compose
  <1>2. Escorting' /\ Serving'
    BY <1>1 DEF Way, Escorting, Serving, Decided
  <1>3. ASSUME NEW c \in Completions, said' = c, Replies(FromFAQ(Phrased(c)))
        PROVE  Way'
    <2> DEFINE ans == Phrased(c)
    <2>1. /\ ans.degraded => c.degraded
          /\ c.degraded /\ ~ans.degraded => ans.text = "stored"
          /\ ans.text \in {"stored", "model", "none"}
          /\ ans.text # "stored" /\ ~ans.degraded /\ ~c.contract
               => ans.confidence = Penalised(FallbackConfidence)
      BY DEF Phrased, ToAnswer, Answer, ParseAnswer
    <2>2. Penalised(FallbackConfidence) \in {24, 30}
      BY DEF Penalised, FallbackConfidence
    <2> HIDE DEF ans
    <2>3. at' = "replied" /\ outcome' = FromFAQ(ans) /\ said' = c
      BY <1>3 DEF Replies, Move, ans
    <2>4. outcome'.text # "orders"
      BY <2>1, <2>3 DEF FromFAQ, Out, Degraded, Greeting, Operator
    <2>5. Looking'
      BY <1>1, <2>3, <2>4 DEF Way, Looking, lookupVars
    <2>6. NoModelMeansPeople'
      BY <2>1, <2>3 DEF NoModelMeansPeople, Replied, FromFAQ, Out, Degraded, Greeting, Operator
    <2>7. UnsureAnswersAreHandedOver'
      <3>1. EscalationThreshold \in Int
        BY AnswersAssumption DEF Percent
      <3>2. CASE route.to = "chitchat"
        BY <1>1, <3>2 DEF UnsureAnswersAreHandedOver
      <3>3. CASE ans.degraded /\ route.to # "chitchat"
        BY <2>3, <3>3 DEF UnsureAnswersAreHandedOver, FromFAQ, Degraded, Operator, Out
      <3>4. CASE ~ans.degraded /\ route.to # "chitchat"
        <4>1. /\ outcome'.text = ans.text /\ outcome'.confidence = ans.confidence
              /\ outcome'.escalate = Below(ans.confidence)
          BY <2>3, <3>4 DEF FromFAQ, Out
        <4>2. ans.text # "stored" /\ ~c.contract /\ EscalationThreshold > FallbackConfidence
              => outcome'.escalate
          <5> SUFFICES ASSUME ans.text # "stored", ~c.contract,
                              EscalationThreshold > FallbackConfidence
                       PROVE  Below(ans.confidence)
            BY <4>1
          <5>1. ans.confidence \in {24, 30}
            BY <2>1, <2>2, <3>4
          <5> QED BY <3>1, <5>1 DEF Below, FallbackConfidence
        <4>3. Below(outcome'.confidence) => outcome'.escalate
          BY <4>1
        <4> QED BY <2>3, <4>1, <4>2, <4>3 DEF UnsureAnswersAreHandedOver, Below
      <3> QED BY <3>2, <3>3, <3>4
    <2> QED BY <1>2, <2>3, <2>5, <2>6, <2>7 DEF Way, Speaking
  <1>4. CASE TurnFails /\ said' = said
    <2>1. Looking' /\ at' = "failed"
      BY <1>1, <1>4 DEF TurnFails, Move, Way, Looking, lookupVars
    <2> QED BY <1>1, <1>2, <1>4, <2>1, OnTheWay
  <1> QED BY <1>3, <1>4 DEF Compose

LEMMA OrderStep ==
    ASSUME Way, AnswerOrder
    PROVE  Way'
  <1>1. at = "answer" /\ UNCHANGED <<lookupVars, setup, turn, route, match, rate, told>>
    BY DEF AnswerOrder
  <1>2. ASSUME NEW c \in Completions, said' = c, Replies(OrderOutcome(c))
        PROVE  Way'
    <2> DEFINE o == OrderOutcome(c)
    <2>1. /\ o.text \in {"orders", "notFound"}
          /\ c.degraded => o.escalate /\ o.text = "notFound"
          /\ o.text = "orders" => o.escalate = Below(o.confidence)
          /\ o.text = "orders" /\ ~c.contract => o.confidence = FallbackConfidence
      BY DEF OrderOutcome, NotFound, Out, ParseAnswer
    <2> HIDE DEF o
    <2>2. at' = "replied" /\ outcome' = o /\ said' = c
      BY <1>2 DEF Replies, Move, o
    <2>3. Escorting' /\ Serving'
      BY <1>1, <2>1, <2>2 DEF Way, Escorting, Serving, Decided
    <2>4. Looking'
      BY <1>1, <2>2 DEF Way, Looking, lookupVars
    <2>5. NoModelMeansPeople'
      BY <2>1, <2>2 DEF NoModelMeansPeople, Replied
    <2>6. UnsureAnswersAreHandedOver'
      <3>1. EscalationThreshold \in Int
        BY AnswersAssumption DEF Percent
      <3> QED BY <2>1, <2>2, <3>1
          DEF UnsureAnswersAreHandedOver, Replied, Below, FallbackConfidence
    <2> QED BY <2>2, <2>3, <2>4, <2>5, <2>6 DEF Way, Speaking
  <1>3. CASE TurnFails /\ said' = said
    <2>1. Looking' /\ Escorting' /\ Serving' /\ at' = "failed"
      BY <1>1, <1>3 DEF TurnFails, Move, Way, Looking, Escorting, Serving, Decided, lookupVars
    <2> QED BY <1>1, <1>3, <2>1, OnTheWay
  <1> QED BY <1>2, <1>3 DEF AnswerOrder

-----------------------------------------------------------------------------
(* The lookup                                                              *)

\* A lookup that was started keeps its question.
LEMMA QuestionStays ==
    ASSUME IInv, LookupStep
    PROVE  pc # "idle" /\ asked' = asked
  <1>1. ASSUME NEW s \in Fetched, Fetch(s) PROVE pc # "idle" /\ asked' = asked
    BY <1>1 DEF Fetch, IInv, Resting
  <1>2. CASE FetchCustom \/ FetchAnalytics
    BY <1>2, CallsAre DEF FetchCustom, FetchAnalytics, IInv, Resting
  <1> QED BY <1>1, <1>2 DEF LookupStep, LookupByTrack, LookupBySearch, LookupByPhone,
      FetchDelivery, FindRequested, FindDaigouPage, StartFetches, Join

LEMMA LookStep ==
    ASSUME IInv, Way, StartLookup \/ LookUp
    PROVE  Way'
  <1>1. at = "api" /\ UNCHANGED answerVars
    BY DEF StartLookup, LookUp
  <1>2. UNCHANGED <<setup, turn, at, route, match, rate, told, said, outcome>>
    BY <1>1 DEF answerVars
  <1>3. asked' = RequestOf(turn)
    BY QuestionStays DEF StartLookup, Lookup, LookUp, Way, Looking
  <1>4. Looking'
    BY <1>1, <1>2, <1>3 DEF Way, Looking
  <1> QED BY <1>1, <1>2, <1>4
      DEF Way, Speaking, Escorting, Serving, Decided, NoModelMeansPeople,
          UnsureAnswersAreHandedOver, Replied

LEMMA SnapshotStep ==
    ASSUME IInv, Way, TakeSnapshot
    PROVE  Way'
  <1>1. /\ at = "api" /\ result # NoResult
        /\ UNCHANGED <<lookupVars, setup, turn, route, match, rate, told, said>>
    BY DEF TakeSnapshot
  <1>2. pc = "done"
    BY <1>1 DEF IInv, LInv, Asking
  <1>3. CASE Replies(NotFound)
    <2>1. Escorting' /\ Serving' /\ NotFound.text = "notFound"
      BY <1>1, <1>3 DEF Replies, Move, Way, Escorting, Serving, Decided, NotFound, Out
    <2> QED BY <1>1, <1>3, <2>1, PeopleReply
  <1>4. CASE result # LookupError /\ at' = "rate" /\ outcome' = outcome
    <2>1. Looking'
      BY <1>1, <1>2, <1>4 DEF Way, Looking, lookupVars
    <2>2. Escorting' /\ Serving'
      BY <1>1, <1>4 DEF Way, Escorting, Serving, Decided
    <2> QED BY <1>1, <1>4, <2>1, <2>2, OnTheWay
  <1> QED BY <1>3, <1>4 DEF TakeSnapshot, Move

LEMMA QuoteStep ==
    ASSUME Way, Quote
    PROVE  Way'
  <1>1. /\ at = "rate" /\ at' = "answer" /\ told' = Summarize(result, rate')
        /\ UNCHANGED <<lookupVars, setup, turn, route, match, said, outcome>>
    BY DEF Quote, Move
  <1>2. Looking'
    BY <1>1 DEF Way, Looking, lookupVars
  <1>3. Escorting' /\ Serving'
    BY <1>1 DEF Way, Escorting, Serving, Decided
  <1> QED BY <1>1, <1>2, <1>3, OnTheWay

-----------------------------------------------------------------------------
(* All steps                                                               *)

\* A step of a turn is a step of the lookup or leaves it alone.
LEMMA TurnStepIsLookupStep == AInv /\ [AnswersNext]_allVars => [LookupNext]_lookupVars
  <1> SUFFICES ASSUME AInv, [AnswersNext]_allVars PROVE LookupNext \/ UNCHANGED lookupVars
    OBVIOUS
  <1>1. CASE StartLookup
    <2>1. RequestOf(turn) \in Requests
      BY <1>1, TurnsAssumption DEF StartLookup, AInv, Looking
    <2> QED BY <1>1, <2>1 DEF StartLookup, LookupNext
  <1>2. CASE LookUp
    BY <1>2 DEF LookUp, LookupNext
  <1>3. CASE UNCHANGED lookupVars
    BY <1>3
  <1>4. AnswersNext \/ UNCHANGED allVars => StartLookup \/ LookUp \/ UNCHANGED lookupVars
    BY DEF AnswersNext, Work, Ask, Decide, Dispatch, OpenTicket, SearchByVector,
       SearchByKeyword, StaticAnswer, Compose, TakeSnapshot, Quote, AnswerOrder,
       SearchProducts, BrowseCategories, ListPickupPoints, Ended, allVars
  <1> QED BY <1>1, <1>2, <1>3, <1>4

LEMMA TurnKeeps == AInv /\ [AnswersNext]_allVars => AInv'
  <1> SUFFICES ASSUME AInv, [AnswersNext]_allVars PROVE AInv'
    OBVIOUS
  <1>1. IInv'
    BY TurnStepIsLookupStep, LookupKeeps DEF AInv
  <1>2. IInv /\ Way
    BY DEF AInv, Way
  <1> SUFFICES Way'
    BY <1>1 DEF AInv, Way
  <1>3. CASE UNCHANGED allVars
    <2>1. UNCHANGED <<lookupVars, setup, turn, at, route, match, rate, told, said, outcome>>
      BY <1>3 DEF allVars, answerVars
    <2>2. UNCHANGED <<asked, pc, result>>
      BY <2>1 DEF lookupVars
    <2> QED BY <1>2, <2>1, <2>2 DEF Way, Looking, Speaking, Escorting, Serving, Decided,
         NoModelMeansPeople, UnsureAnswersAreHandedOver, Replied
  <1>4. CASE \E t \in Turns : Ask(t)
    BY <1>2, <1>4, TurnBegins
  <1>5. CASE Work
    BY <1>2, <1>5, DecideStep, DispatchStep, TicketStep, ListStep, SearchesStep, ComposeStep,
       OrderStep, LookStep, SnapshotStep, QuoteStep DEF Work
  <1> QED BY <1>3, <1>4, <1>5 DEF AnswersNext, Ended

-----------------------------------------------------------------------------
(* What follows                                                            *)

THEOREM AnswersInvariance == AnswersSpec => []AInv
  <1> QED BY TurnStarts, TurnKeeps, PTL DEF AnswersSpec

\* The router's handlers use the lookup as OrderLookup specifies it, so what is
\* proved of a lookup holds of every turn.
THEOREM AnswersUseLookup == AnswersSpec => LookupSpec
  <1>1. AnswersInit => LookupInit
    BY DEF AnswersInit
  <1> QED BY <1>1, TurnStepIsLookupStep, AnswersInvariance, PTL DEF AnswersSpec, LookupSpec

\* "A canned placeholder must never stand in" (faq/service.go): when no model
\* answered, people's words or a person are what the customer gets.
THEOREM PeopleStandIn == AnswersSpec => []NoModelMeansPeople
  <1>1. AInv => NoModelMeansPeople
    BY DEF AInv
  <1> QED BY <1>1, AnswersInvariance, PTL

\* For every threshold and whatever a model claims of its reply: what it wrote
\* below the threshold, or outside the contract, goes with a handoff.
THEOREM UnsureGoWithAHandoff == AnswersSpec => []UnsureAnswersAreHandedOver
  <1>1. AInv => UnsureAnswersAreHandedOver
    BY DEF AInv
  <1> QED BY <1>1, AnswersInvariance, PTL

\* A customer who asks for an operator gets one, whatever else the text says,
\* whichever providers are there and whatever fails.
THEOREM OperatorAnswers == AnswersSpec => []OperatorIsReached
  <1>1. AInv => OperatorIsReached
    BY DEF AInv, Escorting, Decided, OperatorIsReached, Replied
  <1> QED BY <1>1, AnswersInvariance, PTL

\* Keywords alone never send a question about own orders to an article.
THEOREM OwnOrdersAreLookedUp == AnswersSpec => []OwnOrdersAreNoArticle
  <1>1. AInv => OwnOrdersAreNoArticle
    BY DEF AInv, Serving, Decided, OwnOrdersAreNoArticle, Replied
  <1> QED BY <1>1, AnswersInvariance, PTL

-----------------------------------------------------------------------------
(* A follow-up is answered from the parcel it is merged with               *)

\* The earlier turn that named a number last is the one that is merged.
LEMMA MergedNumber ==
    ASSUME NEW t \in Turns, NEW i \in DOMAIN t.prior,
           ~Names(t.msg), Says(t.msg, "followUp"), Names(t.prior[i]),
           \A j \in DOMAIN t.prior : j > i => ~Names(t.prior[j])
    PROVE  RequestOf(t).msg.track = t.prior[i].track /\ RequestOf(t).user = t.user
  <1> DEFINE named == {j \in DOMAIN t.prior : Names(t.prior[j])}
             last  == CHOOSE j \in named : \A k \in named : k <= j
  <1>1. DOMAIN t.prior \subseteq Nat /\ "track" \in DOMAIN t.msg
    BY TurnsAssumption
  <1>2. i \in named /\ \A k \in named : k <= i
    BY <1>1
  <1>3. last \in named /\ \A k \in named : k <= last
    BY <1>2
  <1>4. last = i
    BY <1>1, <1>2, <1>3
  <1>5. RequestOf(t).msg = [t.msg EXCEPT !.track = t.prior[last].track,
                                         !.words = @ \cup t.prior[last].words]
    BY <1>2 DEF RequestOf, MergeFollowUp
  <1>6. RequestOf(t).msg.track = t.prior[last].track
    BY <1>1, <1>5
  <1> QED BY <1>4, <1>6 DEF RequestOf

\* When the parcel that was named is among the deliveries and nothing failed,
\* the lookup found it and nothing else.
LEMMA NamedParcelFound ==
    ASSUME LInv, pc = "done", failed = {}, asked.user # Nobody, Names(asked.msg),
           NEW o \in RowsOf(sahiy, "delivery"), o.track = asked.msg.track
    PROVE  \A p \in result.rows : p.track = asked.msg.track
  <1>1. Promise!Term = asked.msg.track /\ Promise!Term # NoTrack
    BY TermIs DEF Names
  <1>2. sahiy \in Worlds /\ result = Promise!AnswerTo(failed)
    BY DEF LInv, Asking
  <1>3. o \in Promise!Delivered
    BY <1>1, FoundAre DEF Wanted
  <1>4. IsFiniteSet(Promise!Delivered) /\ \A q \in Promise!Delivered : q.pos \in Nat
    <2>1. Promise!Delivered \in SUBSET RowsOf(sahiy, "delivery")
      BY FoundAre DEF Wanted
    <2>2. "delivery" \in Sources
      BY DEF Sources
    <2> QED BY <1>2, <2>1, <2>2, RowsAre, FS_Subset
  <1>5. First(Promise!Delivered) \in Promise!Delivered
    BY <1>3, <1>4, ForemostExists DEF First, Foremost
  <1>6. First(Promise!Delivered).track = asked.msg.track
    BY <1>1, <1>5, FoundAre DEF Wanted
  <1>7. Promise!Owner(failed) = asked.user
    BY OwnerIs
  <1>8. result = NewCustomerSnapshot(asked.user, {First(Promise!Delivered)})
    BY <1>1, <1>2, <1>3, <1>7, AnswerIs
  <1> QED BY <1>6, <1>8 DEF NewCustomerSnapshot

\* A bare follow-up is answered from the delivery whose number the last message
\* of the user role with one carries, markers of the gate included, and from
\* nothing else, however many messages came before and whatever else Sahiy
\* holds (MergeFollowUp, and the single row that findByTrack makes of it).
THEOREM FollowUpsStayWithTheirParcel == AnswersSpec => []FollowUpsKeepTheirParcel
  <1>1. AInv => FollowUpsKeepTheirParcel
    <2> SUFFICES ASSUME AInv, Replied, outcome.text = "orders", failed = {},
                        turn.user # Nobody, NEW i \in DOMAIN turn.prior,
                        ~Names(turn.msg), Says(turn.msg, "followUp"), Names(turn.prior[i]),
                        \A j \in DOMAIN turn.prior : j > i => ~Names(turn.prior[j]),
                        NEW o \in RowsOf(sahiy, "delivery"), o.track = turn.prior[i].track,
                        NEW f \in told.orders
                 PROVE  f.track = turn.prior[i].track
      BY DEF FollowUpsKeepTheirParcel
    <2>1. /\ turn \in Turns /\ pc = "done" /\ asked = RequestOf(turn)
          /\ told = Summarize(result, rate) /\ LInv
      BY DEF AInv, Looking, Replied, IInv
    <2>2. asked.msg.track = turn.prior[i].track /\ asked.user = turn.user
      BY <2>1, MergedNumber
    <2>3. \A p \in result.rows : p.track = turn.prior[i].track
      BY <2>1, <2>2, NamedParcelFound DEF Names
    <2>4. PICK p \in result.rows : f = OrderFacts(p, rate)
      BY <2>1 DEF Summarize
    <2> QED BY <2>3, <2>4 DEF OrderFacts
  <1> QED BY <1>1, AnswersInvariance, PTL

\* What holds of lookups holds of the lookups behind the replies: they are the
\* same steps, asked for by the router and the responder.
THEOREM AnswersKeepThePromise ==
    AnswersSpec => /\ KeepsItsPromise
                   /\ [](ParcelsAreListedOnce /\ NothingVanishes /\ FiltersAgreeWithEstimates)
  BY AnswersUseLookup, LookupImplements, OneRowPerParcel, NothingIsLost, CodesReadAlike, PTL

-----------------------------------------------------------------------------
(* Types                                                                   *)

\* What an outcome may say.
Outcomes == [text : Texts, confidence : Percent, escalate : BOOLEAN, degraded : BOOLEAN]

\* What the turn keeps beside the lookup.
TurnTypeOK ==
    /\ setup \in Setups
    /\ turn \in Turns \cup {NoTurn}
    /\ at \in Routes \cup {"idle", "decide", "dispatch", "retrieve", "lexical", "static",
                            "compose", "rate", "answer", "replied", "failed"}
    /\ route \in [to : Routes, by : {"rule", "keywords", "model"}] \cup {NoRoute}
    /\ match \in Match \cup {NoMatch}
    /\ rate \in {NoRate, FallbackRate} \cup Rates
    /\ outcome \in Outcomes \cup {NoOutcome}

\* An outcome is a text with a confidence in percent.
LEMMA OutTypes ==
    ASSUME NEW text \in Texts, NEW confidence \in Percent, NEW escalate \in BOOLEAN
    PROVE  /\ Out(text, confidence, escalate) \in Outcomes
           /\ Degraded(Out(text, confidence, escalate)) \in Outcomes
  BY DEF Out, Degraded, Outcomes

\* The fixed outcomes are outcomes.
LEMMA FixedOutcomes ==
    /\ {Ack, Operator, Civility, Greeting, NotFound} \subseteq Outcomes
    /\ Degraded(Operator) \in Outcomes /\ Degraded(Greeting) \in Outcomes
  <1>1. {"ticket", "operator", "civility", "greeting", "notFound"} \subseteq Texts
    BY DEF Texts
  <1>2. {20, 95, 100} \subseteq Percent
    BY DEF Percent
  <1>3. Ack \in Outcomes /\ Civility \in Outcomes /\ NotFound \in Outcomes
    BY <1>1, <1>2, OutTypes DEF Ack, Civility, NotFound
  <1>4. Operator \in Outcomes /\ Degraded(Operator) \in Outcomes
    BY <1>1, <1>2, OutTypes DEF Operator
  <1>5. Greeting \in Outcomes /\ Degraded(Greeting) \in Outcomes
    BY <1>1, <1>2, OutTypes DEF Greeting
  <1> QED BY <1>3, <1>4, <1>5

\* A parsed reply is scored in percent, whatever the model claims.
LEMMA ParsedInPercent ==
    ASSUME NEW c \in Completions
    PROVE  ParseAnswer(c) \in Percent /\ Below(ParseAnswer(c)) \in BOOLEAN
  <1>1. c.contract => c.confidence \in Int
    BY AnswersAssumption DEF Completions, Contract, Prose, Placeholder
  <1> QED BY <1>1 DEF ParseAnswer, Clamp, FallbackConfidence, Percent, Below

\* An answer of the FAQ service, as far as its outcome needs it.
FAQAnswer(ans) ==
    /\ ans.text \in Texts
    /\ ans.confidence \in Percent

\* What is made of it is an outcome, unless it is degraded and dropped.
LEMMA FromFAQTypes ==
    ASSUME NEW ans, ~ans.degraded => FAQAnswer(ans)
    PROVE  FromFAQ(ans) \in Outcomes
  <1>1. 95 \in Percent
    BY DEF Percent
  <1>2. Below(ans.confidence) \in BOOLEAN
    BY DEF Below
  <1> QED BY <1>1, <1>2, OutTypes, FixedOutcomes DEF FromFAQ, FAQAnswer

\* The penalty keeps a percentage one.
LEMMA PenalisedInPercent ==
    ASSUME NEW confidence \in Percent
    PROVE  Penalised(confidence) \in Percent
  BY DEF Penalised, Percent

\* What is composed is the model's text or the stored one.
LEMMA PhrasedTypes ==
    ASSUME NEW c \in Completions, match \in Match \cup {NoMatch}
    PROVE  ~Phrased(c).degraded => FAQAnswer(Phrased(c))
  <1>1. "stored" \in Texts /\ "model" \in Texts
    BY DEF Texts
  <1>2. match # NoMatch => match.similarity \in Percent
    BY AnswersAssumption DEF Match
  <1>3. Penalised(ParseAnswer(c)) \in Percent
    BY ParsedInPercent, PenalisedInPercent
  <1> QED BY <1>1, <1>2, <1>3 DEF Phrased, ToAnswer, Answer, FAQAnswer

\* What is made of a reply about orders is one.
LEMMA OrderOutcomeTypes == ASSUME NEW c \in Completions PROVE OrderOutcome(c) \in Outcomes
  <1>1. "orders" \in Texts
    BY DEF Texts
  <1> QED BY <1>1, ParsedInPercent, OutTypes, FixedOutcomes DEF OrderOutcome

\* The kinds are kept from the start ...
LEMMA TurnTypesStart == AnswersInit => TurnTypeOK
  BY DEF AnswersInit, TurnTypeOK

\* ... and by every step.
LEMMA TurnTypesKeep == TurnTypeOK /\ [AnswersNext]_allVars => TurnTypeOK'
  <1> SUFFICES ASSUME TurnTypeOK, [AnswersNext]_allVars PROVE TurnTypeOK'
    OBVIOUS
  <1> USE DEF TurnTypeOK
  <1>1. ASSUME NEW t \in Turns, Ask(t) PROVE TurnTypeOK'
    BY <1>1 DEF Ask, Move
  <1>2. CASE Decide
    <2>1. \E to \in Routes, by \in {"rule", "keywords", "model"} : Routed(to, by)
      <3>1. \A raw : ParseRoute(raw) \in Routes
        BY DEF ParseRoute, Routes
      <3>2. FallbackRoute(turn.msg) \in Routes /\ "ticket" \in Routes /\ "api" \in Routes
        BY DEF FallbackRoute, Routes
      <3> QED BY <1>2, <3>1, <3>2 DEF Decide
    <2>2. route' \in [to : Routes, by : {"rule", "keywords", "model"}]
      BY <2>1 DEF Routed
    <2> QED BY <1>2, <2>2 DEF Decide, Move
  <1>3. CASE Dispatch
    <2>1. Handler \in Routes \cup {"civility", "retrieve"}
      BY DEF Handler, Routes
    <2>2. at' \in {"replied", Handler} /\ (Handler = "civility" => at' = "replied")
      BY <1>3 DEF Dispatch, Replies, Move
    <2>3. outcome' \in {outcome, Civility}
      BY <1>3 DEF Dispatch, Replies
    <2>4. UNCHANGED <<setup, turn, route, match, rate>>
      BY <1>3 DEF Dispatch
    <2>5. at' \in Routes \cup {"replied", "retrieve"}
      BY <2>1, <2>2
    <2> QED BY <2>3, <2>4, <2>5, FixedOutcomes
  <1>4. CASE OpenTicket
    BY <1>4, FixedOutcomes DEF OpenTicket, Replies, TurnFails, Move
  <1>5. CASE SearchByVector \/ SearchByKeyword
    BY <1>5 DEF SearchByVector, SearchByKeyword, Move
  <1>6. CASE StaticAnswer
    <2>1. FromFAQ(Answer("static", 100)) \in Outcomes
      <3>1. FAQAnswer(Answer("static", 100))
        BY DEF FAQAnswer, Answer, Texts, Percent
      <3> QED BY <3>1, FromFAQTypes
    <2> QED BY <1>6, <2>1 DEF StaticAnswer, Replies, Move
  <1>7. CASE Compose
    <2>1. ASSUME NEW c \in Completions PROVE FromFAQ(Phrased(c)) \in Outcomes
      BY PhrasedTypes, FromFAQTypes
    <2> QED BY <1>7, <2>1 DEF Compose, Replies, TurnFails, Move
  <1>8. CASE StartLookup \/ LookUp
    BY <1>8 DEF StartLookup, LookUp, answerVars
  <1>9. CASE TakeSnapshot
    BY <1>9, FixedOutcomes DEF TakeSnapshot, Replies, Move
  <1>10. CASE Quote
    BY <1>10 DEF Quote, CNYToUZS, Move
  <1>11. CASE AnswerOrder
    BY <1>11, OrderOutcomeTypes DEF AnswerOrder, Replies, TurnFails, Move
  <1>12. CASE SearchProducts \/ BrowseCategories \/ ListPickupPoints
    <2>1. {"products", "noProducts", "categories", "noCategories", "pickup", "noPickup"} \subseteq Texts
      BY DEF Texts
    <2>2. {30, 50, 90} \subseteq Percent
      BY DEF Percent
    <2>3. \E o \in Outcomes : Replies(o)
      BY <1>12, <2>1, <2>2, OutTypes DEF SearchProducts, BrowseCategories, ListPickupPoints
    <2>4. rate' = rate \/ CNYToUZS
      BY <1>12 DEF SearchProducts, BrowseCategories, ListPickupPoints
    <2>5. UNCHANGED <<setup, turn, route, match>>
      BY <1>12 DEF SearchProducts, BrowseCategories, ListPickupPoints
    <2> QED BY <2>3, <2>4, <2>5 DEF Replies, Move, CNYToUZS
  <1>13. CASE UNCHANGED allVars
    BY <1>13 DEF allVars, answerVars
  <1> QED BY <1>1, <1>2, <1>3, <1>4, <1>5, <1>6, <1>7, <1>8, <1>9, <1>10, <1>11, <1>12, <1>13
      DEF AnswersNext, Work, Ended

\* Everything a turn keeps is of its kind; above all a confidence is a
\* percentage, whatever a model claims (NewConfidence and the penalty of toAnswer).
THEOREM AnswersTypeCorrect == AnswersSpec => []AnswersTypeOK
  <1>1. AnswersInit => TurnTypeOK
    BY TurnTypesStart
  <1>2. TurnTypeOK /\ [AnswersNext]_allVars => TurnTypeOK'
    BY TurnTypesKeep
  <1>3. TypeOK /\ TurnTypeOK => AnswersTypeOK
    BY DEF TurnTypeOK, AnswersTypeOK, Outcomes
  <1> QED BY <1>1, <1>2, <1>3, AnswersUseLookup, LookupTypes, PTL DEF AnswersSpec

-----------------------------------------------------------------------------
(* A turn runs out                                                         *)

\* The most places a turn still has before it.
PlacesLeft(p) ==
    CASE p = "idle"     -> 7
      [] p = "decide"   -> 6
      [] p = "dispatch" -> 5
      [] p = "retrieve" -> 4
      [] p \in {"lexical", "api"} -> 3
      [] p \in {"static", "rate"} -> 2
      [] p \in {"ticket", "compose", "answer", "product_search", "category", "pickup"} -> 1
      [] p \in {"replied", "failed"} -> 0

\* A turn goes on to a place nearer its end, or waits at its place for its
\* lookup, which then gets on.
TurnDescends ==
    \/ PlacesLeft(at') < PlacesLeft(at) /\ LookupLeft' = LookupLeft
    \/ at' = at /\ LookupLeft' < LookupLeft

LEMMA PlacesByName ==
    /\ PlacesLeft("idle") = 7 /\ PlacesLeft("decide") = 6 /\ PlacesLeft("dispatch") = 5
    /\ PlacesLeft("retrieve") = 4 /\ PlacesLeft("lexical") = 3 /\ PlacesLeft("api") = 3
    /\ PlacesLeft("static") = 2 /\ PlacesLeft("rate") = 2
    /\ \A p \in {"ticket", "compose", "answer", "product_search", "category", "pickup"} : PlacesLeft(p) = 1
    /\ PlacesLeft("replied") = 0 /\ PlacesLeft("failed") = 0
  BY DEF PlacesLeft

\* A turn neither returns to a place it has left nor looks its customer's orders
\* up twice: whatever the route, the model and Sahiy answer, it has replied or
\* failed after seven places and the steps of one lookup.
THEOREM TurnsRunOut == AnswersSpec => [][TurnDescends]_allVars
  <1>1. AInv /\ TypeOK /\ [AnswersNext]_allVars => [TurnDescends]_allVars
    <2> SUFFICES ASSUME AInv, TypeOK, AnswersNext PROVE TurnDescends \/ UNCHANGED allVars
      OBVIOUS
    <2>1. CASE StartLookup \/ LookUp
      <3>1. LookupNext /\ at' = at
        <4>1. StartLookup => RequestOf(turn) \in Requests
          BY TurnsAssumption DEF StartLookup, AInv, Looking
        <4> QED BY <2>1, <4>1 DEF StartLookup, LookUp, LookupNext, answerVars
      <3> QED BY <3>1, EveryStepDescends DEF AInv, LookupDescends, TurnDescends
    <2>2. CASE ~(StartLookup \/ LookUp \/ Ended)
      <3>1. LookupLeft' = LookupLeft
        <4>1. UNCHANGED lookupVars
          BY <2>2 DEF AnswersNext, Work, Ask, Decide, Dispatch, OpenTicket, SearchByVector,
             SearchByKeyword, StaticAnswer, Compose, TakeSnapshot, Quote, AnswerOrder,
             SearchProducts, BrowseCategories, ListPickupPoints
        <4> QED BY <4>1 DEF lookupVars, build, LookupLeft, FetchesLeft, FetchLeft
      <3>2. PlacesLeft(at') < PlacesLeft(at)
        <4>1. CASE \E t \in Turns : Ask(t)
          BY <4>1, PlacesByName DEF Ask, Move
        <4>2. CASE Decide
          BY <4>2, PlacesByName DEF Decide, Move
        <4>3. CASE Dispatch
          <5>1. at = "dispatch" /\ (at' = "replied" \/ at' = Handler)
            BY <4>3 DEF Dispatch, Replies, Move
          <5>2. Handler \in {"ticket", "civility", "api", "product_search", "category", "pickup", "retrieve"}
            BY DEF Handler
          <5>3. Handler = "civility" => at' = "replied"
            BY <4>3 DEF Dispatch, Replies, Move
          <5> QED BY <5>1, <5>2, <5>3, PlacesByName
        <4>4. CASE SearchByVector \/ SearchByKeyword \/ StaticAnswer \/ Compose
          BY <4>4, PlacesByName DEF SearchByVector, SearchByKeyword, StaticAnswer, Compose, Replies,
             TurnFails, Move
        <4>5. CASE TakeSnapshot \/ Quote \/ AnswerOrder
          BY <4>5, PlacesByName DEF TakeSnapshot, Quote, AnswerOrder, Replies, TurnFails, Move
        <4>6. CASE OpenTicket \/ SearchProducts \/ BrowseCategories \/ ListPickupPoints
          <5>1. at \in {"ticket", "product_search", "category", "pickup"} /\ at' \in {"replied", "failed"}
            <6>1. CASE OpenTicket
              BY <6>1 DEF OpenTicket, Replies, TurnFails, Move
            <6>2. CASE SearchProducts \/ BrowseCategories \/ ListPickupPoints
              <7>1. \E o : Replies(o)
                BY <6>2 DEF SearchProducts, BrowseCategories, ListPickupPoints
              <7> QED BY <6>2, <7>1 DEF SearchProducts, BrowseCategories, ListPickupPoints, Replies, Move
            <6> QED BY <4>6, <6>1, <6>2
          <5> QED BY <5>1, PlacesByName
        <4> QED BY <2>2, <4>1, <4>2, <4>3, <4>4, <4>5, <4>6 DEF AnswersNext, Work
      <3> QED BY <3>1, <3>2 DEF TurnDescends
    <2> QED BY <2>1, <2>2 DEF Ended
  <1> QED BY <1>1, AnswersInvariance, AnswersUseLookup, LookupTypes, PTL DEF AnswersSpec

=============================================================================
