------------------------- MODULE TelegramBot_proofs -------------------------
(***************************************************************************)
(* The adapter uses the chat service only as ChatSessions specifies, so    *)
(* what is proved of ChatSessions holds under the bot; on top of that, the *)
(* account the bot vouches for is always one it has seen registered.       *)
(***************************************************************************)
EXTENDS TelegramBot, ChatSessions_proofs

\* A marker of customer u is stored.
Vouched(u) == \E m \in messages : m.body = "userMarker" /\ cmd[m.from].user = u

\* What is known of the chat call of update r.
ChatCall(r) ==
    /\ where[r] # "queued" \/ timer[r] # "off" => update[r] # None
    /\ where[r] = "chat" =>
          /\ pc[r] # "new"
          /\ cmd[r].user = Sender(r)
          /\ Is(r, {"message", "short", "callback", "order"}) => cmd[r].op = "reply"
    /\ cmd[r] # None => /\ cmd[r].channel = "telegram"
                        /\ cmd[r].meta => Vouched(cmd[r].user)

\* A reply that was given holds the session it was given in.
Concluded(r) == pc[r] = "done" /\ cmd[r].op = "reply" => mem[r] \in Session

BotInv ==
    /\ IInv
    /\ BotTypeOK
    /\ \A r \in Requests : ChatCall(r) /\ Concluded(r)
    /\ \A u \in Users : store[u].phone => Vouched(u)

-----------------------------------------------------------------------------
(* The chat service underneath.                                            *)

\* Every step of the bot is a step of the chat service or leaves it alone.
LEMMA BotStepIsChatStep == BotNext => [Next]_vars
  <1> SUFFICES ASSUME BotNext PROVE Next \/ UNCHANGED vars
    OBVIOUS
  <1>1. ASSUME NEW r \in Requests, Receive(r) \/ Handle(r) \/ Serve(r) \/ Ring(r)
        PROVE  Next \/ UNCHANGED vars
    BY <1>1 DEF Receive, Handle, ResetRating, MarkRated, CancelRating, TakeAwaitingProductSearch,
                AwaitProductSearch, CallChat, TakeResult, Reschedule, ArmTimer, HandlerReturns,
                Serve, Ring, DelayPasses, TimerStops, TimerFires, Next
  <1> QED BY <1>1 DEF BotNext, AllQuiet, Next

\* The adapter's calls are among those ChatSessions allows: everything proved
\* of Spec holds of the chat service under the bot (bot.go and callbacks.go
\* reach it through ReplyService only).
THEOREM BotUsesChatAsSpecified == BotSpec => Spec
  <1>1. BotInit => Init
    BY DEF BotInit
  <1>2. [BotNext]_<<vars, bot>> => [Next]_vars
    BY BotStepIsChatStep
  <1> QED BY <1>1, <1>2, PTL DEF BotSpec, Spec

\* A call keeps what it was asked.
LEMMA CommandKept ==
    ASSUME NEW r \in Requests, Step(r) \/ Fault(r)
    PROVE  cmd' = cmd
  BY DEF Step, Fault, FindSession, LoadMessages, CheckIdle, CloseTickets, SaveClosed, SaveOpened,
         EnsureVerified, SaveMarkers, Respond, FindTicket, SaveTicket, SaveReply, VerifyPhone,
         SaveContact, past

\* A step that concludes a reply leaves it with a session.
LEMMA ConcludedStep ==
    ASSUME IInv, NEW r \in Requests, Step(r) \/ Fault(r), Concluded(r)
    PROVE  Concluded(r)'
  <1> SUFFICES ASSUME pc'[r] = "done", cmd[r].op = "reply" PROVE mem'[r] \in Session
    BY CommandKept DEF Concluded
  <1>1. TypeOK /\ CallInv(r)
    BY DEF IInv
  <1>2. pc \in [Requests -> Labels] /\ mem \in [Requests -> Session \cup {None}]
    BY <1>1 DEF TypeOK
  <1>3. pc[r] \in {"verify", "saveContact", "saveReply"} => mem[r] \in Session
    BY <1>1, <1>2 DEF CallInv, Holding, Labels, Saving, Ended
  <1>4. CASE FindSession(r)
    BY <1>2, <1>4 DEF FindSession, StartTurn, Gate, Goto
  <1>5. CASE SaveClosed(r)
    BY <1>2, <1>5 DEF SaveClosed, StartTurn, Gate, Goto
  <1>6. CASE SaveReply(r) \/ SaveContact(r)
    <2>1. mem'[r] = MarkPersisted(mem[r]) /\ mem[r] \in Session
      BY <1>2, <1>3, <1>6 DEF SaveReply, SaveContact, Goto, Hold
    <2> QED BY <2>1, MarkPersistedEffect
  <1>7. CASE VerifyPhone(r)
    BY <1>2, <1>3, <1>7 DEF VerifyPhone, Goto
  <1>8. CASE \/ LoadMessages(r) \/ CheckIdle(r) \/ CloseTickets(r) \/ SaveOpened(r) \/ EnsureVerified(r)
             \/ SaveMarkers(r) \/ Respond(r) \/ FindTicket(r) \/ SaveTicket(r) \/ Fault(r)
    BY <1>2, <1>8 DEF LoadMessages, CheckIdle, CloseTickets, SaveOpened, EnsureVerified, SaveMarkers,
                      Respond, FindTicket, SaveTicket, Fault, StartTurn, Answer, PassGate, Gate, Goto
  <1> QED BY <1>4, <1>5, <1>6, <1>7, <1>8 DEF Step

\* Who was vouched for stays so: a stored message keeps its sender.
LEMMA VouchedStays ==
    ASSUME IInv, TablesGrow, NEW u,
           \A q \in Requests : pc[q] # "new" => cmd'[q] = cmd[q]
    PROVE  Vouched(u) => Vouched(u)'
  BY DEF Vouched, IInv, MessagesInv, TypeOK, Message, TablesGrow

-----------------------------------------------------------------------------
\* The invariant holds initially.
LEMMA BotInvInit == BotInit => BotInv
  <1> SUFFICES ASSUME BotInit PROVE BotInv
    OBVIOUS
  <1>1. IInv
    BY InitIInv DEF BotInit
  <1>2. BotTypeOK
    BY DEF BotInit, BotTypeOK, Places, Customer
  <1>3. ASSUME NEW r \in Requests PROVE ChatCall(r) /\ Concluded(r)
    BY DEF BotInit, Init, ChatCall, Concluded
  <1>4. ASSUME NEW u \in Users PROVE ~store[u].phone
    BY DEF BotInit
  <1> QED BY <1>1, <1>2, <1>3, <1>4 DEF BotInv

\* A step of the adapter alone: the chat service stands still, and no handler
\* but that of r moves.
LEMMA AdapterStep ==
    ASSUME BotInv, UNCHANGED vars, BotTypeOK', NEW r \in Requests,
           \A q \in Requests \ {r} : where'[q] = where[q] /\ update'[q] = update[q],
           update[r] # None \/ where'[r] # "queued" => update'[r] # None,
           \A q \in Requests : timer'[q] = timer[q] \/ update'[q] # None,
           where'[r] = "chat" => where[r] = "chat" /\ update'[r] = update[r],
           \A u \in Users : store'[u].phone => store[u].phone \/ Vouched(u)
    PROVE  BotInv'
  <1>1. IInv' /\ TablesGrow
    BY NextIInv DEF BotInv
  <1>2. cmd' = cmd /\ pc' = pc /\ mem' = mem
    BY DEF vars, past
  <1>3. ASSUME NEW u PROVE Vouched(u) => Vouched(u)'
    BY <1>1, <1>2, VouchedStays DEF BotInv
  <1>4. ASSUME NEW q \in Requests PROVE ChatCall(q)'
    <2>1. ChatCall(q)
      BY DEF BotInv
    <2>2. CASE q = r
      BY <1>2, <1>3, <2>1, <2>2 DEF ChatCall, Sender, Is
    <2>3. CASE q # r
      BY <1>2, <1>3, <2>1, <2>3 DEF ChatCall, Sender, Is
    <2> QED BY <2>2, <2>3
  <1>5. ASSUME NEW q \in Requests PROVE Concluded(q)'
    BY <1>2 DEF Concluded, BotInv
  <1>6. ASSUME NEW u \in Users PROVE store'[u].phone => Vouched(u)'
    BY <1>3 DEF BotInv
  <1> QED BY <1>1, <1>4, <1>5, <1>6 DEF BotInv

\* A handler at work has an update.
LEMMA AtHand ==
    ASSUME BotInv, NEW r \in Requests, where[r] # "queued"
    PROVE  /\ BotTypeOK
           /\ update[r] \in [user : Users, kind : Kinds]
           /\ Sender(r) \in Users
           /\ store[Sender(r)] \in Customer
  BY DEF BotInv, BotTypeOK, ChatCall, Sender

\* Changing a field other than phone.
LEMMA FieldsChanged ==
    ASSUME NEW s \in Customer, NEW b \in BOOLEAN, NEW d \in BOOLEAN, NEW i \in SessionIds \cup {None}
    PROVE  /\ [s EXCEPT !.rated = b, !.prompted = d] \in Customer
           /\ [s EXCEPT !.rated = b, !.prompted = d].phone = s.phone
           /\ [s EXCEPT !.prompted = d] \in Customer
           /\ [s EXCEPT !.prompted = d].phone = s.phone
           /\ [s EXCEPT !.awaiting = d] \in Customer
           /\ [s EXCEPT !.awaiting = d].phone = s.phone
           /\ [s EXCEPT !.session = i] \in Customer
           /\ [s EXCEPT !.session = i].phone = s.phone
  BY DEF Customer

\* Writing a customer's flags keeps the store well typed, and vouches for nobody.
LEMMA FlagsWritten ==
    ASSUME BotTypeOK, NEW r \in Requests, Sender(r) \in Users, NEW s \in Customer, Write(r, s)
    PROVE  /\ store' \in [Users -> Customer]
           /\ \A u \in Users : store'[u].phone => store[u].phone \/ (u = Sender(r) /\ s.phone)
  BY DEF BotTypeOK, Write

\* A handler outside the chat call: nothing it writes vouches for anybody.
LEMMA HandlerStep ==
    ASSUME BotInv, NEW r \in Requests,
           \/ Receive(r) \/ ResetRating(r) \/ MarkRated(r) \/ CancelRating(r)
           \/ TakeAwaitingProductSearch(r) \/ AwaitProductSearch(r)
           \/ Reschedule(r) \/ ArmTimer(r) \/ HandlerReturns(r)
    PROVE  BotInv'
  <1>1. BotTypeOK /\ ChatCall(r)
    BY DEF BotInv
  <1>2. CASE Receive(r)
    <2>1. PICK u \in Users, k \in Kinds :
             /\ update' = [update EXCEPT ![r] = [user |-> u, kind |-> k]]
             /\ \E p \in {"reset", "markRated", "call", "cancel"} : Move(r, p)
      BY <1>2 DEF Receive
    <2>2. /\ UNCHANGED vars /\ store' = store
          /\ UNCHANGED <<tasks, timer, cancelled, asked>>
      BY <1>2 DEF Receive
    <2>3. [user |-> u, kind |-> k] \in [user : Users, kind : Kinds]
      OBVIOUS
    <2>4. PICK p \in {"reset", "markRated", "call", "cancel"} : where' = [where EXCEPT ![r] = p]
      BY <2>1 DEF Move
    <2>5. BotTypeOK'
      BY <1>1, <2>1, <2>2, <2>3, <2>4 DEF BotTypeOK, Places
    <2>6. \A q \in Requests \ {r} : where'[q] = where[q] /\ update'[q] = update[q]
      BY <1>1, <2>1, <2>4 DEF BotTypeOK
    <2>7. where'[r] = p /\ update'[r] = [user |-> u, kind |-> k]
      BY <1>1, <2>1, <2>4 DEF BotTypeOK
    <2>8. [user |-> u, kind |-> k] # None
      BY KindsAssumption
    <2> QED BY <2>2, <2>4, <2>5, <2>6, <2>7, <2>8, AdapterStep
  <1>3. CASE ResetRating(r) \/ MarkRated(r) \/ TakeAwaitingProductSearch(r) \/ AwaitProductSearch(r)
    <2>1. where[r] # "queued"
      BY <1>3 DEF ResetRating, MarkRated, TakeAwaitingProductSearch, AwaitProductSearch, At
    <2>2. Sender(r) \in Users /\ store[Sender(r)] \in Customer
      BY <2>1, AtHand
    <2> DEFINE old == store[Sender(r)]
    <2>3. PICK s \in Customer : Write(r, s) /\ s.phone = store[Sender(r)].phone
      <3>1. \E b, d \in BOOLEAN : \/ Write(r, [old EXCEPT !.rated = b, !.prompted = d])
                                 \/ Write(r, [old EXCEPT !.awaiting = d])
        BY <1>3 DEF ResetRating, MarkRated, TakeAwaitingProductSearch, AwaitProductSearch
      <3> HIDE DEF old
      <3> QED BY <2>2, <3>1, FieldsChanged DEF old
    <2>4. PICK p \in {"cancel", "await", "call", "return"} : where' = [where EXCEPT ![r] = p]
      BY <1>3
      DEF ResetRating, MarkRated, TakeAwaitingProductSearch, AwaitProductSearch, Move
    <2>5. /\ UNCHANGED vars /\ update' = update
          /\ UNCHANGED <<tasks, timer, cancelled>>
          /\ asked' \in [Users -> Nat]
      BY <1>1, <1>3
      DEF ResetRating, MarkRated, TakeAwaitingProductSearch, AwaitProductSearch, BotTypeOK
    <2>6. store' \in [Users -> Customer] /\ \A u \in Users : store'[u].phone => store[u].phone
      BY <1>1, <2>2, <2>3, FlagsWritten
    <2>7. BotTypeOK'
      BY <1>1, <2>4, <2>5, <2>6 DEF BotTypeOK, Places
    <2>8. /\ \A q \in Requests \ {r} : where'[q] = where[q]
          /\ where'[r] = p
      BY <1>1, <2>4 DEF BotTypeOK
    <2> QED BY <1>1, <2>1, <2>4, <2>5, <2>6, <2>7, <2>8, AdapterStep DEF ChatCall
  <1>4. CASE CancelRating(r) \/ Reschedule(r) \/ ArmTimer(r) \/ HandlerReturns(r)
    <2>1. where[r] # "queued"
      BY <1>4 DEF CancelRating, Reschedule, ArmTimer, HandlerReturns, At
    <2>2. Sender(r) \in Users
      BY <2>1, AtHand
    <2>3. PICK p \in {"take", "await", "call", "arm", "return", "returned"} :
             where' = [where EXCEPT ![r] = p]
      BY <1>4 DEF CancelRating, Reschedule, ArmTimer, HandlerReturns, Move
    <2>4. UNCHANGED vars /\ update' = update /\ store' = store /\ asked' = asked
      BY <1>4 DEF CancelRating, Reschedule, ArmTimer, HandlerReturns
    <2>5. /\ tasks' \in [Users -> Requests \cup {None}]
          /\ timer' \in [Requests -> {"off", "armed", "due", "over"}]
          /\ cancelled' \in SUBSET Requests
      BY <1>1, <1>4, <2>2
      DEF CancelRating, Reschedule, ArmTimer, HandlerReturns, Cancel, BotTypeOK
    <2>6. BotTypeOK'
      BY <1>1, <2>3, <2>4, <2>5 DEF BotTypeOK, Places
    <2>7. /\ \A q \in Requests \ {r} : where'[q] = where[q]
          /\ where'[r] = p
      BY <1>1, <2>3 DEF BotTypeOK
    <2>8. update[r] # None
      BY <1>1, <2>1 DEF ChatCall
    <2>9. \A q \in Requests : timer'[q] = timer[q] \/ update'[q] # None
      BY <1>1, <1>4, <2>4, <2>8
      DEF CancelRating, Reschedule, ArmTimer, HandlerReturns, BotTypeOK
    <2> QED BY <2>3, <2>4, <2>6, <2>7, <2>8, <2>9, AdapterStep
  <1> QED BY <1>2, <1>3, <1>4

\* SetVerifiedPhone is the only write that vouches for a customer, and comes
\* after the markers of that customer were stored.
LEMMA TakeResultStep ==
    ASSUME BotInv, NEW r \in Requests, TakeResult(r)
    PROVE  BotInv'
  <1>1. BotTypeOK /\ ChatCall(r) /\ Concluded(r)
    BY DEF BotInv
  <1>2. where[r] = "chat"
    BY DEF TakeResult, At
  <1>3. Sender(r) \in Users /\ store[Sender(r)] \in Customer
    BY <1>2, AtHand
  <1>4. /\ UNCHANGED vars /\ update' = update
        /\ UNCHANGED <<tasks, timer, cancelled, asked>>
    BY DEF TakeResult, SetSessionID, ClearSession, SetVerifiedPhone
  <1>5. PICK p \in {"return", "schedule"} : where' = [where EXCEPT ![r] = p]
    BY DEF TakeResult, Move
  <1>6. Registered(r) => Vouched(Sender(r))
    BY <1>1, <1>2 DEF Registered, Vouched, ChatCall
  <1>7. /\ store' \in [Users -> Customer]
        /\ \A u \in Users : store'[u].phone => store[u].phone \/ Vouched(u)
    <2>1. CASE store' = store
      BY <1>1, <2>1 DEF BotTypeOK
    <2>2. CASE /\ Is(r, {"message", "short", "callback", "order"}) /\ pc[r] = "done"
               /\ Write(r, [store[Sender(r)] EXCEPT !.session = mem[r].sid])
      <3>1. mem[r].sid \in SessionIds
        BY <1>1, <1>2, <2>2 DEF ChatCall, Concluded, Session
      <3>2. PICK s \in Customer : Write(r, s) /\ s.phone = store[Sender(r)].phone
        BY <1>3, <2>2, <3>1 DEF Customer
      <3> QED BY <1>1, <1>3, <3>2, FlagsWritten
    <2>3. CASE Write(r, [store[Sender(r)] EXCEPT !.session = None])
      <3>1. PICK s \in Customer : Write(r, s) /\ s.phone = store[Sender(r)].phone
        BY <1>3, <2>3 DEF Customer
      <3> QED BY <1>1, <1>3, <3>1, FlagsWritten
    <2>4. CASE Registered(r) /\ Write(r, [store[Sender(r)] EXCEPT !.phone = TRUE])
      <3>1. PICK s \in Customer : Write(r, s)
        BY <1>3, <2>4 DEF Customer
      <3> QED BY <1>1, <1>3, <1>6, <2>4, <3>1, FlagsWritten
    <2> QED BY <2>1, <2>2, <2>3, <2>4 DEF TakeResult, SetSessionID, ClearSession, SetVerifiedPhone
  <1>8. BotTypeOK'
    BY <1>1, <1>4, <1>5, <1>7 DEF BotTypeOK, Places
  <1>9. where'[r] = p /\ \A q \in Requests \ {r} : where'[q] = where[q]
    BY <1>1, <1>5 DEF BotTypeOK
  <1> QED BY <1>1, <1>2, <1>4, <1>5, <1>7, <1>8, <1>9, AdapterStep DEF ChatCall

\* A timer writes only that the customer was prompted.
LEMMA RingStep ==
    ASSUME BotInv, NEW r \in Requests, Ring(r), update[r] # None
    PROVE  BotInv'
  <1>1. BotTypeOK /\ ChatCall(r)
    BY DEF BotInv
  <1>2. Sender(r) \in Users /\ store[Sender(r)] \in Customer
    BY <1>1 DEF BotTypeOK, Sender
  <1>3. /\ UNCHANGED vars /\ update' = update /\ where' = where
        /\ UNCHANGED <<tasks, cancelled>>
    BY DEF Ring, DelayPasses, TimerStops, TimerFires
  <1>4. timer' \in [Requests -> {"off", "armed", "due", "over"}]
    BY <1>1 DEF Ring, DelayPasses, TimerStops, TimerFires, BotTypeOK
  <1>5. asked' \in [Users -> Nat]
    BY <1>1, <1>2 DEF Ring, DelayPasses, TimerStops, TimerFires, BotTypeOK
  <1>6. store' \in [Users -> Customer] /\ \A u \in Users : store'[u].phone => store[u].phone
    <2>1. CASE store' = store
      BY <1>1, <2>1 DEF BotTypeOK
    <2>2. CASE Write(r, [store[Sender(r)] EXCEPT !.prompted = TRUE])
      <3>1. PICK s \in Customer : Write(r, s) /\ s.phone = store[Sender(r)].phone
        BY <1>2, <2>2, FieldsChanged
      <3> QED BY <1>1, <1>2, <3>1, FlagsWritten
    <2> QED BY <2>1, <2>2 DEF Ring, DelayPasses, TimerStops, TimerFires
  <1>7. BotTypeOK'
    BY <1>1, <1>3, <1>4, <1>5, <1>6 DEF BotTypeOK
  <1>8. \A q \in Requests : timer'[q] = timer[q] \/ update'[q] # None
    BY <1>1, <1>3 DEF Ring, DelayPasses, TimerStops, TimerFires, BotTypeOK
  <1> QED BY <1>1, <1>3, <1>6, <1>7, <1>8, AdapterStep DEF ChatCall

\* Arrive: an account the bot names is one it has been vouched for.
LEMMA CallChatStep ==
    ASSUME BotInv, NEW r \in Requests, CallChat(r)
    PROVE  BotInv'
  <1>1. IInv /\ BotTypeOK /\ TypeOK
    BY DEF BotInv, IInv
  <1>2. Arrive(r) /\ pc[r] = "new" /\ where[r] = "call"
    BY DEF CallChat, Arrive, At
  <1>3. GoodStep(r) /\ IInv' /\ TablesGrow
    BY <1>1, <1>2, StepGood, GoodStepPreserves DEF GoodStep
  <1>4. PICK c \in Commands : cmd' = [cmd EXCEPT ![r] = c]
    BY <1>2 DEF Arrive
  <1>5. cmd'[r] = c /\ c # None
    BY <1>1, <1>4, ConstantsAssumption DEF TypeOK
  <1>6. UNCHANGED <<update, store, tasks, timer, cancelled, asked>>
    BY DEF CallChat
  <1>7. where' = [where EXCEPT ![r] = "chat"]
    BY DEF CallChat, Move
  <1>8. BotTypeOK'
    BY <1>1, <1>6, <1>7 DEF BotTypeOK, Places
  <1>9. Sender(r) \in Users
    BY <1>2, AtHand
  <1>10. /\ c.user = Sender(r) /\ c.channel = "telegram"
         /\ c.meta => store[Sender(r)].phone
         /\ Is(r, {"message", "short", "callback", "order"}) => c.op = "reply"
    BY <1>5 DEF CallChat, Is
  <1>11. pc'[r] = "find"
    BY <1>1, <1>2 DEF Arrive, Goto, TypeOK
  <1>12. ASSUME NEW u PROVE Vouched(u) => Vouched(u)'
    BY <1>1, <1>2, <1>3, <1>4, VouchedStays DEF TypeOK
  <1>13. ASSUME NEW q \in Requests PROVE ChatCall(q)'
    <2>1. ChatCall(q) /\ ChatCall(r)
      BY DEF BotInv
    <2>2. CASE q = r
      <3>1. c.meta => Vouched(c.user)'
        BY <1>9, <1>10, <1>12 DEF BotInv
      <3> QED BY <1>1, <1>2, <1>5, <1>6, <1>7, <1>10, <1>11, <2>1, <2>2, <3>1
              DEF ChatCall, Sender, Is, BotTypeOK
    <2>3. CASE q # r
      BY <1>1, <1>3, <1>6, <1>7, <1>12, <2>1, <2>3
      DEF ChatCall, Sender, Is, BotTypeOK, GoodStep, Frame
    <2> QED BY <2>2, <2>3
  <1>14. ASSUME NEW q \in Requests PROVE Concluded(q)'
    BY <1>3, <1>11 DEF Concluded, BotInv, GoodStep, Frame
  <1>15. ASSUME NEW u \in Users PROVE store'[u].phone => Vouched(u)'
    BY <1>6, <1>12 DEF BotInv
  <1> QED BY <1>3, <1>8, <1>13, <1>14, <1>15 DEF BotInv

\* A step of the chat service is as good under the bot as by itself.
LEMMA ServeStep ==
    ASSUME BotInv, NEW r \in Requests, Serve(r)
    PROVE  BotInv'
  <1>1. IInv /\ BotTypeOK /\ TypeOK
    BY DEF BotInv, IInv
  <1>2. (Step(r) \/ Fault(r)) /\ where[r] = "chat"
    BY DEF Serve, At
  <1>3. GoodStep(r) /\ IInv' /\ TablesGrow
    BY <1>1, <1>2, StepGood, GoodStepPreserves DEF GoodStep
  <1>4. cmd' = cmd
    BY <1>2, CommandKept
  <1>5. UNCHANGED <<where, update, store, tasks, timer, cancelled, asked>>
    BY DEF Serve, bot
  <1>6. BotTypeOK'
    BY <1>1, <1>5 DEF BotTypeOK
  <1>7. ASSUME NEW u PROVE Vouched(u) => Vouched(u)'
    BY <1>1, <1>3, <1>4, VouchedStays
  <1>8. pc'[r] # "new"
    <2>1. cmd'[r] # None \/ pc'[r] = "new"
      BY <1>3 DEF GoodStep, CallInv
    <2> QED BY <1>1, <1>2
      DEF TypeOK, Goto, Step, Fault, FindSession, LoadMessages, CheckIdle, CloseTickets, SaveClosed,
          SaveOpened, EnsureVerified, SaveMarkers, Respond, FindTicket, SaveTicket, SaveReply,
          VerifyPhone, SaveContact, StartTurn, Answer, PassGate, Gate
  <1>9. ASSUME NEW q \in Requests PROVE ChatCall(q)'
    <2>1. ChatCall(q)
      BY DEF BotInv
    <2>2. pc'[q] = "new" => pc[q] = "new"
      BY <1>3, <1>8 DEF GoodStep, Frame
    <2> QED BY <1>4, <1>5, <1>7, <2>1, <2>2 DEF ChatCall, Sender, Is
  <1>10. ASSUME NEW q \in Requests PROVE Concluded(q)'
    <2>1. Concluded(q)
      BY DEF BotInv
    <2>2. CASE q = r
      BY <1>1, <1>2, <2>1, <2>2, ConcludedStep
    <2>3. CASE q # r
      BY <1>3, <2>1, <2>3 DEF Concluded, GoodStep, Frame
    <2> QED BY <2>2, <2>3
  <1>11. ASSUME NEW u \in Users PROVE store'[u].phone => Vouched(u)'
    BY <1>5, <1>7 DEF BotInv
  <1> QED BY <1>3, <1>6, <1>9, <1>10, <1>11 DEF BotInv

\* Time, and steps that change nothing the adapter or a call knows.
LEMMA QuietBotStep ==
    ASSUME BotInv, TimePasses \/ UNCHANGED vars, UNCHANGED bot
    PROVE  BotInv'
  <1>1. IInv' /\ TablesGrow
    BY IdleStep DEF BotInv
  <1>2. cmd' = cmd /\ pc' = pc /\ mem' = mem
    BY DEF TimePasses, vars, past
  <1>3. ASSUME NEW u PROVE Vouched(u) => Vouched(u)'
    BY <1>1, <1>2, VouchedStays DEF BotInv
  <1>4. UNCHANGED <<where, update, store, tasks, timer, cancelled, asked>>
    BY DEF bot
  <1>5. BotTypeOK'
    BY <1>4 DEF BotInv, BotTypeOK
  <1>6. ASSUME NEW q \in Requests PROVE ChatCall(q)' /\ Concluded(q)'
    BY <1>2, <1>3, <1>4 DEF BotInv, ChatCall, Concluded, Sender, Is
  <1>7. ASSUME NEW u \in Users PROVE store'[u].phone => Vouched(u)'
    BY <1>3, <1>4 DEF BotInv
  <1> QED BY <1>1, <1>5, <1>6, <1>7 DEF BotInv

\* Every step of the bot preserves the invariant.
LEMMA BotInvStep == BotInv /\ [BotNext]_<<vars, bot>> => BotInv'
  <1> SUFFICES ASSUME BotInv, [BotNext]_<<vars, bot>> PROVE BotInv'
    OBVIOUS
  <1>1. ASSUME NEW r \in Requests, Receive(r) \/ Handle(r) PROVE BotInv'
    BY <1>1, HandlerStep, TakeResultStep, CallChatStep DEF Handle
  <1>2. ASSUME NEW r \in Requests, Serve(r) PROVE BotInv'
    BY <1>2, ServeStep
  <1>3. ASSUME NEW r \in Requests, Ring(r) PROVE BotInv'
    <2>1. timer[r] # "off"
      BY <1>3 DEF Ring, DelayPasses, TimerStops, TimerFires
    <2>2. update[r] # None
      BY <2>1 DEF BotInv, ChatCall
    <2> QED BY <1>3, <2>2, RingStep
  <1>4. CASE (TimePasses /\ UNCHANGED bot) \/ AllQuiet \/ UNCHANGED <<vars, bot>>
    BY <1>4, QuietBotStep DEF AllQuiet
  <1> QED BY <1>1, <1>2, <1>3, <1>4 DEF BotNext

-----------------------------------------------------------------------------
\* The invariant holds of every behaviour of the bot.
THEOREM BotInvariance == BotSpec => []BotInv
  BY BotInvInit, BotInvStep, PTL DEF BotSpec

\* The adapter's variables keep their types.
THEOREM BotTypeCorrect == BotSpec => []BotTypeOK
  <1>1. BotInv => BotTypeOK
    BY DEF BotInv
  <1> QED BY <1>1, BotInvariance, PTL

\* For any number of customers and overlapping handlers, the bot vouches for an
\* account only when a marker the identity service wrote for that customer is
\* stored (SetVerifiedPhone after RegisterVerifiedPhone), and a call it does not
\* vouch for reaches the responder only on a marker among the messages of the
\* customer's own sessions.
THEOREM OnlyTheVouchedFor == BotSpec => []VouchedForIsStored
  <1>1. BotInv => VouchedForIsStored
    <2> SUFFICES ASSUME BotInv, NEW r \in Requests
                 PROVE  /\ cmd[r] # None /\ cmd[r].meta => Vouched(cmd[r].user)
                        /\ pc[r] \in {"respond", "findTicket", "saveTicket"} /\ ~cmd[r].meta =>
                              \E m \in messages : /\ m.role = "user" /\ m.marks
                                                  /\ cmd[m.from].user = cmd[r].user
      BY DEF VouchedForIsStored, Vouched
    <2>1. IInv /\ ChatCall(r)
      BY DEF BotInv
    <2>2. cmd[r] # None /\ cmd[r].meta => Vouched(cmd[r].user)
      BY <2>1 DEF ChatCall, IInv, TypeOK, CallInv
    <2>3. ASSUME pc[r] \in {"respond", "findTicket", "saveTicket"}, ~cmd[r].meta
          PROVE  \E m \in messages : m.role = "user" /\ m.marks /\ cmd[m.from].user = cmd[r].user
      <3>1. /\ CallInv(r) /\ MessagesInv
            /\ cmd[r] # None /\ mem[r] \in Session /\ HeldBy(r, mem[r])
        BY <2>1, <2>3, AtWork DEF Holding, Labels, Saving, Ended
      <3>2. HasUserMarker(MessagesOf(mem[r].sid))
        BY <2>1, <2>3, <3>1 DEF CallInv, ChatCall
      <3>3. PICK m \in messages : m.role = "user" /\ m.marks /\ m.sid = mem[r].sid
        BY <3>2 DEF HasUserMarker, MessagesOf
      <3>4. sessions[mem[r].sid].user = cmd[m.from].user
        BY <3>1, <3>3 DEF MessagesInv
      <3>5. mem[r].persisted /\ mem[r].user = cmd[r].user
        BY <2>3, <3>1 DEF CallInv, Stored, Own, Holding, Answering, Labels, Saving, Ended
      <3>6. sessions[mem[r].sid].user = mem[r].user
        BY <3>1, <3>5 DEF HeldBy
      <3> QED BY <3>3, <3>4, <3>5, <3>6
    <2> QED BY <2>2, <2>3
  <1> QED BY <1>1, BotInvariance, PTL

-----------------------------------------------------------------------------
(* The remembered session: under the bot everything is on one channel.     *)

OnTelegram(r) == mem[r] # None => mem[r].channel = "telegram"

RowsOnTelegram == \A s \in SessionIds : sessions[s] # None => sessions[s].channel = "telegram"

\* A reply was given in a stored session of the customer; only a contact is
\* verified by itself.
OwnReply(r) ==
    /\ pc[r] \in {"verify", "saveContact"} => cmd[r].op = "phone"
    /\ pc[r] = "done" /\ cmd[r].op = "reply" => mem[r].persisted /\ mem[r].user = cmd[r].user

SessionInv ==
    /\ RowsOnTelegram
    /\ \A r \in Requests : OnTelegram(r) /\ OwnReply(r)
    /\ RememberedSessionIsOwn

\* No operation of the aggregate changes its channel.
LEMMA ChannelKept ==
    ASSUME NEW s \in Session, NEW r \in Requests, NEW t, NEW role, NEW body, NEW b
    PROVE  /\ Append(s, r, t, role, body).channel = s.channel
           /\ Enriched(s).channel = s.channel
           /\ Close(s).channel = s.channel
           /\ MarkPersisted(s).channel = s.channel
           /\ [s EXCEPT !.known = b].channel = s.channel
  BY DEF Append, Enriched, Close, MarkPersisted, Session

\* Starting a turn keeps the channel of the session.
LEMMA StartTurnChannel ==
    ASSUME NEW r \in Requests, NEW s \in Session, s.channel = "telegram",
           mem \in [Requests -> Session \cup {None}], clock \in Nat, StartTurn(r, s)
    PROVE  OnTelegram(r)'
  <1>1. \/ Hold(r, s)
        \/ Hold(r, Enriched(Append(s, r, clock, "user", "text")))
    BY DEF StartTurn
  <1>2. Enriched(Append(s, r, clock, "user", "text")).channel = "telegram"
    <2>1. Append(s, r, clock, "user", "text") \in Session
      BY AppendEffect
    <2>2. Append(s, r, clock, "user", "text").channel = "telegram"
      BY ChannelKept
    <2> QED BY <2>1, <2>2, EnrichedEffect
  <1> QED BY <1>1, <1>2 DEF Hold, OnTelegram

\* Answering keeps the channel of the session.
LEMMA AnswerChannel ==
    ASSUME NEW r \in Requests, NEW s \in Session, s.channel = "telegram", NEW n,
           mem \in [Requests -> Session \cup {None}], Answer(r, s, n)
    PROVE  OnTelegram(r)'
  <1>1. Append(s, r, clock + n, "assistant", "answer").channel = "telegram"
    BY ChannelKept
  <1> QED BY <1>1 DEF Answer, Hold, OnTelegram

\* Marking keeps the channel of the session.
LEMMA MarkedChannel ==
    ASSUME TypeOK, NEW r \in Requests, mem[r] \in Session, mem[r].channel = "telegram"
    PROVE  Marked(r) \in Session /\ Marked(r).channel = "telegram"
  <1>1. clock \in Nat /\ clock + 1 \in Nat
    BY DEF TypeOK
  <1>2. Marked(r) \in Session
    BY MarkedEffect DEF Extends
  <1> DEFINE p == Append(mem[r], r, clock, "user", "phoneMarker")
  <1>3. p \in Session /\ p.channel = "telegram"
    <2>1. p \in Session
      BY <1>1, AppendEffect
    <2>2. p.channel = "telegram"
      BY ChannelKept
    <2> QED BY <2>1, <2>2
  <1>4. Append(p, r, clock + 1, "user", "userMarker").channel = "telegram"
    <2> HIDE DEF p
    <2> QED BY <1>3, ChannelKept
  <1>5. Append(mem[r], r, clock, "user", "userMarker").channel = "telegram"
    BY ChannelKept
  <1> QED BY <1>2, <1>4, <1>5 DEF Marked

\* A step of a call leaves its session on the channel of the call.
LEMMA CallChannelStep ==
    ASSUME IInv, RowsOnTelegram, NEW r \in Requests, OnTelegram(r),
           Step(r) \/ Fault(r), cmd[r].channel = "telegram"
    PROVE  OnTelegram(r)'
  <1>1. TypeOK /\ CallInv(r)
    BY DEF IInv
  <1>2. mem \in [Requests -> Session \cup {None}] /\ clock \in Nat
    BY <1>1 DEF TypeOK
  <1>3. pc[r] \in Holding => mem[r] \in Session /\ mem[r].channel = "telegram"
    BY <1>1, <1>2 DEF CallInv, OnTelegram
  <1>4. ASSUME NEW id \in SessionIds, NEW u \in Users
        PROVE  /\ OpenWithID(id, u, "telegram") \in Session
               /\ OpenWithID(id, u, "telegram").channel = "telegram"
    BY <1>1, OpenedSession DEF OpenWithID, Channels
  <1>5. CASE FindSession(r)
    <2>1. cmd[r] \in Command
      BY <1>1, <1>5, ConstantsAssumption DEF FindSession, CallInv, TypeOK
    <2>2. ByHint(r) => cmd[r].hint \in SessionIds
      BY <2>1 DEF ByHint, Command
    <2>3. cmd[r].user \in Users /\ r \in SessionIds
      BY <2>1 DEF Command, SessionIds
    <2> DEFINE opened == OpenWithID(IF ByHint(r) THEN cmd[r].hint ELSE r, cmd[r].user, "telegram")
    <2>4. opened \in Session /\ opened.channel = "telegram"
      BY <1>4, <2>2, <2>3
    <2> HIDE DEF opened
    <2>5. CASE \E id \in SessionIds :
                  /\ IF ByHint(r) THEN id = cmd[r].hint /\ sessions[id] # None
                                  ELSE IsFindActive(cmd[r].user, "telegram", id)
                  /\ Hold(r, Reconstitute(id))
      <3>1. PICK id \in SessionIds :
               /\ IF ByHint(r) THEN id = cmd[r].hint /\ sessions[id] # None
                               ELSE IsFindActive(cmd[r].user, "telegram", id)
               /\ Hold(r, Reconstitute(id))
        BY <2>5
      <3>2. sessions[id] # None
        BY <3>1 DEF IsFindActive, ActiveOf
      <3>3. Reconstitute(id).channel = "telegram"
        BY <3>2 DEF Reconstitute, RowsOnTelegram
      <3> QED BY <1>2, <3>1, <3>3 DEF Hold, OnTelegram
    <2>6. CASE StartTurn(r, opened)
      BY <1>2, <2>4, <2>6, StartTurnChannel
    <2>7. CASE mem' = mem \/ Hold(r, opened)
      BY <1>2, <2>4, <2>7 DEF Hold, OnTelegram
    <2> QED BY <1>5, <2>5, <2>6, <2>7 DEF FindSession, opened
  <1>6. CASE LoadMessages(r)
    <2>1. mem[r] \in Session /\ mem[r].channel = "telegram"
      BY <1>3, <1>6 DEF LoadMessages, Holding, Labels, Saving, Ended
    <2> DEFINE s == [mem[r] EXCEPT !.known = HasUserMarker(Window(mem[r].sid))]
    <2>2. HasUserMarker(Window(mem[r].sid)) \in BOOLEAN
      BY DEF HasUserMarker
    <2>3. s \in Session
      BY <2>1, <2>2 DEF Session
    <2>4. s.channel = "telegram"
      BY <2>1, ChannelKept
    <2>5. Close(s).channel = "telegram"
      <3> HIDE DEF s
      <3> QED BY <2>3, <2>4, ChannelKept
    <2>6. Hold(r, s) \/ Hold(r, Close(s))
      BY <1>6 DEF LoadMessages
    <2> HIDE DEF s
    <2> QED BY <1>2, <2>4, <2>5, <2>6 DEF Hold, OnTelegram
  <1>7. CASE CheckIdle(r)
    <2>1. mem[r] \in Session /\ mem[r].channel = "telegram"
      BY <1>3, <1>7 DEF CheckIdle, Holding, Labels, Saving, Ended
    <2>2. Hold(r, Close(mem[r])) \/ StartTurn(r, mem[r])
      BY <1>7 DEF CheckIdle
    <2> QED BY <1>2, <2>1, <2>2, ChannelKept, StartTurnChannel DEF Hold, OnTelegram
  <1>8. CASE SaveClosed(r)
    <2>1. mem[r] \in Session
      BY <1>3, <1>8 DEF SaveClosed, Holding, Labels, Saving, Ended
    <2>2. mem[r].user \in Users /\ r \in SessionIds
      BY <2>1 DEF Session, SessionIds
    <2>3. mem' = mem \/ StartTurn(r, OpenWithID(r, mem[r].user, "telegram"))
      BY <1>8 DEF SaveClosed
    <2> QED BY <1>2, <1>4, <2>2, <2>3, StartTurnChannel DEF OnTelegram
  <1>9. CASE SaveOpened(r) \/ SaveMarkers(r) \/ SaveReply(r) \/ SaveContact(r)
    <2>1. mem[r] \in Session /\ mem[r].channel = "telegram"
      BY <1>3, <1>9 DEF SaveOpened, SaveMarkers, SaveReply, SaveContact, Holding, Labels, Saving, Ended
    <2>2. mem' = mem \/ Hold(r, MarkPersisted(mem[r]))
      BY <1>9 DEF SaveOpened, SaveMarkers, SaveReply, SaveContact
    <2> QED BY <1>2, <2>1, <2>2, ChannelKept DEF Hold, OnTelegram
  <1>10. CASE EnsureVerified(r)
    <2>1. mem[r] \in Session /\ mem[r].channel = "telegram"
      BY <1>3, <1>10 DEF EnsureVerified, Holding, Labels, Saving, Ended
    <2>2. Marked(r) \in Session /\ Marked(r).channel = "telegram"
      BY <1>1, <2>1, MarkedChannel
    <2>3. \E s \in {mem[r], Marked(r)} : Hold(r, s) \/ Answer(r, s, 0) \/ Answer(r, s, 2)
      BY <1>10 DEF EnsureVerified, PassGate
    <2>4. PICK s : /\ s \in Session /\ s.channel = "telegram"
                   /\ Hold(r, s) \/ Answer(r, s, 0) \/ Answer(r, s, 2)
      BY <2>1, <2>2, <2>3
    <2>5. CASE Hold(r, s)
      BY <1>2, <2>4, <2>5 DEF Hold, OnTelegram
    <2> QED BY <1>2, <2>4, <2>5, AnswerChannel
  <1>11. CASE Respond(r) \/ FindTicket(r) \/ SaveTicket(r)
    <2>1. mem[r] \in Session /\ mem[r].channel = "telegram"
      BY <1>3, <1>11 DEF Respond, FindTicket, SaveTicket, Holding, Labels, Saving, Ended
    <2>2. mem' = mem \/ Answer(r, mem[r], 0) \/ Answer(r, mem[r], 1)
      BY <1>11 DEF Respond, FindTicket, SaveTicket
    <2> QED BY <1>2, <2>1, <2>2, AnswerChannel DEF OnTelegram
  <1>12. CASE VerifyPhone(r)
    <2>1. mem[r] \in Session /\ mem[r].channel = "telegram"
      BY <1>3, <1>12 DEF VerifyPhone, Holding, Labels, Saving, Ended
    <2>2. mem' = mem \/ Hold(r, Marked(r))
      BY <1>12 DEF VerifyPhone
    <2> QED BY <1>1, <1>2, <2>1, <2>2, MarkedChannel DEF Hold, OnTelegram
  <1>13. CASE CloseTickets(r) \/ Fault(r)
    BY <1>13 DEF CloseTickets, Fault, OnTelegram
  <1> QED BY <1>5, <1>6, <1>7, <1>8, <1>9, <1>10, <1>11, <1>12, <1>13 DEF Step

\* Saving a session of this channel leaves all rows on it.
LEMMA RowsStep ==
    ASSUME IInv, RowsOnTelegram, NEW r \in Requests, OnTelegram(r), Step(r) \/ Fault(r)
    PROVE  RowsOnTelegram'
  <1>1. sessions' = sessions \/ (Save(mem[r]) /\ pc[r] \in Saving)
    BY DEF Step, Fault, FindSession, LoadMessages, CheckIdle, CloseTickets, SaveClosed, SaveOpened,
           EnsureVerified, SaveMarkers, Respond, FindTicket, SaveTicket, SaveReply, VerifyPhone,
           SaveContact, tables, Saving
  <1>2. CASE sessions' = sessions
    BY <1>2 DEF RowsOnTelegram
  <1>3. CASE Save(mem[r]) /\ pc[r] \in Saving
    <2>1. pc[r] # "new" /\ pc[r] \in Holding
      BY <1>3 DEF Saving, Holding, Labels, Ended
    <2>2. /\ mem[r] \in Session /\ mem[r].channel = "telegram"
          /\ mem[r].persisted => sessions[mem[r].sid] # None
          /\ mem[r].sid \in SessionIds
          /\ TypeOK
      BY <2>1, AtWork DEF OnTelegram, HeldBy
    <2>3. CASE mem[r].persisted
      <3>1. sessions[mem[r].sid] \in Row /\ sessions[mem[r].sid].channel = "telegram"
        BY <2>2, <2>3 DEF TypeOK, RowsOnTelegram
      <3>2. sessions' = [sessions EXCEPT ![mem[r].sid] =
                            [sessions[mem[r].sid] EXCEPT !.status = mem[r].status]]
        BY <1>3, <2>3 DEF Save
      <3>3. [sessions[mem[r].sid] EXCEPT !.status = mem[r].status].channel = "telegram"
        BY <3>1 DEF Row
      <3> QED BY <2>2, <3>2, <3>3 DEF RowsOnTelegram, TypeOK
    <2>4. CASE ~mem[r].persisted
      BY <1>3, <2>2, <2>4 DEF Save, RowsOnTelegram, TypeOK
    <2> QED BY <2>3, <2>4
  <1> QED BY <1>1, <1>2, <1>3

\* A reply is concluded by saving it, in the session of its customer.
LEMMA OwnReplyStep ==
    ASSUME IInv, NEW r \in Requests, Step(r) \/ Fault(r), OwnReply(r)
    PROVE  OwnReply(r)'
  <1>1. TypeOK /\ CallInv(r) /\ cmd' = cmd
    BY CommandKept DEF IInv
  <1>2. pc \in [Requests -> Labels] /\ mem \in [Requests -> Session \cup {None}]
    BY <1>1 DEF TypeOK
  <1>8. pc'[r] \in {"verify", "saveContact"} => cmd[r].op = "phone"
    BY <1>2 DEF OwnReply, Step, LoadMessages, CheckIdle, CloseTickets, SaveOpened, EnsureVerified,
       SaveMarkers, Respond, FindTicket, SaveTicket, Fault, StartTurn, Answer, PassGate, Gate, Goto,
       SaveReply, SaveContact, FindSession, SaveClosed, VerifyPhone
  <1> SUFFICES ASSUME pc'[r] = "done", cmd[r].op = "reply"
               PROVE  mem'[r].persisted /\ mem'[r].user = cmd[r].user
    BY <1>1, <1>8 DEF OwnReply
  <1>3. CASE SaveReply(r) \/ SaveContact(r)
    <2>1. mem[r] \in Session /\ mem[r].user = cmd[r].user
      BY <1>1, <1>2, <1>3 DEF SaveReply, SaveContact, CallInv, Own, Holding, Labels, Saving, Ended
    <2>2. mem'[r] = MarkPersisted(mem[r])
      BY <1>2, <1>3 DEF SaveReply, SaveContact, Hold, Goto
    <2> QED BY <2>1, <2>2, MarkPersistedEffect
  <1>4. CASE FindSession(r)
    BY <1>2, <1>4 DEF FindSession, StartTurn, Gate, Goto
  <1>5. CASE SaveClosed(r)
    BY <1>2, <1>5 DEF SaveClosed, StartTurn, Gate, Goto
  <1>6. CASE \/ LoadMessages(r) \/ CheckIdle(r) \/ CloseTickets(r) \/ SaveOpened(r) \/ EnsureVerified(r)
             \/ SaveMarkers(r) \/ Respond(r) \/ FindTicket(r) \/ SaveTicket(r) \/ Fault(r)
    BY <1>2, <1>6 DEF LoadMessages, CheckIdle, CloseTickets, SaveOpened, EnsureVerified, SaveMarkers,
                      Respond, FindTicket, SaveTicket, Fault, StartTurn, Answer, PassGate, Gate, Goto
  <1>7. CASE VerifyPhone(r)
    BY <1>7 DEF VerifyPhone, OwnReply
  <1> QED BY <1>3, <1>4, <1>5, <1>6, <1>7 DEF Step

\* The sessions under the remembered ids only change their status.
LEMMA RememberedStays ==
    ASSUME BotTypeOK, TablesGrow, RememberedSessionIsOwn, store' = store
    PROVE  RememberedSessionIsOwn'
  BY DEF BotTypeOK, Customer, TablesGrow, RememberedSessionIsOwn

\* No session is stored or remembered initially.
LEMMA SessionInvInit == BotInit => SessionInv
  BY DEF BotInit, Init, SessionInv, RowsOnTelegram, OnTelegram, OwnReply, RememberedSessionIsOwn

\* Every step of the bot keeps what is known of remembered sessions.
LEMMA SessionInvStep == BotInv /\ SessionInv /\ [BotNext]_<<vars, bot>> => SessionInv'
  <1> SUFFICES ASSUME BotInv, SessionInv, [BotNext]_<<vars, bot>> PROVE SessionInv'
    OBVIOUS
  <1>1. IInv /\ BotTypeOK /\ TypeOK /\ TablesGrow
    BY BotStepIsChatStep, NextIInv DEF BotInv, IInv, vars
  <1>2. ASSUME NEW r \in Requests, Serve(r) PROVE SessionInv'
    <2>1. (Step(r) \/ Fault(r)) /\ store' = store /\ pc[r] # "new"
      BY <1>2 DEF Serve, bot, BotInv, ChatCall, At
    <2>2. Frame(r) /\ cmd' = cmd
      BY <1>1, <2>1, StepGood, CommandKept DEF GoodStep
    <2>3. cmd[r].channel = "telegram"
      BY <1>1, <2>1, AtWork DEF BotInv, ChatCall
    <2>4. RowsOnTelegram' /\ OnTelegram(r)' /\ OwnReply(r)'
      BY <1>1, <2>1, <2>3, RowsStep, CallChannelStep, OwnReplyStep DEF SessionInv
    <2>5. ASSUME NEW q \in Requests PROVE OnTelegram(q)' /\ OwnReply(q)'
      BY <2>2, <2>4 DEF Frame, OnTelegram, OwnReply, SessionInv
    <2>6. RememberedSessionIsOwn'
      BY <1>1, <2>1, RememberedStays DEF SessionInv
    <2> QED BY <2>4, <2>5, <2>6 DEF SessionInv
  <1>3. ASSUME NEW r \in Requests, CallChat(r) PROVE SessionInv'
    <2>1. Arrive(r) /\ store' = store
      BY <1>3 DEF CallChat
    <2>2. Frame(r)
      BY <1>1, <2>1, StepGood DEF GoodStep
    <2>3. sessions' = sessions /\ mem' = mem /\ pc'[r] = "find"
      BY <1>1, <2>1 DEF Arrive, tables, Goto, TypeOK
    <2>4. ASSUME NEW q \in Requests PROVE OnTelegram(q)' /\ OwnReply(q)'
      BY <2>2, <2>3 DEF Frame, OnTelegram, OwnReply, SessionInv
    <2>5. RememberedSessionIsOwn'
      BY <1>1, <2>1, RememberedStays DEF SessionInv
    <2> QED BY <2>3, <2>4, <2>5 DEF SessionInv, RowsOnTelegram
  <1>4. ASSUME sessions' = sessions, mem' = mem, pc' = pc, cmd' = cmd, RememberedSessionIsOwn'
        PROVE  SessionInv'
    BY <1>4 DEF SessionInv, RowsOnTelegram, OnTelegram, OwnReply
  <1>5. ASSUME NEW r \in Requests, TakeResult(r) PROVE SessionInv'
    <2>1. UNCHANGED vars /\ where[r] = "chat"
      BY <1>5 DEF TakeResult, At
    <2>2. Sender(r) \in Users /\ store[Sender(r)] \in Customer
      BY <2>1, AtHand
    <2>3. store \in [Users -> Customer] /\ sessions' = sessions
      BY <1>1, <2>1 DEF BotTypeOK, vars, tables
    <2>4. RememberedSessionIsOwn'
      <3>1. CASE store' = store
        BY <1>1, <3>1, RememberedStays DEF SessionInv
      <3>2. CASE /\ Is(r, {"message", "short", "callback", "order"}) /\ pc[r] = "done"
                 /\ Write(r, [store[Sender(r)] EXCEPT !.session = mem[r].sid])
        <4>1. /\ mem[r] \in Session /\ mem[r].persisted /\ mem[r].user = Sender(r)
              /\ mem[r].channel = "telegram" \/ mem[r] = None
              /\ Held(r)
          BY <1>1, <2>1, <3>2 DEF BotInv, ChatCall, Concluded, SessionInv, OwnReply, OnTelegram, IInv, CallInv
        <4>2. /\ mem[r] # None /\ mem[r].sid \in SessionIds
          BY <4>1, ConstantsAssumption DEF Session
        <4>3. /\ sessions[mem[r].sid] # None
              /\ sessions[mem[r].sid].user = Sender(r)
              /\ sessions[mem[r].sid].channel = "telegram"
          BY <4>1, <4>2 DEF Held, HeldBy, SessionInv, RowsOnTelegram
        <4>4. [store[Sender(r)] EXCEPT !.session = mem[r].sid].session = mem[r].sid
          BY <2>2 DEF Customer
        <4>5. store' = [store EXCEPT ![Sender(r)] = [store[Sender(r)] EXCEPT !.session = mem[r].sid]]
          BY <3>2 DEF Write
        <4> QED BY <2>2, <2>3, <4>3, <4>4, <4>5 DEF SessionInv, RememberedSessionIsOwn
      <3>3. CASE Write(r, [store[Sender(r)] EXCEPT !.session = None])
        <4>1. [store[Sender(r)] EXCEPT !.session = None].session = None
          BY <2>2 DEF Customer
        <4> QED BY <2>2, <2>3, <3>3, <4>1 DEF Write, SessionInv, RememberedSessionIsOwn
      <3>4. CASE Write(r, [store[Sender(r)] EXCEPT !.phone = TRUE])
        <4>1. [store[Sender(r)] EXCEPT !.phone = TRUE].session = store[Sender(r)].session
          BY <2>2 DEF Customer
        <4> QED BY <2>2, <2>3, <3>4, <4>1 DEF Write, SessionInv, RememberedSessionIsOwn
      <3> QED BY <1>5, <3>1, <3>2, <3>3, <3>4 DEF TakeResult, SetSessionID, ClearSession, SetVerifiedPhone
    <2> QED BY <1>4, <2>1, <2>4 DEF vars, tables, past
  <1>6. ASSUME UNCHANGED vars, \A u \in Users : store'[u].session = store[u].session
        PROVE  SessionInv'
    <2>1. RememberedSessionIsOwn'
      BY <1>6 DEF SessionInv, RememberedSessionIsOwn, vars, tables
    <2> QED BY <1>4, <1>6, <2>1 DEF vars, tables, past
  <1>7. ASSUME NEW r \in Requests,
               \/ Receive(r) \/ CancelRating(r) \/ Reschedule(r) \/ ArmTimer(r) \/ HandlerReturns(r)
        PROVE  SessionInv'
    BY <1>6, <1>7 DEF Receive, CancelRating, Reschedule, ArmTimer, HandlerReturns
  <1>8. ASSUME NEW r \in Requests,
               \/ ResetRating(r) \/ MarkRated(r) \/ TakeAwaitingProductSearch(r)
               \/ AwaitProductSearch(r) \/ Ring(r)
        PROVE  SessionInv'
    <2>1. where[r] # "queued" \/ timer[r] # "off"
      BY <1>8 DEF ResetRating, MarkRated, TakeAwaitingProductSearch, AwaitProductSearch, At,
                  Ring, DelayPasses, TimerStops, TimerFires
    <2>2. update[r] \in [user : Users, kind : Kinds]
      BY <1>1, <2>1 DEF BotInv, ChatCall, BotTypeOK
    <2>3. Sender(r) \in Users /\ store[Sender(r)] \in Customer /\ store \in [Users -> Customer]
      BY <1>1, <2>2 DEF Sender, BotTypeOK
    <2> DEFINE old == store[Sender(r)]
    <2>4. \/ store' = store
          \/ \E b, d \in BOOLEAN : \/ Write(r, [old EXCEPT !.rated = b, !.prompted = d])
                                  \/ Write(r, [old EXCEPT !.awaiting = d])
                                  \/ Write(r, [old EXCEPT !.prompted = d])
      BY <1>8 DEF ResetRating, MarkRated, TakeAwaitingProductSearch, AwaitProductSearch,
                  Ring, DelayPasses, TimerStops, TimerFires
    <2>5. \A b, d \in BOOLEAN : /\ [old EXCEPT !.rated = b, !.prompted = d].session = old.session
                              /\ [old EXCEPT !.awaiting = d].session = old.session
                              /\ [old EXCEPT !.prompted = d].session = old.session
      BY <2>3 DEF Customer
    <2> HIDE DEF old
    <2>6. \A u \in Users : store'[u].session = store[u].session
      BY <2>3, <2>4, <2>5 DEF Write, old
    <2>7. UNCHANGED vars
      BY <1>8 DEF ResetRating, MarkRated, TakeAwaitingProductSearch, AwaitProductSearch,
                  Ring, DelayPasses, TimerStops, TimerFires
    <2> QED BY <1>6, <2>6, <2>7
  <1>9. CASE (TimePasses /\ UNCHANGED bot) \/ AllQuiet \/ UNCHANGED <<vars, bot>>
    <2>1. store' = store /\ sessions' = sessions /\ mem' = mem /\ pc' = pc /\ cmd' = cmd
      BY <1>9 DEF TimePasses, AllQuiet, bot, vars, tables, past
    <2> QED BY <1>1, <1>4, <2>1, RememberedStays DEF SessionInv
  <1> QED BY <1>2, <1>3, <1>5, <1>7, <1>8, <1>9 DEF BotNext, Handle

\* Whatever handlers overlap or fail, the session id the bot keeps for a customer
\* names a stored Telegram session of that customer (SetSessionID after Reply).
THEOREM SessionsRememberedAreOwn == BotSpec => []RememberedSessionIsOwn
  <1>1. SessionInv => RememberedSessionIsOwn
    BY DEF SessionInv
  <1>2. BotSpec => []SessionInv
    BY SessionInvInit, SessionInvStep, BotInvariance, PTL DEF BotSpec
  <1> QED BY <1>1, <1>2, PTL

-----------------------------------------------------------------------------
(* Rating prompts.                                                         *)

\* A prompt that was delivered in this conversation left its mark.
AskedInv == \A u \in Users : asked[u] = 0 \/ (asked[u] = 1 /\ store[u].prompted)

\* Every step of the bot keeps count: only ClaimRatingPrompt lets a prompt go out,
\* and only ResetRating lets it grant another one.
LEMMA AskedStep == BotInv /\ AskedInv /\ [BotNext]_<<vars, bot>> => AskedInv'
  <1> SUFFICES ASSUME BotInv, AskedInv, [BotNext]_<<vars, bot>> PROVE AskedInv'
    OBVIOUS
  <1>1. BotTypeOK
    BY DEF BotInv
  <1>2. store \in [Users -> Customer] /\ asked \in [Users -> Nat]
    BY <1>1 DEF BotTypeOK
  <1>3. ASSUME asked' = asked, \A u \in Users : store[u].prompted => store'[u].prompted
        PROVE  AskedInv'
    BY <1>3 DEF AskedInv
  <1>4. ASSUME NEW r \in Requests, ResetRating(r) PROVE AskedInv'
    <2>1. Sender(r) \in Users
      BY <1>4, AtHand DEF ResetRating, At
    <2>2. \A u \in Users \ {Sender(r)} : store'[u] = store[u]
      BY <1>2, <1>4 DEF ResetRating, Write
    <2> QED BY <1>2, <1>4, <2>1, <2>2 DEF ResetRating, AskedInv
  <1>5. ASSUME NEW r \in Requests, TimerFires(r) PROVE AskedInv'
    <2>1. update[r] # None
      BY <1>5 DEF TimerFires, BotInv, ChatCall
    <2>2. Sender(r) \in Users
      BY <1>1, <2>1 DEF BotTypeOK, Sender
    <2>3. store[Sender(r)] \in Customer
      BY <1>2, <2>2
    <2>4. CASE ClaimRatingPrompt(store[Sender(r)])
      <3>1. asked[Sender(r)] = 0
        BY <2>2, <2>4 DEF ClaimRatingPrompt, AskedInv
      <3>2. [store[Sender(r)] EXCEPT !.prompted = TRUE].prompted
        BY <2>3 DEF Customer
      <3>3. store'[Sender(r)].prompted /\ \A u \in Users \ {Sender(r)} : store'[u] = store[u]
        BY <1>2, <1>5, <2>2, <2>4, <3>2 DEF TimerFires, Write
      <3>4. /\ asked'[Sender(r)] \in {0, 1}
            /\ \A u \in Users \ {Sender(r)} : asked'[u] = asked[u]
        BY <1>2, <1>5, <2>2, <2>4, <3>1 DEF TimerFires
      <3> QED BY <3>3, <3>4 DEF AskedInv
    <2>5. CASE ~ClaimRatingPrompt(store[Sender(r)])
      BY <1>3, <1>5, <2>5 DEF TimerFires
    <2> QED BY <2>4, <2>5
  <1>6. ASSUME NEW r \in Requests,
               \/ MarkRated(r) \/ TakeAwaitingProductSearch(r) \/ AwaitProductSearch(r) \/ TakeResult(r)
        PROVE  AskedInv'
    <2>1. Sender(r) \in Users /\ store[Sender(r)] \in Customer
      BY <1>6, AtHand DEF MarkRated, TakeAwaitingProductSearch, AwaitProductSearch, TakeResult, At
    <2> DEFINE old == store[Sender(r)]
    <2>2. \/ store' = store
          \/ Write(r, [old EXCEPT !.rated = TRUE, !.prompted = TRUE])
          \/ \E d \in BOOLEAN : Write(r, [old EXCEPT !.awaiting = d])
          \/ \E i : Write(r, [old EXCEPT !.session = i])
          \/ Write(r, [old EXCEPT !.phone = TRUE])
      BY <1>6 DEF MarkRated, TakeAwaitingProductSearch, AwaitProductSearch, TakeResult,
                  SetSessionID, ClearSession, SetVerifiedPhone
    <2>3. /\ [old EXCEPT !.rated = TRUE, !.prompted = TRUE].prompted
          /\ \A d \in BOOLEAN : [old EXCEPT !.awaiting = d].prompted = old.prompted
          /\ \A i : [old EXCEPT !.session = i].prompted = old.prompted
          /\ [old EXCEPT !.phone = TRUE].prompted = old.prompted
      BY <2>1 DEF Customer
    <2> HIDE DEF old
    <2>4. store' = store \/ \E s : Write(r, s) /\ (old.prompted => s.prompted)
      BY <2>2, <2>3
    <2>6. \A u \in Users : store[u].prompted => store'[u].prompted
      <3>1. CASE store' = store
        BY <3>1
      <3>2. CASE \E s : Write(r, s) /\ (old.prompted => s.prompted)
        <4>1. PICK s : Write(r, s) /\ (old.prompted => s.prompted)
          BY <3>2
        <4> QED BY <1>2, <2>1, <4>1 DEF Write, old
      <3> QED BY <2>4, <3>1, <3>2
    <2>5. asked' = asked
      BY <1>6 DEF MarkRated, TakeAwaitingProductSearch, AwaitProductSearch, TakeResult
    <2> QED BY <1>3, <2>5, <2>6
  <1>7. ASSUME NEW r \in Requests,
               \/ Receive(r) \/ CancelRating(r) \/ CallChat(r) \/ Serve(r) \/ Reschedule(r)
               \/ ArmTimer(r) \/ HandlerReturns(r) \/ DelayPasses(r) \/ TimerStops(r)
        PROVE  AskedInv'
    <2>1. store' = store /\ asked' = asked
      BY <1>7 DEF Receive, CancelRating, CallChat, Serve, bot, Reschedule, ArmTimer, HandlerReturns,
                  DelayPasses, TimerStops
    <2> QED BY <2>1 DEF AskedInv
  <1>8. CASE (TimePasses /\ UNCHANGED bot) \/ AllQuiet \/ UNCHANGED <<vars, bot>>
    <2>1. store' = store /\ asked' = asked
      BY <1>8 DEF AllQuiet, bot
    <2> QED BY <2>1 DEF AskedInv
  <1> QED BY <1>4, <1>5, <1>6, <1>7, <1>8 DEF BotNext, Handle, Ring

\* However many timers of a customer are due at once, and although Schedule can
\* lose track of one, a customer is asked at most once in a conversation
\* (ClaimRatingPrompt).
THEOREM NobodyIsAskedTwice == BotSpec => []AskedOncePerConversation
  <1>1. BotInit => AskedInv
    BY DEF BotInit, AskedInv
  <1>2. AskedInv => AskedOncePerConversation
    BY DEF AskedInv, AskedOncePerConversation
  <1> QED BY <1>1, <1>2, AskedStep, BotInvariance, PTL DEF BotSpec

\* A timer belongs to a handler that has armed it and is about to return; once
\* it has returned, withHandlerContext has ended the timer's context with its own.
TimerInv ==
    \A r \in Requests : /\ timer[r] # "off" => where[r] \in {"return", "returned"}
                        /\ where[r] = "returned" => r \in cancelled

\* A timer comes due only before the handler that armed it has returned, and a
\* prompt arrives only then: never after the inactivity it is meant for.
PromptsComeEarly ==
    /\ \A r \in Requests : DelayPasses(r) => where[r] = "return"
    /\ \A u \in Users : asked'[u] > asked[u] =>
          \E r \in Requests : where[r] = "return" /\ Sender(r) = u /\ timer[r] = "due"

LEMMA TimerInvStep == BotInv /\ TimerInv /\ [BotNext]_<<vars, bot>> => TimerInv'
  <1> SUFFICES ASSUME BotInv, TimerInv, [BotNext]_<<vars, bot>> PROVE TimerInv'
    OBVIOUS
  <1>1. /\ where \in [Requests -> Places] /\ cancelled \subseteq Requests
        /\ timer \in [Requests -> {"off", "armed", "due", "over"}]
    BY DEF BotInv, BotTypeOK
  <1>2. ASSUME NEW r \in Requests, ArmTimer(r) PROVE TimerInv'
    BY <1>1, <1>2 DEF ArmTimer, At, Move, TimerInv
  <1>3. ASSUME NEW r \in Requests, HandlerReturns(r) PROVE TimerInv'
    BY <1>1, <1>3 DEF HandlerReturns, At, Move, TimerInv
  <1>4. ASSUME NEW r \in Requests, Ring(r) PROVE TimerInv'
    BY <1>1, <1>4 DEF Ring, DelayPasses, TimerStops, TimerFires, TimerInv
  <1>5. ASSUME NEW r \in Requests,
               \/ Receive(r) \/ ResetRating(r) \/ MarkRated(r) \/ CancelRating(r)
               \/ TakeAwaitingProductSearch(r) \/ AwaitProductSearch(r) \/ CallChat(r)
               \/ TakeResult(r) \/ Reschedule(r)
        PROVE  TimerInv'
    <2>1. timer' = timer /\ cancelled \subseteq cancelled'
      BY <1>5 DEF Receive, ResetRating, MarkRated, CancelRating, Cancel, TakeAwaitingProductSearch,
                  AwaitProductSearch, CallChat, TakeResult, Reschedule
    <2>2. /\ where[r] \notin {"return", "returned"} /\ where'[r] # "returned"
          /\ \A q \in Requests \ {r} : where'[q] = where[q]
      BY <1>1, <1>5 DEF Receive, ResetRating, MarkRated, CancelRating, TakeAwaitingProductSearch,
                        AwaitProductSearch, CallChat, TakeResult, Reschedule, At, Move
    <2> QED BY <2>1, <2>2 DEF TimerInv
  <1>6. CASE (\E r \in Requests : Serve(r)) \/ (TimePasses /\ UNCHANGED bot) \/ AllQuiet
             \/ UNCHANGED <<vars, bot>>
    BY <1>6 DEF Serve, AllQuiet, bot, TimerInv
  <1> QED BY <1>2, <1>3, <1>4, <1>5, <1>6 DEF BotNext, Handle

\* "RatingScheduler sends a delayed service-rating prompt after inactivity"
\* (state.go), yet whatever the delay, the customers and the order of steps, a
\* prompt reaches a customer only while the handler that scheduled it has not
\* returned: what run BotRatingLost finds holds of every prompt.
THEOREM PromptsNeedTheirHandler == BotSpec => [][PromptsComeEarly]_<<vars, bot>>
  <1>1. BotInit => TimerInv
    BY DEF BotInit, TimerInv
  <1>2. BotInv /\ TimerInv /\ [BotNext]_<<vars, bot>> => [PromptsComeEarly]_<<vars, bot>>
    <2> SUFFICES ASSUME BotInv, TimerInv, BotNext PROVE PromptsComeEarly
      OBVIOUS
    <2>1. asked \in [Users -> Nat]
      BY DEF BotInv, BotTypeOK
    <2>2. ASSUME NEW r \in Requests, DelayPasses(r) PROVE where[r] = "return"
      BY <2>2 DEF DelayPasses, TimerInv
    <2>3. ASSUME NEW u \in Users, asked'[u] > asked[u]
          PROVE  \E r \in Requests : where[r] = "return" /\ Sender(r) = u /\ timer[r] = "due"
      <3>1. CASE \E r \in Requests : TimerFires(r)
        <4>1. PICK r \in Requests : TimerFires(r)
          BY <3>1
        <4>2. /\ timer[r] = "due"
              /\ asked' = asked \/ asked' = [asked EXCEPT ![Sender(r)] = @ + (IF r \in cancelled THEN 0 ELSE 1)]
          BY <4>1 DEF TimerFires
        <4>3. asked[u] \in Nat
          BY <2>1
        <4>4. Sender(r) = u /\ r \notin cancelled
          BY <2>1, <2>3, <4>2, <4>3
        <4> QED BY <4>2, <4>4 DEF TimerInv
      <3>2. CASE \E r \in Requests : ResetRating(r)
        <4>1. asked'[u] = 0 \/ asked'[u] = asked[u]
          BY <2>1, <3>2 DEF ResetRating
        <4> QED BY <2>1, <2>3, <4>1
      <3>3. CASE ~(\E r \in Requests : TimerFires(r) \/ ResetRating(r))
        <4>1. asked' = asked
          BY <3>3 DEF BotNext, Handle, Ring, Receive, MarkRated, CancelRating, TakeAwaitingProductSearch,
                      AwaitProductSearch, CallChat, TakeResult, Reschedule, ArmTimer, HandlerReturns,
                      Serve, DelayPasses, TimerStops, AllQuiet, bot
        <4> QED BY <2>1, <2>3, <4>1
      <3> QED BY <3>1, <3>2, <3>3
    <2> QED BY <2>2, <2>3 DEF PromptsComeEarly
  <1> QED BY <1>1, <1>2, TimerInvStep, BotInvariance, PTL DEF BotSpec

-----------------------------------------------------------------------------
(* Handlers of one customer, one after the other.                          *)

\* A customer's handler returns before the next update of that customer is
\* handled; handlers of different customers overlap freely.
OneHandlerPerCustomer ==
    \A q, r \in Handlers : Sender(q) = Sender(r) => q = r

\* The call an update makes, and when.
CallOfUpdate(r) ==
    /\ pc[r] = "new" => cmd[r] = None
    /\ pc[r] \notin {"new"} \cup Ended => where[r] = "chat"
    /\ where[r] = "chat" => /\ cmd[r].op = "reset" <=> Is(r, {"new"})
                            /\ cmd[r].op = "phone" <=> Is(r, {"contact"})

CallsInv == \A r \in Requests : CallOfUpdate(r)

\* A step outside the chat call, for what the properties below depend on.
Aside ==
    /\ TimePasses \/ UNCHANGED vars
    /\ \A q \in Requests : where'[q] = "chat" <=> where[q] = "chat"
    /\ \A q \in Requests : where[q] # "queued" => update'[q] = update[q]
    /\ \A u \in Users : store'[u].session = store[u].session

\* Handlers write the remembered session only when a call has ended.
LEMMA StepsAside ==
    ASSUME BotInv, NEW r \in Requests,
           \/ Receive(r) \/ ResetRating(r) \/ MarkRated(r) \/ CancelRating(r)
           \/ TakeAwaitingProductSearch(r) \/ AwaitProductSearch(r)
           \/ Reschedule(r) \/ ArmTimer(r) \/ HandlerReturns(r) \/ Ring(r)
    PROVE  Aside
  <1>1. BotTypeOK /\ ChatCall(r)
    BY DEF BotInv
  <1>2. UNCHANGED vars
    BY DEF Receive, ResetRating, MarkRated, CancelRating, TakeAwaitingProductSearch,
           AwaitProductSearch, Reschedule, ArmTimer, HandlerReturns, Ring, DelayPasses, TimerStops,
           TimerFires
  <1>3. \A q \in Requests : where'[q] = "chat" <=> where[q] = "chat"
    <2>1. where' = where \/ \E p \in Places \ {"chat"} : At(r, p) /\ \E p2 \in Places \ {"chat"} : Move(r, p2)
      BY DEF Receive, ResetRating, MarkRated, CancelRating, TakeAwaitingProductSearch,
           AwaitProductSearch, Reschedule, ArmTimer, HandlerReturns, Ring, DelayPasses, TimerStops,
           TimerFires, Places
    <2> QED BY <1>1, <2>1 DEF At, Move, BotTypeOK
  <1>4. \A q \in Requests : where[q] # "queued" => update'[q] = update[q]
    <2>1. CASE Receive(r)
      BY <1>1, <2>1 DEF Receive, At, BotTypeOK
    <2>2. CASE update' = update
      BY <2>2
    <2> QED BY <2>1, <2>2 DEF ResetRating, MarkRated, CancelRating, TakeAwaitingProductSearch,
           AwaitProductSearch, Reschedule, ArmTimer, HandlerReturns, Ring, DelayPasses, TimerStops,
           TimerFires
  <1>5. CASE store' = store
    BY <1>2, <1>3, <1>4, <1>5 DEF Aside
  <1>6. CASE \/ ResetRating(r) \/ MarkRated(r) \/ TakeAwaitingProductSearch(r)
             \/ AwaitProductSearch(r) \/ Ring(r)
    <2>1. where[r] # "queued" \/ timer[r] # "off"
      BY <1>6 DEF ResetRating, MarkRated, TakeAwaitingProductSearch, AwaitProductSearch, At,
                  Ring, DelayPasses, TimerStops, TimerFires
    <2>2. update[r] \in [user : Users, kind : Kinds]
      BY <1>1, <2>1 DEF ChatCall, BotTypeOK
    <2>3. Sender(r) \in Users /\ store[Sender(r)] \in Customer /\ store \in [Users -> Customer]
      BY <1>1, <2>2 DEF Sender, BotTypeOK
    <2> DEFINE old == store[Sender(r)]
    <2>4. \/ store' = store
          \/ \E b, d \in BOOLEAN : \/ Write(r, [old EXCEPT !.rated = b, !.prompted = d])
                                  \/ Write(r, [old EXCEPT !.awaiting = d])
                                  \/ Write(r, [old EXCEPT !.prompted = d])
      BY <1>6 DEF ResetRating, MarkRated, TakeAwaitingProductSearch, AwaitProductSearch,
                  Ring, DelayPasses, TimerStops, TimerFires
    <2>5. \A b, d \in BOOLEAN : /\ [old EXCEPT !.rated = b, !.prompted = d].session = old.session
                              /\ [old EXCEPT !.awaiting = d].session = old.session
                              /\ [old EXCEPT !.prompted = d].session = old.session
      BY <2>3 DEF Customer
    <2> HIDE DEF old
    <2>6. \A u \in Users : store'[u].session = store[u].session
      BY <2>3, <2>4, <2>5 DEF Write, old
    <2> QED BY <1>2, <1>3, <1>4, <2>6 DEF Aside
  <1> QED BY <1>5, <1>6 DEF Receive, CancelRating, Reschedule, ArmTimer, HandlerReturns

\* What a step of the bot can be.
LEMMA BotSteps ==
    ASSUME BotInv, [BotNext]_<<vars, bot>>
    PROVE  Aside \/ \E r \in Requests : CallChat(r) \/ Serve(r) \/ TakeResult(r)
  <1>1. CASE (TimePasses /\ UNCHANGED bot) \/ AllQuiet \/ UNCHANGED <<vars, bot>>
    BY <1>1 DEF AllQuiet, bot, Aside
  <1> QED BY <1>1, StepsAside DEF BotNext, Handle

\* What a step aside leaves alone.
LEMMA AsideKeeps ==
    ASSUME Aside
    PROVE  /\ UNCHANGED <<sessions, tickets, pc, mem, faults, cmd, retired, avoid>>
           /\ \A r \in Requests : where[r] = "chat" => Sender(r)' = Sender(r) /\ \A k : Is(r, k)' = Is(r, k)
  BY DEF Aside, TimePasses, vars, tables, past, Sender, Is

\* The call of an update.
LEMMA CallMade ==
    ASSUME BotInv, NEW r \in Requests, CallChat(r)
    PROVE  /\ Arrive(r) /\ where[r] = "call" /\ pc[r] = "new" /\ pc'[r] = "find"
           /\ UNCHANGED <<sessions, mem, faults, retired, update, store>>
           /\ where'[r] = "chat"
           /\ \A q \in Requests : q # r => /\ where'[q] = where[q] /\ pc'[q] = pc[q]
                                         /\ cmd'[q] = cmd[q] /\ avoid'[q] = avoid[q]
           /\ avoid'[r] = retired
           /\ cmd'[r] \in Command /\ cmd'[r] # None
           /\ cmd'[r].user = Sender(r) /\ cmd'[r].channel = "telegram"
           /\ cmd'[r].op = CASE Is(r, {"new"}) -> "reset" [] Is(r, {"contact"}) -> "phone"
                             [] OTHER -> "reply"
           /\ cmd'[r].hint = IF cmd'[r].op = "reply" THEN store[Sender(r)].session ELSE None
           /\ Sender(r) \in Users
  <1>1. TypeOK /\ BotTypeOK
    BY DEF BotInv, IInv
  <1>2. Arrive(r) /\ where[r] = "call" /\ UNCHANGED <<update, store>> /\ Move(r, "chat")
    BY DEF CallChat, At
  <1>3. PICK c \in Commands : cmd' = [cmd EXCEPT ![r] = c]
    BY <1>2 DEF Arrive
  <1>4. cmd'[r] = c /\ c \in Command /\ c # None
    BY <1>1, <1>3, ConstantsAssumption DEF TypeOK
  <1>5. Sender(r) \in Users
    BY <1>2, AtHand
  <1>6. /\ pc[r] = "new" /\ pc'[r] = "find" /\ avoid'[r] = retired
        /\ UNCHANGED <<sessions, mem, faults, retired>>
        /\ \A q \in Requests : q # r => /\ pc'[q] = pc[q] /\ cmd'[q] = cmd[q] /\ avoid'[q] = avoid[q]
    BY <1>1, <1>2, <1>3 DEF Arrive, Goto, tables, TypeOK
  <1>7. where'[r] = "chat" /\ \A q \in Requests : q # r => where'[q] = where[q]
    BY <1>1, <1>2 DEF Move, BotTypeOK
  <1>8. /\ cmd'[r].user = Sender(r) /\ cmd'[r].channel = "telegram"
        /\ cmd'[r].op = CASE Is(r, {"new"}) -> "reset" [] Is(r, {"contact"}) -> "phone"
                             [] OTHER -> "reply"
        /\ cmd'[r].hint = IF cmd'[r].op = "reply" THEN store[Sender(r)].session ELSE None
    BY DEF CallChat
  <1> QED BY <1>2, <1>4, <1>5, <1>6, <1>7, <1>8

\* The chat service at work for an update.
LEMMA CallServed ==
    ASSUME BotInv, NEW r \in Requests, Serve(r)
    PROVE  /\ Step(r) \/ Fault(r)
           /\ where[r] = "chat" /\ r \in Handlers
           /\ UNCHANGED <<where, update, store>>
           /\ cmd' = cmd /\ avoid' = avoid
           /\ pc[r] \notin {"new"} \cup Ended /\ pc'[r] # "new"
           /\ cmd[r].user = Sender(r)
           /\ \A q \in Requests : q # r => pc'[q] = pc[q] /\ mem'[q] = mem[q]
  <1>1. Step(r) \/ Fault(r)
    BY DEF Serve
  <1>2. where[r] = "chat" /\ UNCHANGED <<where, update, store>>
    BY DEF Serve, At, bot
  <1>3. ChatCall(r)' /\ ChatCall(r)
    BY ServeStep DEF BotInv
  <1>4. GoodStep(r)
    BY <1>1, StepGood DEF BotInv
  <1> QED BY <1>1, <1>2, <1>3, <1>4, StepKeeps DEF ChatCall, Handlers, GoodStep, Frame

\* The result of the call is taken: the chat service stands still.
LEMMA ResultTaken ==
    ASSUME BotInv, NEW r \in Requests, TakeResult(r)
    PROVE  /\ where[r] = "chat" /\ r \in Handlers /\ pc[r] \in Ended
           /\ UNCHANGED vars /\ UNCHANGED update
           /\ where'[r] # "chat"
           /\ \A q \in Requests : q # r => where'[q] = where[q]
           /\ \A u \in Users : u # Sender(r) => store'[u] = store[u]
           /\ Sender(r) \in Users
           /\ \/ /\ store'[Sender(r)].session = store[Sender(r)].session
                 /\ pc[r] = "failed" \/ Is(r, {"contact"})
              \/ /\ pc[r] = "done" /\ cmd[r].op = "reply"
                 /\ store'[Sender(r)].session = mem[r].sid
              \/ /\ Is(r, {"new"})
                 /\ store'[Sender(r)].session = None
  <1>1. BotTypeOK /\ ChatCall(r)
    BY DEF BotInv
  <1>2. where[r] = "chat" /\ pc[r] \in Ended /\ UNCHANGED vars /\ UNCHANGED update
    BY DEF TakeResult, At, Ended
  <1>3. Sender(r) \in Users /\ store[Sender(r)] \in Customer
    BY <1>2, AtHand
  <1>4. PICK p \in {"return", "schedule"} : where' = [where EXCEPT ![r] = p]
    BY DEF TakeResult, Move
  <1>5. where'[r] # "chat" /\ \A q \in Requests : q # r => where'[q] = where[q]
    BY <1>1, <1>4 DEF BotTypeOK
  <1>6. CASE /\ pc[r] = "failed" \/ (Is(r, {"contact"}) /\ pc[r] = "done" /\ ~Registered(r))
             /\ UNCHANGED store
    BY <1>2, <1>3, <1>5, <1>6 DEF Handlers
  <1>7. CASE /\ pc[r] = "done" /\ Is(r, {"message", "short", "callback", "order"})
             /\ Write(r, SetSessionID(store[Sender(r)], mem[r].sid))
    <2>1. /\ store'[Sender(r)].session = mem[r].sid
          /\ \A u \in Users : u # Sender(r) => store'[u] = store[u]
      BY <1>1, <1>3, <1>7 DEF Write, SetSessionID, BotTypeOK, Customer
    <2> QED BY <1>1, <1>2, <1>3, <1>5, <1>7, <2>1 DEF Handlers, ChatCall
  <1>8. CASE Is(r, {"new"}) /\ Write(r, ClearSession(store[Sender(r)]))
    <2>1. /\ store'[Sender(r)].session = None
          /\ \A u \in Users : u # Sender(r) => store'[u] = store[u]
      BY <1>1, <1>3, <1>8 DEF Write, ClearSession, SetSessionID, BotTypeOK, Customer
    <2> QED BY <1>2, <1>3, <1>5, <1>8, <2>1 DEF Handlers
  <1>9. CASE Is(r, {"contact"}) /\ Write(r, SetVerifiedPhone(store[Sender(r)]))
    <2>1. /\ store'[Sender(r)].session = store[Sender(r)].session
          /\ \A u \in Users : u # Sender(r) => store'[u] = store[u]
      BY <1>1, <1>3, <1>9 DEF Write, SetVerifiedPhone, BotTypeOK, Customer
    <2> QED BY <1>2, <1>3, <1>5, <1>9, <2>1 DEF Handlers
  <1> QED BY <1>6, <1>7, <1>8, <1>9 DEF TakeResult

\* No update has made its call yet.
LEMMA CallsInvInit == BotInit => CallsInv
  BY DEF BotInit, Init, CallsInv, CallOfUpdate

\* Every update makes the call of its kind, once, and waits for it.
LEMMA CallsInvStep == BotInv /\ CallsInv /\ [BotNext]_<<vars, bot>> => CallsInv'
  <1> SUFFICES ASSUME BotInv, CallsInv, [BotNext]_<<vars, bot>>, NEW q \in Requests
               PROVE  CallOfUpdate(q)'
    BY DEF CallsInv
  <1>1. CallOfUpdate(q)
    BY DEF CallsInv
  <1>2. CASE Aside
    BY <1>1, <1>2, AsideKeeps DEF Aside, CallOfUpdate
  <1>3. ASSUME NEW r \in Requests, CallChat(r) PROVE CallOfUpdate(q)'
    <2>1. CASE q = r
      <3>1. /\ pc'[r] = "find" /\ where'[r] = "chat" /\ update' = update
            /\ cmd'[r].op = CASE Is(r, {"new"}) -> "reset" [] Is(r, {"contact"}) -> "phone"
                              [] OTHER -> "reply"
        BY <1>3, CallMade
      <3> QED BY <2>1, <3>1 DEF CallOfUpdate, Is
    <2>2. CASE q # r
      BY <1>1, <1>3, <2>2, CallMade DEF CallOfUpdate, Is
    <2> QED BY <2>1, <2>2
  <1>4. ASSUME NEW r \in Requests, Serve(r) PROVE CallOfUpdate(q)'
    BY <1>1, <1>4, CallServed DEF CallOfUpdate, Is
  <1>5. ASSUME NEW r \in Requests, TakeResult(r) PROVE CallOfUpdate(q)'
    <2>1. UNCHANGED <<pc, cmd, update>>
      BY <1>5, ResultTaken DEF vars, past
    <2> QED BY <1>1, <1>5, <2>1, ResultTaken DEF CallOfUpdate, Is
  <1> QED BY <1>2, <1>3, <1>4, <1>5, BotSteps

\* Handlers that do not overlap do not call the chat service at once.
LEMMA OneHandlerOneCall ==
    ASSUME BotInv, CallsInv, OneHandlerPerCustomer
    PROVE  OneCallPerCustomer
  <1> SUFFICES ASSUME NEW q \in InFlight, NEW r \in InFlight, cmd[q].user = cmd[r].user
               PROVE  q = r
    BY DEF OneCallPerCustomer
  <1>1. \A p \in InFlight : p \in Handlers /\ cmd[p].user = Sender(p)
    BY DEF InFlight, CallsInv, CallOfUpdate, BotInv, ChatCall, Handlers
  <1> QED BY <1>1 DEF OneHandlerPerCustomer

\* A remembered session that a reset closed is about to be forgotten; the session
\* a message names was not closed before it came, and one it was answered in is
\* active.
FreshInv ==
    /\ \A u \in Users : store[u].session \in retired =>
          \E r \in Requests : where[r] = "chat" /\ Sender(r) = u /\ Is(r, {"new"}) /\ pc[r] = "done"
    /\ \A r \in Requests : where[r] = "chat" /\ cmd[r].op = "reply" =>
          /\ cmd[r].hint \notin avoid[r]
          /\ pc[r] = "done" => IsActive(mem[r].sid)

\* Nothing is remembered initially.
LEMMA FreshInvInit == BotInit => FreshInv
  BY DEF BotInit, Init, FreshInv

\* CallChat: a remembered session that is closed would mean that the handler of a
\* /new is still at work.
LEMMA CallFresh ==
    ASSUME BotInv, FreshInv, OneHandlerPerCustomer, NEW r \in Requests, CallChat(r)
    PROVE  FreshInv'
  <1>1. /\ UNCHANGED <<sessions, mem, retired, update, store>>
        /\ where[r] = "call" /\ pc'[r] = "find"
        /\ \A q \in Requests : q # r => /\ where'[q] = where[q] /\ pc'[q] = pc[q]
                                      /\ cmd'[q] = cmd[q] /\ avoid'[q] = avoid[q]
    BY CallMade
  <1>2. ASSUME NEW u \in Users, store'[u].session \in retired'
        PROVE  \E w \in Requests : where'[w] = "chat" /\ Sender(w)' = u /\ Is(w, {"new"})' /\ pc'[w] = "done"
    <2>1. PICK w \in Requests : where[w] = "chat" /\ Sender(w) = u /\ Is(w, {"new"}) /\ pc[w] = "done"
      BY <1>1, <1>2 DEF FreshInv
    <2>2. w # r
      BY <1>1, <2>1
    <2> QED BY <1>1, <2>1, <2>2 DEF Sender, Is
  <1>3. ASSUME NEW q \in Requests, where'[q] = "chat", cmd'[q].op = "reply"
        PROVE  cmd'[q].hint \notin avoid'[q] /\ (pc'[q] = "done" => IsActive(mem[q].sid)')
    <2>1. CASE q # r
      BY <1>1, <1>3, <2>1 DEF FreshInv, IsActive
    <2>2. CASE q = r
      <3>1. cmd'[r].hint = store[Sender(r)].session /\ avoid'[r] = retired /\ Sender(r) \in Users
        BY <1>3, <2>2, CallMade
      <3>2. ASSUME store[Sender(r)].session \in retired PROVE FALSE
        <4>1. PICK w \in Requests : where[w] = "chat" /\ Sender(w) = Sender(r)
          BY <3>1, <3>2 DEF FreshInv
        <4>2. w \in Handlers /\ r \in Handlers /\ w # r
          BY <1>1, <4>1 DEF Handlers
        <4> QED BY <4>1, <4>2 DEF OneHandlerPerCustomer
      <3> QED BY <1>1, <2>2, <3>1, <3>2
    <2> QED BY <2>1, <2>2
  <1> QED BY <1>2, <1>3 DEF FreshInv

\* TakeResult: /new forgets the session it closed, a message remembers an active one.
LEMMA TakeFresh ==
    ASSUME BotInv, SerialInv, CallsInv, FreshInv, OneHandlerPerCustomer,
           NEW r \in Requests, TakeResult(r)
    PROVE  FreshInv'
  <1>1. /\ UNCHANGED <<sessions, pc, cmd, mem, retired, avoid, update>>
        /\ where[r] = "chat" /\ where'[r] # "chat" /\ r \in Handlers
        /\ \A q \in Requests : q # r => where'[q] = where[q]
    BY ResultTaken DEF vars, tables, past
  <1>2. None \notin retired
    BY ConstantsAssumption DEF BotInv, IInv, TypeOK
  <1>3. ASSUME NEW u \in Users, store'[u].session \in retired'
        PROVE  \E w \in Requests : where'[w] = "chat" /\ Sender(w)' = u /\ Is(w, {"new"})' /\ pc'[w] = "done"
    <2>1. ASSUME u = Sender(r), cmd[r].op = "reply", pc[r] = "done", store'[u].session = mem[r].sid
          PROVE  FALSE
      BY <1>1, <1>3, <2>1 DEF FreshInv, SerialInv, RetiredAreClosed, IsActive
    <2>2. ASSUME u = Sender(r), store'[u].session = None PROVE FALSE
      BY <1>1, <1>2, <1>3, <2>2
    <2>3. /\ store'[u].session = store[u].session
          /\ u = Sender(r) => pc[r] = "failed" \/ Is(r, {"contact"})
      BY <2>1, <2>2, ResultTaken
    <2>4. PICK w \in Requests : where[w] = "chat" /\ Sender(w) = u /\ Is(w, {"new"}) /\ pc[w] = "done"
      BY <1>1, <1>3, <2>3 DEF FreshInv
    <2>5. w # r
      BY <2>3, <2>4 DEF Is
    <2> QED BY <1>1, <2>4, <2>5 DEF Sender, Is
  <1>4. ASSUME NEW q \in Requests, where'[q] = "chat", cmd'[q].op = "reply"
        PROVE  cmd'[q].hint \notin avoid'[q] /\ (pc'[q] = "done" => IsActive(mem[q].sid)')
    BY <1>1, <1>4 DEF FreshInv, IsActive
  <1> QED BY <1>3, <1>4 DEF FreshInv

\* A reply ends in SaveReply, which leaves its session active.
LEMMA ReplyEndsActive ==
    ASSUME IInv, SerialInv, NEW r \in Requests, OwnReply(r), Step(r) \/ Fault(r),
           cmd[r].op = "reply", pc'[r] = "done"
    PROVE  IsActive(mem[r].sid)'
  <1>1. TypeOK /\ CallInv(r) /\ pc[r] \notin Ended
    BY StepKeeps DEF IInv
  <1>2. CASE SaveReply(r)
    <2>1. pc[r] = "saveReply" /\ Save(mem[r]) /\ mem'[r] = MarkPersisted(mem[r]) /\ CanSave(mem[r])
      BY <1>1, <1>2 DEF SaveReply, Hold, TypeOK, CallInv, Stored, Answering, CanSave
    <2>2. /\ mem[r] \in Session /\ sessions'[mem[r].sid] # None
          /\ sessions'[mem[r].sid].status = mem[r].status
      BY <2>1, SavedRow DEF Saving
    <2>3. mem[r].status = "active"
      BY <2>1, SavedStatus DEF Saving
    <2>4. mem'[r].sid = mem[r].sid
      BY <2>1, <2>2, MarkPersistedEffect
    <2> QED BY <2>2, <2>3, <2>4 DEF IsActive
  <1>3. CASE VerifyPhone(r) \/ SaveContact(r)
    BY <1>3 DEF VerifyPhone, SaveContact, OwnReply
  <1>4. CASE FindSession(r)
    BY <1>1, <1>4 DEF FindSession, StartTurn, Gate, Goto, TypeOK
  <1>5. CASE SaveClosed(r)
    BY <1>1, <1>5 DEF SaveClosed, StartTurn, Gate, Goto, TypeOK
  <1>6. CASE \/ LoadMessages(r) \/ CheckIdle(r) \/ CloseTickets(r) \/ SaveOpened(r) \/ EnsureVerified(r)
             \/ SaveMarkers(r) \/ Respond(r) \/ FindTicket(r) \/ SaveTicket(r) \/ Fault(r)
    BY <1>1, <1>6 DEF LoadMessages, CheckIdle, CloseTickets, SaveOpened, EnsureVerified, SaveMarkers,
                      Respond, FindTicket, SaveTicket, Fault, StartTurn, Answer, PassGate, Gate, Goto,
                      TypeOK, Ended, Saving
  <1> QED BY <1>2, <1>3, <1>4, <1>5, <1>6 DEF Step

\* Only a finished ResetSession closes a session for good.
LEMMA RetiredBy ==
    ASSUME IInv, NEW r \in Requests, Step(r) \/ Fault(r), NEW id \in retired' \ retired
    PROVE  /\ pc[r] = "saveClosed" /\ pc'[r] = "done" /\ cmd[r].op = "reset" /\ id = mem[r].sid
           /\ sessions[id].user = cmd[r].user
  <1>1. TypeOK /\ CallInv(r)
    BY DEF IInv
  <1>2. SaveClosed(r)
    BY DEF Step, Fault, FindSession, LoadMessages, CheckIdle, CloseTickets, SaveOpened,
           EnsureVerified, SaveMarkers, Respond, FindTicket, SaveTicket, SaveReply, VerifyPhone,
           SaveContact, past
  <1>3. pc[r] = "saveClosed" /\ pc'[r] = "done" /\ cmd[r].op = "reset" /\ id = mem[r].sid
    BY <1>1, <1>2 DEF SaveClosed, Goto, TypeOK
  <1>4. mem[r].persisted /\ mem[r].user = cmd[r].user /\ mem[r] # None
    BY <1>1, <1>3 DEF CallInv, Stored, Own, Holding, Saving, Labels, Ended
  <1> QED BY <1>1, <1>3, <1>4 DEF CallInv, Held, HeldBy

\* Serve: a reset that closes the remembered session is that customer's /new.
LEMMA ServeFresh ==
    ASSUME BotInv, SessionInv, SerialInv, CallsInv, FreshInv, OneHandlerPerCustomer,
           NEW r \in Requests, Serve(r)
    PROVE  FreshInv'
  <1>1. /\ Step(r) \/ Fault(r)
        /\ where[r] = "chat" /\ r \in Handlers
        /\ UNCHANGED <<where, update, store, cmd, avoid>>
        /\ pc[r] \notin {"new"} \cup Ended
        /\ cmd[r].user = Sender(r)
        /\ \A q \in Requests : q # r => pc'[q] = pc[q] /\ mem'[q] = mem[q]
    BY CallServed
  <1>2. IInv
    BY DEF BotInv
  <1>3. ASSUME NEW u \in Users, store'[u].session \in retired'
        PROVE  \E w \in Requests : where'[w] = "chat" /\ Sender(w)' = u /\ Is(w, {"new"})' /\ pc'[w] = "done"
    <2>1. CASE store[u].session \in retired
      <3>1. PICK w \in Requests : where[w] = "chat" /\ Sender(w) = u /\ Is(w, {"new"}) /\ pc[w] = "done"
        BY <2>1 DEF FreshInv
      <3>2. w # r
        BY <1>1, <3>1 DEF Ended
      <3> QED BY <1>1, <3>1, <3>2 DEF Sender, Is
    <2>2. CASE store[u].session \notin retired
      <3> DEFINE id == store[u].session
      <3>1. id \in retired' \ retired
        BY <1>1, <1>3, <2>2
      <3>2. pc'[r] = "done" /\ cmd[r].op = "reset" /\ sessions[id].user = cmd[r].user
        BY <1>1, <1>2, <3>1, RetiredBy
      <3>3. id # None
        <4>1. IInv'
          BY <1>1, <1>2, StepGood, GoodStepPreserves
        <4> QED BY <3>1, <4>1, ConstantsAssumption DEF IInv, TypeOK
      <3>4. sessions[id].user = u
        BY <3>3 DEF SessionInv, RememberedSessionIsOwn
      <3>5. Is(r, {"new"})
        BY <1>1, <3>2 DEF CallsInv, CallOfUpdate
      <3> QED BY <1>1, <3>2, <3>4, <3>5 DEF Sender, Is
    <2> QED BY <2>1, <2>2
  <1>4. ASSUME NEW q \in Requests, where'[q] = "chat", cmd'[q].op = "reply"
        PROVE  cmd'[q].hint \notin avoid'[q] /\ (pc'[q] = "done" => IsActive(mem[q].sid)')
    <2>1. cmd'[q].hint \notin avoid'[q]
      BY <1>1, <1>4 DEF FreshInv
    <2>2. CASE q = r
      BY <1>1, <1>2, <1>4, <2>1, <2>2, ReplyEndsActive DEF SessionInv
    <2>3. CASE q # r
      <3> SUFFICES ASSUME pc[q] = "done" PROVE IsActive(mem[q].sid)'
        BY <1>1, <2>1, <2>3
      <3>1. IsActive(mem[q].sid)
        BY <1>1, <1>4 DEF FreshInv
      <3>2. /\ mem[q] \in Session /\ mem[q].persisted /\ mem[q].user = cmd[q].user
            /\ cmd[q].user = Sender(q) /\ q \in Handlers /\ CallInv(q)
        BY <1>1, <1>2, <1>4 DEF BotInv, Concluded, SessionInv, OwnReply, ChatCall, Handlers, IInv
      <3>3. Sender(q) # Sender(r)
        BY <1>1, <2>3, <3>2 DEF OneHandlerPerCustomer
      <3>4. mem[q].sid \in SessionIds /\ mem[q] # None
        BY <3>2, ConstantsAssumption DEF Session
      <3>5. sessions[mem[q].sid] # None /\ sessions[mem[q].sid].user = Sender(q)
        BY <3>2, <3>4 DEF CallInv, Held, HeldBy
      <3>6. sessions'[mem[q].sid] = sessions[mem[q].sid]
        BY <1>1, <1>2, <3>3, <3>4, <3>5, RowsOfOthers
      <3> QED BY <1>1, <2>3, <3>1, <3>6 DEF IsActive
    <2> QED BY <2>2, <2>3
  <1> QED BY <1>3, <1>4 DEF FreshInv

\* As long as no customer has two handlers at once, every step of the bot keeps
\* what it remembers fresh.
LEMMA FreshInvStep ==
    ASSUME BotInv, SessionInv, SerialInv, CallsInv, FreshInv, OneHandlerPerCustomer,
           [BotNext]_<<vars, bot>>
    PROVE  FreshInv'
  <1>1. CASE Aside
    <2>1. /\ UNCHANGED <<sessions, pc, mem, cmd, retired, avoid>>
          /\ \A r \in Requests : where[r] = "chat" => Sender(r)' = Sender(r) /\ \A k : Is(r, k)' = Is(r, k)
          /\ \A q \in Requests : where'[q] = "chat" <=> where[q] = "chat"
          /\ \A u \in Users : store'[u].session = store[u].session
      BY <1>1, AsideKeeps DEF Aside
    <2>2. ASSUME NEW u \in Users, store'[u].session \in retired'
          PROVE  \E w \in Requests : where'[w] = "chat" /\ Sender(w)' = u /\ Is(w, {"new"})' /\ pc'[w] = "done"
      <3>1. PICK w \in Requests : where[w] = "chat" /\ Sender(w) = u /\ Is(w, {"new"}) /\ pc[w] = "done"
        BY <2>1, <2>2 DEF FreshInv
      <3> QED BY <2>1, <3>1
    <2>3. ASSUME NEW q \in Requests, where'[q] = "chat", cmd'[q].op = "reply"
          PROVE  cmd'[q].hint \notin avoid'[q] /\ (pc'[q] = "done" => IsActive(mem[q].sid)')
      BY <2>1, <2>3 DEF FreshInv, IsActive
    <2> QED BY <2>2, <2>3 DEF FreshInv
  <1> QED BY <1>1, BotSteps, CallFresh, TakeFresh, ServeFresh

\* With one handler for each customer, the chat service sees one call for each.
THEOREM OneHandlerIsOneCall == BotSpec /\ []OneHandlerPerCustomer => []OneCallPerCustomer
  <1>1. BotSpec => []CallsInv
    BY CallsInvInit, CallsInvStep, BotInvariance, PTL DEF BotSpec
  <1> QED BY <1>1, OneHandlerOneCall, BotInvariance, PTL

\* What the chat service knows of calls one after the other, and the bot of the
\* sessions it remembers.
LEMMA FreshInvariance ==
    BotSpec /\ []OneHandlerPerCustomer => [](BotInv /\ SessionInv /\ SerialInv /\ CallsInv /\ FreshInv)
  <1>1. BotSpec => []CallsInv
    BY CallsInvInit, CallsInvStep, BotInvariance, PTL DEF BotSpec
  <1>2. BotSpec => []SessionInv
    BY SessionInvInit, SessionInvStep, BotInvariance, PTL DEF BotSpec
  <1>3. BotSpec /\ []OneHandlerPerCustomer => []SerialInv
    BY BotUsesChatAsSpecified, OneHandlerIsOneCall, SerialInvariance, PTL
  <1> QED BY <1>1, <1>2, <1>3, FreshInvInit, FreshInvStep, BotInvariance, PTL DEF BotSpec

\* ClearSession "forgets the current conversation so the next message opens a new
\* one": as long as a customer's updates are handled one after the other, no
\* message that comes after /new was answered is put into a conversation /new
\* closed, whatever fails.
THEOREM NewIsFinal == BotSpec /\ []OneHandlerPerCustomer => []NextMessageOpensNew
  <1>1. SerialInv /\ FreshInv => NextMessageOpensNew
    BY DEF SerialInv, CallSerial, FreshInv, NextMessageOpensNew, At
  <1> QED BY <1>1, FreshInvariance, PTL

\* AtMostOneActiveSession's condition: nothing has failed, or no call named a session.
Unspoilt == faults = 0 \/ \A r \in Requests : cmd[r] # None => cmd[r].hint = None

\* Until something fails, a remembered session that is closed is one a message or
\* /new is about to replace.
LiveInv ==
    /\ Unspoilt => OneInv
    /\ faults = 0 => \A r \in Requests : where[r] = "chat" => pc[r] # "failed"
    /\ faults = 0 => \A u \in Users : store[u].session # None /\ ~IsActive(store[u].session) =>
          \E r \in Requests : where[r] = "chat" /\ Sender(r) = u /\ cmd[r].op # "phone"

\* Nobody has a session initially.
LEMMA LiveInvInit == BotInit => LiveInv
  BY InitOne DEF BotInit, LiveInv

\* CallChat: the remembered session is active, or the handler that closed it is
\* still at work.
LEMMA CallLive ==
    ASSUME BotInv, SessionInv, CallsInv, LiveInv, OneHandlerPerCustomer,
           NEW r \in Requests, CallChat(r)
    PROVE  LiveInv'
  <1>1. /\ Arrive(r) /\ UNCHANGED <<sessions, mem, faults, update, store>>
        /\ where[r] = "call" /\ pc'[r] = "find"
        /\ \A q \in Requests : q # r => where'[q] = where[q] /\ pc'[q] = pc[q] /\ cmd'[q] = cmd[q]
    BY CallMade
  <1>2. ASSUME Unspoilt' PROVE OneInv'
    <2>1. Unspoilt
      BY <1>1, <1>2, CallMade DEF Unspoilt, CallsInv, CallOfUpdate
    <2>2. ASSUME cmd'[r].hint # None
          PROVE  (cmd[r].hint \in ActiveOf(cmd[r].user, cmd[r].channel))'
      <3>1. faults = 0
        BY <1>1, <1>2, <2>2, CallMade DEF Unspoilt
      <3> DEFINE id == store[Sender(r)].session
      <3>2. /\ cmd'[r].hint = id /\ id \in SessionIds /\ id # None
            /\ cmd'[r].user = Sender(r) /\ cmd'[r].channel = "telegram" /\ Sender(r) \in Users
        BY <2>2, CallMade DEF Command
      <3>3. IsActive(id)
        <4> SUFFICES ASSUME ~IsActive(id) PROVE FALSE
          OBVIOUS
        <4>1. PICK w \in Requests : where[w] = "chat" /\ Sender(w) = Sender(r)
          BY <3>1, <3>2 DEF LiveInv
        <4>2. w \in Handlers /\ r \in Handlers /\ w # r
          BY <1>1, <4>1 DEF Handlers
        <4> QED BY <4>1, <4>2 DEF OneHandlerPerCustomer
      <3>4. sessions[id].user = Sender(r) /\ sessions[id].channel = "telegram"
        BY <3>2 DEF SessionInv, RememberedSessionIsOwn
      <3> HIDE DEF id
      <3> QED BY <1>1, <3>2, <3>3, <3>4 DEF ActiveOf, IsActive
    <2>3. KnownCall(r)'
      BY <2>2 DEF KnownCall
    <2> QED BY <1>1, <2>1, <2>3, OneAfterArrival DEF LiveInv, BotInv
  <1>3. ASSUME faults' = 0, NEW q \in Requests, where'[q] = "chat" PROVE pc'[q] # "failed"
    BY <1>1, <1>3 DEF LiveInv
  <1>4. ASSUME faults' = 0, NEW u \in Users, store'[u].session # None, ~IsActive(store[u].session)'
        PROVE  \E w \in Requests : where'[w] = "chat" /\ Sender(w)' = u /\ cmd'[w].op # "phone"
    <2>1. PICK w \in Requests : where[w] = "chat" /\ Sender(w) = u /\ cmd[w].op # "phone"
      BY <1>1, <1>4 DEF LiveInv, IsActive
    <2>2. w # r
      BY <1>1, <2>1
    <2> QED BY <1>1, <2>1, <2>2 DEF Sender
  <1> QED BY <1>2, <1>3, <1>4 DEF LiveInv

\* TakeResult: a message remembers the active session it was answered in, /new
\* remembers none.
LEMMA TakeLive ==
    ASSUME BotInv, CallsInv, FreshInv, LiveInv, NEW r \in Requests, TakeResult(r)
    PROVE  LiveInv'
  <1>1. /\ UNCHANGED <<sessions, pc, cmd, mem, faults, update>> /\ UNCHANGED vars
        /\ where[r] = "chat" /\ where'[r] # "chat"
        /\ \A q \in Requests : q # r => where'[q] = where[q]
    BY ResultTaken DEF vars, tables, past
  <1>2. ASSUME Unspoilt' PROVE OneInv'
    BY <1>1, <1>2, OneAtRest DEF LiveInv, Unspoilt
  <1>3. ASSUME faults' = 0, NEW q \in Requests, where'[q] = "chat" PROVE pc'[q] # "failed"
    BY <1>1, <1>3 DEF LiveInv
  <1>4. ASSUME faults' = 0, NEW u \in Users, store'[u].session # None, ~IsActive(store[u].session)'
        PROVE  \E w \in Requests : where'[w] = "chat" /\ Sender(w)' = u /\ cmd'[w].op # "phone"
    <2>1. ~IsActive(store'[u].session)
      BY <1>1, <1>4 DEF IsActive
    <2>2. ASSUME u = Sender(r), cmd[r].op = "reply", pc[r] = "done", store'[u].session = mem[r].sid
          PROVE  FALSE
      BY <1>1, <2>1, <2>2 DEF FreshInv
    <2>3. /\ store'[u].session = store[u].session
          /\ u = Sender(r) => pc[r] = "failed" \/ Is(r, {"contact"})
      BY <1>4, <2>2, ResultTaken
    <2>4. PICK w \in Requests : where[w] = "chat" /\ Sender(w) = u /\ cmd[w].op # "phone"
      BY <1>1, <1>4, <2>1, <2>3 DEF LiveInv
    <2>5. w # r
      BY <1>1, <1>4, <2>3, <2>4 DEF LiveInv, CallsInv, CallOfUpdate
    <2> QED BY <1>1, <2>4, <2>5 DEF Sender
  <1> QED BY <1>2, <1>3, <1>4 DEF LiveInv

\* Serve: an active session is closed only by its customer's own call, which is
\* not a contact.
LEMMA ServeLive ==
    ASSUME BotInv, SessionInv, SerialInv, CallsInv, LiveInv, OneHandlerPerCustomer,
           NEW r \in Requests, Serve(r)
    PROVE  LiveInv'
  <1>1. /\ Step(r) \/ Fault(r)
        /\ where[r] = "chat"
        /\ UNCHANGED <<where, update, store, cmd>>
        /\ cmd[r].user = Sender(r)
        /\ \A q \in Requests : q # r => pc'[q] = pc[q]
    BY CallServed
  <1>2. IInv /\ OneCallPerCustomer
    BY OneHandlerOneCall DEF BotInv
  <1>3. faults' = 0 => faults = 0 /\ Step(r)
    BY <1>1, <1>2, StepKeeps DEF Fault, IInv, TypeOK
  <1>4. ASSUME Unspoilt' PROVE OneInv'
    BY <1>1, <1>2, <1>3, <1>4, OneAfterStep DEF LiveInv, Unspoilt
  <1>5. ASSUME faults' = 0, NEW q \in Requests, where'[q] = "chat" PROVE pc'[q] # "failed"
    <2>1. OneInv
      BY <1>3, <1>5 DEF LiveInv, Unspoilt
    <2>2. pc'[r] # "failed"
      BY <1>2, <1>3, <1>5, <2>1, StepOne
    <2> QED BY <1>1, <1>3, <1>5, <2>2 DEF LiveInv
  <1>6. ASSUME faults' = 0, NEW u \in Users, store'[u].session # None, ~IsActive(store[u].session)'
        PROVE  \E w \in Requests : where'[w] = "chat" /\ Sender(w)' = u /\ cmd'[w].op # "phone"
    <2> DEFINE id == store[u].session
    <2>1. CASE ~IsActive(id)
      <3>1. PICK w \in Requests : where[w] = "chat" /\ Sender(w) = u /\ cmd[w].op # "phone"
        BY <1>1, <1>3, <1>6, <2>1 DEF LiveInv
      <3> QED BY <1>1, <3>1 DEF Sender
    <2>2. CASE IsActive(id)
      <3>1. sessions'[id] = None \/ sessions'[id].status # "active"
        BY <1>1, <1>6 DEF IsActive
      <3>2. /\ id \in SessionIds /\ sessions[id] # None
            /\ sessions[id].user = u
        <4>1. id \in SessionIds
          BY <1>1, <1>6 DEF BotInv, BotTypeOK, Customer
        <4> QED BY <1>1, <1>6, <4>1 DEF SessionInv, RememberedSessionIsOwn
      <3>3. pc[r] \in Saving /\ CanSave(mem[r]) /\ Save(mem[r])
        BY <1>1, <1>2, <2>2, <3>1, StepWrites DEF RowsOf, IsActive
      <3>4. id = mem[r].sid
        BY <1>2, <2>2, <3>1, <3>2, <3>3, SavedRow DEF IsActive
      <3>5. sessions'[id] # None /\ sessions'[id].status = mem[r].status /\ u = cmd[r].user
        BY <1>2, <3>2, <3>3, <3>4, SavedRow
      <3>6. pc[r] = "saveClosed"
        BY <1>2, <3>1, <3>3, <3>5, SavedStatus
      <3>7. cmd[r].op # "phone"
        BY <3>6 DEF SerialInv, CallSerial
      <3> QED BY <1>1, <3>5, <3>7 DEF Sender
    <2> QED BY <2>1, <2>2
  <1> QED BY <1>4, <1>5, <1>6 DEF LiveInv

\* As long as no customer has two handlers at once, every step of the bot keeps
\* what it remembers live.
LEMMA LiveInvStep ==
    ASSUME BotInv, SessionInv, SerialInv, CallsInv, FreshInv, LiveInv, OneHandlerPerCustomer,
           [BotNext]_<<vars, bot>>
    PROVE  LiveInv'
  <1>1. CASE Aside
    <2>1. /\ UNCHANGED <<sessions, pc, mem, cmd, faults>>
          /\ \A r \in Requests : where[r] = "chat" => Sender(r)' = Sender(r)
          /\ \A q \in Requests : where'[q] = "chat" <=> where[q] = "chat"
          /\ \A u \in Users : store'[u].session = store[u].session
          /\ TimePasses \/ UNCHANGED vars
      BY <1>1, AsideKeeps DEF Aside
    <2>2. Unspoilt' => OneInv'
      BY <2>1, OneAtRest DEF LiveInv, Unspoilt
    <2>3. ASSUME faults' = 0, NEW u \in Users, store'[u].session # None, ~IsActive(store[u].session)'
          PROVE  \E w \in Requests : where'[w] = "chat" /\ Sender(w)' = u /\ cmd'[w].op # "phone"
      <3>1. PICK w \in Requests : where[w] = "chat" /\ Sender(w) = u /\ cmd[w].op # "phone"
        BY <2>1, <2>3 DEF LiveInv, IsActive
      <3> QED BY <2>1, <3>1
    <2> QED BY <2>1, <2>2, <2>3 DEF LiveInv
  <1> QED BY <1>1, BotSteps, CallLive, TakeLive, ServeLive

\* As long as a customer's updates are handled one after the other, and until a
\* step fails, a customer of the bot has one active session at most: the session
\* a message names is the active one, or none is.
THEOREM OneSessionUnderTheBot == BotSpec /\ []OneHandlerPerCustomer => []AtMostOneActiveSession
  <1>1. LiveInv => AtMostOneActiveSession
    BY OneIsAtMostOne DEF LiveInv, OneInv, AtMostOneActiveSession, Unspoilt
  <1> QED BY <1>1, LiveInvInit, LiveInvStep, FreshInvariance, PTL DEF BotSpec

\* Nor is a handler refused: it is told of a failure only when a statement, a
\* transaction or the responder has failed.
THEOREM HandlersAreServed ==
    BotSpec /\ []OneHandlerPerCustomer =>
        [](faults = 0 => \A r \in Requests : where[r] = "chat" => pc[r] # "failed")
  <1>1. LiveInv => (faults = 0 => \A r \in Requests : where[r] = "chat" => pc[r] # "failed")
    BY DEF LiveInv
  <1> QED BY <1>1, LiveInvInit, LiveInvStep, FreshInvariance, PTL DEF BotSpec

\* The same condition gives the bot what ChatSessions promises of calls one after
\* the other.
THEOREM ResetsAndTicketsUnderTheBot ==
    BotSpec /\ []OneHandlerPerCustomer => []ResetStartsFresh /\ []TicketsFollowTheirSession
  BY BotUsesChatAsSpecified, OneHandlerIsOneCall, ResetIsFinal, TicketsFollow, PTL

\* When one update is handled at a time, no customer has two handlers.
THEOREM OneHandlerAtATime ==
    ASSUME MaxInFlight <= 1
    PROVE  BotSpec => []OneHandlerPerCustomer
  <1> DEFINE Alone == \A q, r \in Handlers : q = r
  <1>1. BotInit => Alone
    BY DEF BotInit, Handlers
  <1>2. ASSUME BotInv, Alone, [BotNext]_<<vars, bot>> PROVE Alone'
    <2>1. BotTypeOK
      BY <1>2 DEF BotInv
    <2>2. CASE \E r \in Requests : Receive(r)
      <3>1. PICK r \in Requests : Receive(r)
        BY <2>2
      <3>2. Handlers = {}
        <4>1. ASSUME NEW q \in Handlers PROVE FALSE
          <5>1. Handlers = {q}
            BY <1>2, <4>1
          <5>2. Cardinality(Handlers) = 1
            BY <5>1, FS_Singleton
          <5> QED BY <3>1, <5>2, ConstantsAssumption DEF Receive
        <4> QED BY <4>1
      <3>3. Handlers' \subseteq {r}
        BY <2>1, <3>1, <3>2 DEF Handlers, Receive, Move, BotTypeOK
      <3> QED BY <3>3
    <2>3. CASE \E r \in Requests : Handle(r)
      <3>1. PICK r \in Requests : Handle(r)
        BY <2>3
      <3>2. where[r] \notin {"queued", "returned"} /\ \E p : Move(r, p)
        BY <3>1 DEF Handle, ResetRating, MarkRated, CancelRating, TakeAwaitingProductSearch,
           AwaitProductSearch, CallChat, TakeResult, Reschedule, ArmTimer, HandlerReturns, At
      <3>3. Handlers' \subseteq Handlers
        BY <2>1, <3>2 DEF Handlers, Move, BotTypeOK
      <3> QED BY <1>2, <3>3
    <2>4. CASE where' = where
      BY <1>2, <2>4 DEF Handlers
    <2> QED BY <1>2, <2>2, <2>3, <2>4
        DEF BotNext, Serve, Ring, DelayPasses, TimerStops, TimerFires, AllQuiet, bot
  <1>3. Alone => OneHandlerPerCustomer
    BY DEF OneHandlerPerCustomer
  <1> HIDE DEF Alone
  <1> QED BY <1>1, <1>2, <1>3, BotInvariance, PTL DEF BotSpec

=============================================================================
