---------------------------- MODULE TelegramBot -----------------------------
(***************************************************************************)
(* The Telegram adapter around ChatSessions: handlers of updates run       *)
(* concurrently, keep UI state per customer in a UserStore and ask for a   *)
(* rating through RatingScheduler's timers.                                *)
(*                                                                         *)
(* Update r makes at most one call of the chat use case, which is request  *)
(* r of ChatSessions; its session id and its account come from the         *)
(* UserStore, its result goes back there.  Every operation of UserStore    *)
(* and RatingScheduler is one step, as each takes its own lock; a handler  *)
(* is interrupted between them.  The reply language and what only sends    *)
(* texts (/start, pickup and category keyboards) are left out; the menu    *)
(* button for a new chat behaves as /new.  The inactivity delay is not 0.  *)
(***************************************************************************)
EXTENDS ChatSessions

CONSTANT Kinds   \* the updates a run explores, a subset of Kind

\* Texts, the menu's buttons, /new, a contact, and the two inline keyboards that
\* change state.
Kind == {"message", "short", "callback", "search", "menu", "new", "contact", "order", "rating"}

ASSUME KindsAssumption ==
    /\ Kinds \subseteq Kind
    /\ None \notin [user : Users, kind : Kind]

VARIABLES
    where,      \* how far the handler of each update is
    update,     \* the update: who sent it and what it is
    store,      \* UserStore
    tasks,      \* RatingScheduler.tasks: the update whose timer is registered
    timer,      \* the rating timer an update armed
    cancelled,  \* updates whose timer's context is done
    asked       \* history: rating prompts delivered in this conversation

bot == <<where, update, store, tasks, timer, cancelled, asked>>

Customer == [phone    : BOOLEAN,               \* VerifiedPhone and SahiyUserID
             session  : SessionIds \cup {None},
             awaiting : BOOLEAN,               \* AwaitingProductSearch
             rated    : BOOLEAN,               \* RatedThisSession
             prompted : BOOLEAN]               \* RatingPromptSent

Places == {"queued", "reset", "cancel", "take", "await", "call", "chat",
           "markRated", "schedule", "arm", "return", "returned"}

Is(r, ks)    == update[r].kind \in ks
Sender(r)    == update[r].user
At(r, p)     == where[r] = p
Move(r, p)   == where' = [where EXCEPT ![r] = p]
Write(r, s)  == store' = [store EXCEPT ![Sender(r)] = s]
Handlers     == {r \in Requests : where[r] \notin {"queued", "returned"}}

-----------------------------------------------------------------------------
(* Handlers, step by step.                                                 *)

Receive(r) ==
    /\ At(r, "queued")
    /\ Cardinality(Handlers) < MaxInFlight
    /\ \E u \in Users, k \in Kinds :
          /\ update' = [update EXCEPT ![r] = [user |-> u, kind |-> k]]
          /\ Move(r, CASE k = "new" -> "reset"
                       [] k = "rating" -> "markRated"
                       [] k \in {"contact", "order"} -> "call"
                       [] OTHER -> "cancel")
    /\ UNCHANGED <<vars, store, tasks, timer, cancelled, asked>>

ResetRating(r) ==
    /\ At(r, "reset")
    /\ Write(r, [store[Sender(r)] EXCEPT !.rated = FALSE, !.prompted = FALSE])
    /\ asked' = [asked EXCEPT ![Sender(r)] = 0]
    /\ Move(r, "cancel")
    /\ UNCHANGED <<vars, update, tasks, timer, cancelled>>

MarkRated(r) ==
    /\ At(r, "markRated")
    /\ Write(r, [store[Sender(r)] EXCEPT !.rated = TRUE, !.prompted = TRUE])
    /\ Move(r, "cancel")
    /\ UNCHANGED <<vars, update, tasks, timer, cancelled, asked>>

\* RatingScheduler.Cancel
Cancel(u) ==
    /\ cancelled' = cancelled \cup ({tasks[u]} \ {None})
    /\ tasks' = [tasks EXCEPT ![u] = None]

CancelRating(r) ==
    /\ At(r, "cancel")
    /\ Cancel(Sender(r))
    /\ Move(r, CASE Is(r, {"message", "short"}) -> "take"
                 [] Is(r, {"search"}) -> "await"
                 [] Is(r, {"rating", "menu"}) -> "return"
                 [] OTHER -> "call")
    /\ UNCHANGED <<vars, update, store, timer, asked>>

\* A text too short to search for is taken back only when a search was awaited.
TakeAwaitingProductSearch(r) ==
    /\ At(r, "take")
    /\ Write(r, [store[Sender(r)] EXCEPT !.awaiting = FALSE])
    /\ Move(r, IF store[Sender(r)].awaiting /\ Is(r, {"short"}) THEN "await" ELSE "call")
    /\ UNCHANGED <<vars, update, tasks, timer, cancelled, asked>>

AwaitProductSearch(r) ==
    /\ At(r, "await")
    /\ Write(r, [store[Sender(r)] EXCEPT !.awaiting = TRUE])
    /\ Move(r, "return")
    /\ UNCHANGED <<vars, update, tasks, timer, cancelled, asked>>

\* Snapshot the customer and call the chat service with it.
CallChat(r) ==
    /\ At(r, "call")
    /\ Arrive(r)
    /\ LET c == cmd'[r]
           s == store[Sender(r)]
       IN /\ c.user = Sender(r)
          /\ c.channel = "telegram"
          /\ c.op = CASE Is(r, {"new"}) -> "reset" [] Is(r, {"contact"}) -> "phone" [] OTHER -> "reply"
          /\ c.hint = IF c.op = "reply" THEN s.session ELSE None
          /\ c.meta = (c.op = "reply" /\ s.phone)
    /\ Move(r, "chat")
    /\ UNCHANGED <<update, store, tasks, timer, cancelled, asked>>

\* The chat service at work.
Serve(r) ==
    /\ At(r, "chat")
    /\ Step(r) \/ Fault(r)
    /\ UNCHANGED bot

\* Mutant: the error text is not looked at.
RegisteredAnyhow(r) == TRUE

\* The markers were saved, so RegisterVerifiedPhone returned no error text.
Registered(r) == \E m \in messages : m.from = r /\ m.body = "userMarker"

SetSessionID(s, id) == [s EXCEPT !.session = id]

\* Mutant: the session is not forgotten.
ClearSessionForgotten(s) == s

ClearSession(s) == SetSessionID(s, None)

SetVerifiedPhone(s) == [s EXCEPT !.phone = TRUE]

\* SetSessionID, ClearSession or SetVerifiedPhone, when the call went well.
TakeResult(r) ==
    /\ At(r, "chat")
    /\ \/ /\ pc[r] = "failed" \/ (Is(r, {"contact"}) /\ pc[r] = "done" /\ ~Registered(r))
          /\ Move(r, "return")
          /\ UNCHANGED store
       \/ /\ pc[r] = "done"
          /\ \/ /\ Is(r, {"message", "short", "callback", "order"})
                /\ Write(r, SetSessionID(store[Sender(r)], mem[r].sid))
                /\ Move(r, IF Is(r, {"order"}) THEN "return" ELSE "schedule")
             \/ /\ Is(r, {"new"})
                /\ Write(r, ClearSession(store[Sender(r)]))
                /\ Move(r, "return")
             \/ /\ Is(r, {"contact"})
                /\ Registered(r)
                /\ Write(r, SetVerifiedPhone(store[Sender(r)]))
                /\ Move(r, "return")
    /\ UNCHANGED <<vars, update, tasks, timer, cancelled, asked>>

\* Schedule cancels the previous timer, then registers its own.
Reschedule(r) ==
    /\ At(r, "schedule")
    /\ Cancel(Sender(r))
    /\ Move(r, "arm")
    /\ UNCHANGED <<vars, update, store, timer, asked>>

ArmTimer(r) ==
    /\ At(r, "arm")
    /\ tasks' = [tasks EXCEPT ![Sender(r)] = r]
    /\ timer' = [timer EXCEPT ![r] = "armed"]
    /\ Move(r, "return")
    /\ UNCHANGED <<vars, update, store, cancelled, asked>>

\* withHandlerContext's deferred cancel ends the handler's context, and with it
\* the timer's, which is derived from it.
HandlerReturns(r) ==
    /\ At(r, "return")
    /\ cancelled' = cancelled \cup {r}
    /\ Move(r, "returned")
    /\ UNCHANGED <<vars, update, store, tasks, timer, asked>>

-----------------------------------------------------------------------------
(* The timer's goroutine.                                                  *)

DelayPasses(r) ==
    /\ timer[r] = "armed"
    /\ r \notin cancelled
    /\ timer' = [timer EXCEPT ![r] = "due"]
    /\ UNCHANGED <<vars, where, update, store, tasks, cancelled, asked>>

TimerStops(r) ==
    /\ timer[r] \in {"armed", "due"}
    /\ r \in cancelled
    /\ timer' = [timer EXCEPT ![r] = "over"]
    /\ UNCHANGED <<vars, where, update, store, tasks, cancelled, asked>>

\* Mutant: a prompt already sent does not count.
ClaimUnlessRated(s) == ~s.rated

ClaimRatingPrompt(s) == ~s.rated /\ ~s.prompted

\* sendRatingPrompt; a prompt sent with a context that is done does not arrive.
TimerFires(r) ==
    /\ timer[r] = "due"
    /\ timer' = [timer EXCEPT ![r] = "over"]
    /\ IF ClaimRatingPrompt(store[Sender(r)])
       THEN /\ Write(r, [store[Sender(r)] EXCEPT !.prompted = TRUE])
            /\ asked' = [asked EXCEPT ![Sender(r)] = @ + (IF r \in cancelled THEN 0 ELSE 1)]
       ELSE UNCHANGED <<store, asked>>
    /\ UNCHANGED <<vars, where, update, tasks, cancelled>>

-----------------------------------------------------------------------------
BotInit ==
    /\ Init
    /\ where = [r \in Requests |-> "queued"]
    /\ update = [r \in Requests |-> None]
    /\ store = [u \in Users |-> [phone |-> FALSE, session |-> None, awaiting |-> FALSE,
                                 rated |-> FALSE, prompted |-> FALSE]]
    /\ tasks = [u \in Users |-> None]
    /\ timer = [r \in Requests |-> "off"]
    /\ cancelled = {}
    /\ asked = [u \in Users |-> 0]

Handle(r) ==
    \/ ResetRating(r) \/ MarkRated(r) \/ CancelRating(r)
    \/ TakeAwaitingProductSearch(r) \/ AwaitProductSearch(r)
    \/ CallChat(r) \/ TakeResult(r)
    \/ Reschedule(r) \/ ArmTimer(r) \/ HandlerReturns(r)

Ring(r) == DelayPasses(r) \/ TimerStops(r) \/ TimerFires(r)

AllQuiet ==
    /\ \A r \in Requests : where[r] = "returned" /\ timer[r] \in {"off", "over"}
    /\ UNCHANGED <<vars, bot>>

BotNext ==
    \/ \E r \in Requests : Receive(r) \/ Handle(r) \/ Serve(r) \/ Ring(r)
    \/ TimePasses /\ UNCHANGED bot
    \/ AllQuiet

BotSpec == BotInit /\ [][BotNext]_<<vars, bot>>

\* Handlers run under a deadline and their goroutines are scheduled; so are the
\* timers'.  Nothing makes a customer write.
BotFairSpec ==
    /\ BotSpec
    /\ \A r \in Requests :
          /\ WF_<<vars, bot>>(Handle(r))
          /\ WF_<<vars, bot>>(At(r, "chat") /\ Step(r) /\ UNCHANGED bot)
          /\ WF_<<vars, bot>>(Ring(r))

-----------------------------------------------------------------------------
(* Properties.                                                             *)

\* Every variable of the adapter holds values of its type.
BotTypeOK ==
    /\ where \in [Requests -> Places]
    /\ update \in [Requests -> [user : Users, kind : Kinds] \cup {None}]
    /\ store \in [Users -> Customer]
    /\ tasks \in [Users -> Requests \cup {None}]
    /\ timer \in [Requests -> {"off", "armed", "due", "over"}]
    /\ cancelled \in SUBSET Requests
    /\ asked \in [Users -> Nat]

\* The session id remembered for a customer names a stored session of that
\* customer, whatever handlers overlap or fail: BelongsTo never refuses a
\* message the bot forwards, and it never opens a session under a stale id.
RememberedSessionIsOwn ==
    \A u \in Users : store[u].session # None =>
        /\ sessions[store[u].session] # None
        /\ sessions[store[u].session].user = u
        /\ sessions[store[u].session].channel = "telegram"

\* The bot vouches for an account only when a marker the identity service wrote
\* for that customer is stored, whatever handlers overlap and whichever commit is
\* lost; a call it does not vouch for reaches the responder on a stored message
\* with the form of a marker, which is one of the customer's own.
VouchedForIsStored ==
    \A r \in Requests :
        /\ cmd[r] # None /\ cmd[r].meta =>
              \E m \in messages : m.body = "userMarker" /\ cmd[m.from].user = cmd[r].user
        /\ pc[r] \in {"respond", "findTicket", "saveTicket"} /\ ~cmd[r].meta =>
              \E m \in messages : m.role = "user" /\ m.marks /\ cmd[m.from].user = cmd[r].user

\* ClaimRatingPrompt: "concurrent timers cannot ask the same user twice" in one
\* conversation.
AskedOncePerConversation == \A u \in Users : asked[u] <= 1

\* ClearSession "forgets the current conversation so the next message opens a
\* new one": a message that comes after /new has been answered is not put into a
\* conversation /new closed.
NextMessageOpensNew ==
    \A r \in Requests :
        At(r, "chat") /\ cmd[r].op = "reply" /\ mem[r] # None => mem[r].sid \notin avoid[r]

\* RatingScheduler "sends a delayed service-rating prompt after inactivity": a
\* registered timer that nobody cancels ends in a prompt, unless the customer
\* has been asked or has rated already.
InactiveCustomerIsAsked ==
    \A u \in Users, r \in Requests :
        tasks[u] = r ~> tasks[u] # r \/ store[u].prompted \/ store[u].rated

=============================================================================
