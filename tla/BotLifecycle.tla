---------------------------- MODULE BotLifecycle ----------------------------
(***************************************************************************)
(* The life of the bot's process and of the updates it handles: long       *)
(* polling until a signal, the drain that lets replies finish, and the     *)
(* delivery of a reply to Telegram, text by text, with retries.            *)
(*                                                                         *)
(* Telegram may refuse a request, or carry it out and its acknowledgement  *)
(* is lost.  Time is left out: the grace period and a handler's deadline   *)
(* may pass at any moment.  The typing indicator is left out.              *)
(*                                                                         *)
(* The library (go-telegram/bot, as New configures it: WithNotAsyncHandlers *)
(* is not among its options) runs every handler on a goroutine of its own. *)
(* A worker starts the handler and goes on, a worker that stops waits for  *)
(* none, and Start returns when every worker has stopped: a handler may    *)
(* still run then.                                                         *)
(***************************************************************************)
EXTENDS Integers, Sequences, FiniteSets

CONSTANTS
    Updates,        \* the updates that are sent to the bot
    Workers,        \* goroutines that start the handlers of updates
    Retries,        \* SendRetries
    Graces,         \* whether ShutdownGrace is positive: the settings to explore
    StreamEnabled,  \* whether a placeholder is sent first
    MaxExtras,      \* bound: texts after the main one of a reply
    MaxFaults       \* bound: faults of the network and panics

ASSUME LifecycleAssumption ==
    /\ IsFiniteSet(Updates)
    /\ Workers \in Nat \ {0} /\ Retries \in Nat \ {0}
    /\ Graces \subseteq BOOLEAN /\ StreamEnabled \in BOOLEAN
    /\ MaxExtras \in 0..4 /\ MaxFaults \in Nat

VARIABLES
    grace,     \* ShutdownGrace is positive
    run,       \* "polling", "exited" when Run has returned, "gone" with the process
    signalled, \* pollCtx is done
    stopped,   \* workers that have left their loop
    drain,     \* drainOnShutdown: "watching" pollCtx, "timing" the grace period, "over"
    base,      \* handlerBase, the parent of every handler's context
    expired,   \* updates whose own deadline has passed
    kind,      \* what an update is
    where,     \* how far its handler is
    todo,      \* the texts the handler still has to send
    attempt,   \* the attempt at the first of them
    known,     \* whether the placeholder's message id is known (sentMsg)
    seen,      \* copies of each text the customer sees
    plan,      \* history: the texts of the reply
    hiccups,   \* history: requests of the handler that failed
    faults     \* how many more may happen

process  == <<grace, run, signalled, stopped, drain, base>>
delivery == <<todo, attempt, known, seen, plan, hiccups>>
vars     == <<process, expired, kind, where, delivery, faults>>

\* A message of a customer, a button of the order menu, a button of the pickup
\* or category keyboards.
Kinds == {"message", "order", "keyboard"}

\* What deliverRichContent sends after the main text, in its order and all in
\* one way: a reply has some of them.
Extras == <<"card", "link", "followUp", "photo">>
Texts  == {"placeholder", "answer", "error"} \cup {Extras[i] : i \in 1..4}

Running == {u \in Updates : where[u] \notin {"queued", "returned"}}

Init ==
    /\ grace \in Graces
    /\ run = "polling" /\ signalled = FALSE /\ stopped = 0
    /\ drain = "watching" /\ base = "live"
    /\ expired = {}
    /\ kind = [u \in Updates |-> "none"]
    /\ where = [u \in Updates |-> "queued"]
    /\ todo = [u \in Updates |-> <<>>]
    /\ attempt = [u \in Updates |-> 1]
    /\ known = [u \in Updates |-> FALSE]
    /\ seen = [u \in Updates |-> [t \in Texts |-> 0]]
    /\ plan = [u \in Updates |-> {}]
    /\ hiccups = [u \in Updates |-> 0]
    /\ faults = MaxFaults

-----------------------------------------------------------------------------
(* Run and its drain                                                       *)

\* Mutant: handlers hang off the context of the signal.
SignalEndsHandlers ==
    /\ ~signalled
    /\ signalled' = TRUE
    /\ base' = "done"
    /\ UNCHANGED <<grace, run, stopped, drain, expired, kind, where, delivery, faults>>

\* SIGTERM or Stop; handlerBase drops the cancellation.
Signal ==
    /\ ~signalled
    /\ signalled' = TRUE
    /\ UNCHANGED <<grace, run, stopped, drain, base, expired, kind, where, delivery, faults>>

\* A worker chooses among what is ready, an update or the end of pollCtx.
WorkerStops ==
    /\ signalled /\ stopped < Workers
    /\ stopped' = stopped + 1
    /\ UNCHANGED <<grace, run, signalled, drain, base, expired, kind, where, delivery, faults>>

\* Start has returned, whatever its handlers do; Run's deferred calls end every
\* context.
RunReturns ==
    /\ run = "polling" /\ stopped = Workers
    /\ run' = "exited"
    /\ base' = "done"
    /\ UNCHANGED <<grace, signalled, stopped, drain, expired, kind, where, delivery, faults>>

\* main returns after Run.  Closing the pool may wait for the connection of a
\* handler; one that is just now without may be anywhere.
ProcessEnds ==
    /\ run = "exited"
    /\ run' = "gone"
    /\ UNCHANGED <<grace, signalled, stopped, drain, base, expired, kind, where, delivery, faults>>

\* drainOnShutdown ends handlerBase when the grace period is over, at once when
\* there is none; a base that Run has ended leaves it nothing to do.
DrainStarts ==
    /\ drain = "watching" /\ signalled /\ base = "live"
    /\ IF grace
       THEN drain' = "timing" /\ UNCHANGED base
       ELSE drain' = "over" /\ base' = "done"
    /\ UNCHANGED <<grace, run, signalled, stopped, expired, kind, where, delivery, faults>>

DrainEnds ==
    /\ drain = "timing" /\ base = "live"
    /\ drain' = "over"
    /\ base' = "done"
    /\ UNCHANGED <<grace, run, signalled, stopped, expired, kind, where, delivery, faults>>

-----------------------------------------------------------------------------
(* Handlers                                                                *)

\* handlerContext is done: its base is, or its own deadline has passed.
Cut(u) == base = "done" \/ u \in expired

Move(u, p)    == where' = [where EXCEPT ![u] = p]
Plan(u, texts) ==
    /\ todo' = [todo EXCEPT ![u] = texts]
    /\ attempt' = [attempt EXCEPT ![u] = 1]

DeadlinePasses(u) ==
    /\ u \in Running /\ ~Cut(u)
    /\ expired' = expired \cup {u}
    /\ UNCHANGED <<process, kind, where, delivery, faults>>

\* A worker that has not stopped starts the handler, however many run.
Take(u) ==
    /\ where[u] = "queued" /\ stopped < Workers
    /\ \E k \in Kinds :
          /\ kind' = [kind EXCEPT ![u] = k]
          /\ IF k = "message" /\ StreamEnabled
             THEN Move(u, "placeholder") /\ Plan(u, <<"placeholder">>)
             ELSE Move(u, "call") /\ UNCHANGED <<todo, attempt>>
    /\ UNCHANGED <<process, expired, known, seen, plan, hiccups, faults>>

\* A call on a context that is done fails; one that was begun before may not.
Call(u) ==
    /\ where[u] = "call"
    /\ Move(u, IF Cut(u) THEN "error" ELSE "wait")
    /\ UNCHANGED <<process, expired, kind, delivery, faults>>

Answered(u) ==
    /\ where[u] = "wait"
    /\ \E n \in 0..MaxExtras :
          LET texts == <<"answer">> \o SubSeq(Extras, 1, n)
          IN  /\ Plan(u, texts)
              /\ plan' = [plan EXCEPT ![u] = {texts[i] : i \in DOMAIN texts}]
    /\ Move(u, "deliver")
    /\ UNCHANGED <<process, expired, kind, known, seen, hiccups, faults>>

\* Only a message is answered with an apology; a button stays without effect.
Failed(u) ==
    /\ where[u] \in {"wait", "error"}
    /\ IF kind[u] = "message"
       THEN /\ Plan(u, <<"error">>)
            /\ plan' = [plan EXCEPT ![u] = {"error"}]
            /\ Move(u, "deliver")
       ELSE Move(u, "return") /\ UNCHANGED <<todo, attempt, plan>>
    /\ UNCHANGED <<process, expired, kind, known, seen, hiccups, faults>>

-----------------------------------------------------------------------------
(* Messenger                                                               *)

Text(u) == Head(todo[u])
Main(u) == Text(u) \in {"answer", "error"}

\* The keyboards' handlers ask Telegram to change their message only once.
Tries(u) == IF kind[u] = "keyboard" /\ Main(u) THEN 1 ELSE Retries

\* EditText puts the text in the place of the placeholder; a repetition of an
\* edit changes nothing.  SendText and SendPhoto add a message.
Shown(u) ==
    IF known[u] /\ Main(u)
    THEN IF seen[u][Text(u)] > 0 THEN seen
         ELSE [seen EXCEPT ![u]["placeholder"] = @ - 1, ![u][Text(u)] = 1]
    ELSE [seen EXCEPT ![u][Text(u)] = @ + 1]

\* The handler goes on with its next text, whether or not this one arrived.
NextText(u) ==
    /\ Plan(u, Tail(todo[u]))
    /\ IF Len(todo[u]) > 1 THEN UNCHANGED where
       ELSE Move(u, IF where[u] = "placeholder" THEN "call" ELSE "return")

\* Mutant: a text that is not acknowledged at once is given up.
RetryNever(u) == NextText(u) /\ UNCHANGED known

\* Mutant: there is always another attempt.
RetryForever(u) ==
    /\ attempt' = [attempt EXCEPT ![u] = Tries(u)]
    /\ UNCHANGED <<where, todo, known>>

\* Mutant: one attempt more than SendRetries.
RetryOnceMore(u) ==
    /\ IF attempt[u] <= Tries(u)
       THEN attempt' = [attempt EXCEPT ![u] = @ + 1] /\ UNCHANGED <<where, todo>>
       ELSE NextText(u)
    /\ UNCHANGED known

Retry(u) ==
    /\ IF attempt[u] < Tries(u)
       THEN attempt' = [attempt EXCEPT ![u] = @ + 1] /\ UNCHANGED <<where, todo>>
       ELSE NextText(u)
    /\ UNCHANGED known

Sending(u) == where[u] \in {"placeholder", "deliver"}

Acknowledged(u) ==
    /\ Sending(u) /\ ~Cut(u)
    /\ seen' = Shown(u)
    /\ known' = [known EXCEPT ![u] = @ \/ Text(u) = "placeholder"]
    /\ NextText(u)
    /\ UNCHANGED <<process, expired, kind, plan, hiccups, faults>>

Hiccup(u) ==
    /\ Sending(u) /\ ~Cut(u) /\ faults > 0
    /\ faults' = faults - 1
    /\ hiccups' = [hiccups EXCEPT ![u] = @ + 1]
    /\ seen' \in {seen, Shown(u)}
    /\ Retry(u)
    /\ UNCHANGED <<process, expired, kind, plan>>

\* On a context that is done every attempt fails at once; the pauses remain.
SendsInVain(u) ==
    /\ Sending(u) /\ Cut(u)
    /\ Retry(u)
    /\ UNCHANGED <<process, expired, kind, seen, plan, hiccups, faults>>

\* The handler and its context are gone; what the customer sees stays.
Ends(u) ==
    /\ Move(u, "returned")
    /\ Plan(u, <<>>)
    /\ expired' = expired \ {u}
    /\ kind' = [kind EXCEPT ![u] = "none"]
    /\ known' = [known EXCEPT ![u] = FALSE]
    /\ plan' = [plan EXCEPT ![u] = {}]
    /\ hiccups' = [hiccups EXCEPT ![u] = 0]
    /\ UNCHANGED <<process, seen>>

\* The rating timer is TelegramBot's.
Returns(u) == where[u] = "return" /\ Ends(u) /\ UNCHANGED faults

\* recoverPanics: the update is lost, the process is not.
Panics(u) ==
    /\ u \in Running /\ faults > 0 /\ run # "gone"
    /\ faults' = faults - 1
    /\ Ends(u)

-----------------------------------------------------------------------------
Handle(u) ==
    /\ run # "gone"
    /\ \/ Call(u) \/ Answered(u) \/ Failed(u)
       \/ Acknowledged(u) \/ Hiccup(u) \/ SendsInVain(u)
       \/ Returns(u)

Gone == run = "gone" /\ UNCHANGED vars

Next ==
    \/ Signal \/ WorkerStops \/ RunReturns \/ ProcessEnds \/ DrainStarts \/ DrainEnds
    \/ \E u \in Updates : Take(u) \/ DeadlinePasses(u) \/ Handle(u) \/ Panics(u)
    \/ Gone

Spec == Init /\ [][Next]_vars

\* A handler's goroutine is scheduled and its requests come back.  Nothing makes
\* the signal come, a deadline pass or the process end.
FairSpec == Spec /\ \A u \in Updates : WF_vars(Handle(u))

-----------------------------------------------------------------------------
(* Properties                                                              *)

TypeOK ==
    /\ grace \in Graces /\ run \in {"polling", "exited", "gone"} /\ signalled \in BOOLEAN
    /\ stopped \in 0..Workers
    /\ drain \in {"watching", "timing", "over"} /\ base \in {"live", "done"}
    /\ expired \subseteq Updates /\ kind \in [Updates -> Kinds \cup {"none"}]
    /\ where \in [Updates -> {"queued", "placeholder", "call", "wait", "error",
                              "deliver", "return", "returned"}]
    /\ todo \in [Updates -> Seq(Texts)]
    /\ attempt \in [Updates -> 1..Retries]
    /\ known \in [Updates -> BOOLEAN]
    /\ seen \in [Updates -> [Texts -> Nat]]
    /\ plan \in [Updates -> SUBSET Texts]
    /\ hiccups \in [Updates -> Nat]
    /\ faults \in 0..MaxFaults

\* A signal as such ends no handler's context: what ends it is its own deadline,
\* the drain, which waits for the grace period, or the return of Run.
ContextsOutliveTheSignal ==
    \A u \in Running : Cut(u) =>
        u \in expired \/ (signalled /\ (drain = "over" \/ run # "polling"))

\* A reply that was not cut short reaches the customer through every failure
\* the retries allow for: each text is shown, none more often than requests
\* failed, and the placeholder is gone unless its acknowledgement was lost.
ReplyIsShown ==
    \A u \in Updates :
        /\ where[u] = "return" /\ ~Cut(u)
        /\ hiccups[u] < (IF kind[u] = "keyboard" THEN 1 ELSE Retries)
        => /\ \A t \in plan[u] : seen[u][t] \in 1..(1 + hiccups[u])
           /\ seen[u]["placeholder"] <= hiccups[u]

\* A handler does not stay: through refused requests, lost acknowledgements,
\* its deadline and the end of its base it returns, unless the process ends
\* first.
HandlersEnd == \A u \in Updates : u \in Running ~> u \notin Running \/ run = "gone"

=============================================================================
