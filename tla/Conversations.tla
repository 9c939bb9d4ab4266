--------------------------- MODULE Conversations ----------------------------
(***************************************************************************)
(* What the chat use case promises of its tables, whichever calls overlap  *)
(* and whichever fail: a call writes in transactions of its own, each in   *)
(* one session of its customer; a session keeps its owner, a ticket is     *)
(* opened once and closed for good, and what a call says is one turn, told *)
(* in order, which is stored when its reply is returned.                   *)
(***************************************************************************)
EXTENDS Naturals

CONSTANTS Requests, SessionIds, Commands, None

VARIABLES
    sessions, messages, tickets,  \* the tables
    cmd,                          \* what each call was asked
    state                         \* new, running, done or failed

tables == <<sessions, messages, tickets>>
vars   == <<tables, cmd, state>>

Init ==
    /\ sessions = [s \in SessionIds |-> None]
    /\ messages = {}
    /\ tickets = [r \in Requests |-> None]
    /\ cmd = [r \in Requests |-> None]
    /\ state = [r \in Requests |-> "new"]

Begin(r) ==
    /\ state[r] = "new"
    /\ \E c \in Commands : cmd' = [cmd EXCEPT ![r] = c]
    /\ state' = [state EXCEPT ![r] = "running"]
    /\ UNCHANGED tables

Said(r) == {m \in messages : m.from = r}

\* A question, the markers of an identity and an answer, as far as they have come.
IsTurn(said, id) ==
    /\ \A m \in said : m.sid = id
    /\ \A m, n \in said : m.body = n.body => m = n
    /\ \A a \in said : a.body = "answer" => \E q \in said : q.body = "text" /\ q.at < a.at

IsOwn(r, id) == sessions[id] # None /\ sessions[id].user = cmd[r].user

\* Part of the turn is stored, in a session that is the customer's already or
\* becomes so; the session may be closed at once, or be reopened.
Store(r, id) ==
    /\ sessions[id] = None \/ IsOwn(r, id)
    /\ IsOwn(r, id)'
    /\ sessions' = [sessions EXCEPT ![id] = sessions'[id]]
    /\ \/ sessions[id] = None
       \/ \E st \in {"active", "closed"} : sessions'[id] = [sessions[id] EXCEPT !.status = st]
    /\ messages \subseteq messages'
    /\ \A m \in messages' : m \in messages \/ m.from = r
    /\ IsTurn(Said(r)', id)
    /\ UNCHANGED tickets

OpenTicket(r, id) ==
    /\ IsOwn(r, id)
    /\ tickets[r] = None
    /\ tickets' = [tickets EXCEPT ![r] = tickets'[r]]
    /\ tickets'[r] # None
    /\ tickets'[r].sid = id
    /\ tickets'[r].user = cmd[r].user
    /\ tickets'[r].status = "open"
    /\ UNCHANGED <<sessions, messages>>

CloseTickets(r, id) ==
    /\ IsOwn(r, id)
    /\ tickets' = [t \in Requests |->
           IF tickets[t] # None /\ tickets[t].sid = id
           THEN [tickets[t] EXCEPT !.status = "closed"] ELSE tickets[t]]
    /\ UNCHANGED <<sessions, messages>>

\* The call goes on, returns or fails; it may fail although the transaction was
\* committed.
Run(r) ==
    /\ state[r] = "running"
    /\ \/ UNCHANGED tables
       \/ \E id \in SessionIds : Store(r, id) \/ OpenTicket(r, id) \/ CloseTickets(r, id)
    /\ \E st \in {"running", "done", "failed"} : state' = [state EXCEPT ![r] = st]
    /\ state'[r] = "done" /\ cmd[r].op = "reply" => \E a \in messages' : a.body = "answer" /\ a.from = r
    /\ UNCHANGED cmd

Next == \E r \in Requests : Begin(r) \/ Run(r)

Spec == Init /\ [][Next]_vars

=============================================================================
