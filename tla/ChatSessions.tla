---------------------------- MODULE ChatSessions ----------------------------
(***************************************************************************)
(* The chat use case: ReplyService.Reply, ResetSession and                 *)
(* RegisterVerifiedPhone running concurrently over one Postgres database.  *)
(*                                                                         *)
(* Every handler call is a request with a program counter and its own      *)
(* in-memory copy of a Session aggregate (mem).  A step is one database    *)
(* statement or transaction, or one call to an outside service, with the   *)
(* in-memory work that follows it.  The tables are shared; nothing in the  *)
(* code locks a session between loading and saving it.                     *)
(*                                                                         *)
(* A UUID generated while serving request r is named r: session and ticket *)
(* ids of distinct requests never collide.  Callers may also name session  *)
(* ids of their own (ExternalIds).  Time is a logical clock that ticks     *)
(* when a created_at is taken.                                             *)
(***************************************************************************)
EXTENDS Naturals, FiniteSets

CONSTANTS
    Requests,       \* the handler calls
    Users,          \* customers
    ExternalIds,    \* session ids callers bring from outside
    Commands,       \* the calls a run explores, a subset of Command
    HistoryWindow,  \* messages loaded with a session (20 in the code)
    MaxInFlight,    \* how many calls may overlap
    MaxFaults,      \* how many steps may fail
    None            \* "no row", "no id", "not loaded"

Channels == {"telegram", "api"}

SessionIds == Requests \cup ExternalIds

\* What matters of a text: whether it carries an account id or a phone, whether
\* it carries nothing else, and whether it begins as an account's marker does.
Texts == {"plain", "account", "accountOnly", "phone", "phoneOnly", "marker"}

Command == [op      : {"reply", "reset", "phone"},
            user    : Users,
            channel : Channels,
            hint    : SessionIds \cup {None},  \* ReplyCommand.SessionID
            text    : Texts,
            meta    : BOOLEAN]   \* the transport supplied a sahiy_user_id

Message == [at   : Nat,          \* created_at, unique
            sid  : SessionIds,
            role : {"user", "assistant"},
            body : {"text", "phoneMarker", "userMarker", "answer"},
            from : Requests,     \* the request that appended it
            marks : BOOLEAN]     \* it has the form of an account's marker

Row == [user : Users, channel : Channels, status : {"active", "closed"}, at : Nat]

Session == [sid       : SessionIds,
            user      : Users,
            channel   : Channels,
            status    : {"active", "closed"},
            at        : Nat,
            persisted : BOOLEAN,
            pending   : SUBSET Message,
            known     : BOOLEAN] \* FromMessages found an account's marker

Ticket == [sid : SessionIds, user : Users, status : {"open", "closed"}, at : Nat]

Saving == {"saveClosed", "saveOpened", "saveMarkers", "saveReply", "saveContact"}
Ended  == {"done", "failed"}
Labels == {"new", "find", "load", "activity", "closeTickets", "gate", "respond",
           "findTicket", "saveTicket", "verify"} \cup Saving \cup Ended

ASSUME ConstantsAssumption ==
    /\ Commands \subseteq Command
    /\ HistoryWindow \in Nat
    /\ MaxInFlight \in Nat
    /\ MaxFaults \in Nat
    /\ None \notin SessionIds
    /\ None \notin Row
    /\ None \notin Session
    /\ None \notin Ticket
    /\ None \notin Command

VARIABLES
    sessions,    \* table chat_sessions
    messages,    \* table messages
    tickets,     \* table tickets, by the request that opened them
    clock,       \* the next created_at
    staleBefore, \* what is older than this is idleTimeout old
    pc,          \* where each request is
    cmd,         \* what it was asked
    mem,         \* its in-memory Session
    began,       \* the clock when it arrived
    faults,      \* failures so far
    retired,     \* history: sessions a finished ResetSession closed
    avoid        \* history: retired, as it was when the request arrived

tables == <<sessions, messages, tickets>>
time   == <<clock, staleBefore>>
past   == <<cmd, began, retired, avoid>>
vars   == <<tables, time, pc, mem, faults, past>>

-----------------------------------------------------------------------------
(* The Session aggregate.                                                  *)

OpenWithID(id, u, ch) ==
    [sid |-> id, user |-> u, channel |-> ch, status |-> "active", at |-> clock,
     persisted |-> FALSE, pending |-> {}, known |-> FALSE]

\* Messages and the identity they carry are filled in by LoadMessages.
Reconstitute(id) ==
    [sid |-> id, user |-> sessions[id].user, channel |-> sessions[id].channel,
     status |-> sessions[id].status, at |-> sessions[id].at,
     persisted |-> TRUE, pending |-> {}, known |-> FALSE]

\* A marker is an ordinary message of the user role: what the identity service
\* writes and a text the customer wrote are told apart by their beginning only.
Entry(s, r, t, role, body) ==
    [at |-> t, sid |-> s.sid, role |-> role, body |-> body, from |-> r,
     marks |-> body = "userMarker" \/ (body = "text" /\ cmd[r].text = "marker")]

Append(s, r, t, role, body) ==
    [s EXCEPT !.pending = @ \cup {Entry(s, r, t, role, body)}]

\* Mutants: a status the schema does not know; a session that is not closed.
CloseAsEnded(s) == [s EXCEPT !.status = "ended"]
CloseForgotten(s) == s

Close(s) == [s EXCEPT !.status = "closed"]

\* Mutant: the owner is not compared.
BelongsToAnyone(id, u) == TRUE

BelongsTo(id, u) == sessions[id].user = u

MarkPersisted(s) == [s EXCEPT !.persisted = TRUE, !.pending = {}]

-----------------------------------------------------------------------------
(* The repositories: the effect of one committed transaction.              *)

MessagesOf(id) == {m \in messages : m.sid = id}

Window(id) ==
    {m \in MessagesOf(id) :
        Cardinality({n \in MessagesOf(id) : n.at > m.at}) < HistoryWindow}

HasUserMarker(ms) == \E m \in ms : m.role = "user" /\ m.marks

\* Mutant: FindActive without user_id in its WHERE.
ActiveOfAnyone(u, ch) ==
    {s \in SessionIds : /\ sessions[s] # None
                        /\ sessions[s].channel = ch
                        /\ sessions[s].status = "active"}

ActiveOf(u, ch) ==
    {s \in SessionIds : /\ sessions[s] # None
                        /\ sessions[s].user = u
                        /\ sessions[s].channel = ch
                        /\ sessions[s].status = "active"}

\* ORDER BY created_at DESC LIMIT 1
IsFindActive(u, ch, s) ==
    /\ s \in ActiveOf(u, ch)
    /\ \A o \in ActiveOf(u, ch) : sessions[o].at <= sessions[s].at

\* The silence since the newest message has lasted idleTimeout; a session
\* without messages is never idle.
IsIdle(id) ==
    /\ MessagesOf(id) # {}
    /\ \A m \in MessagesOf(id) : m.at < staleBefore

\* Mutant: an upsert instead of an INSERT.
CanSaveOver(s) == TRUE

\* An INSERT conflicts with a row of the same id; an UPDATE writes only status.
CanSave(s) == s.persisted \/ sessions[s.sid] = None

\* Mutant: the UPDATE does not write the status.
SaveWithoutStatus(s) ==
    /\ sessions' = [sessions EXCEPT ![s.sid] =
           IF s.persisted THEN @
           ELSE [user |-> s.user, channel |-> s.channel, status |-> s.status, at |-> s.at]]
    /\ messages' = messages \cup s.pending

Save(s) ==
    /\ sessions' = [sessions EXCEPT ![s.sid] =
           IF s.persisted THEN [@ EXCEPT !.status = s.status]
           ELSE [user |-> s.user, channel |-> s.channel, status |-> s.status, at |-> s.at]]
    /\ messages' = messages \cup s.pending

IsOpenTicket(t, id) ==
    tickets[t] # None /\ tickets[t].sid = id /\ tickets[t].status # "closed"

\* Mutant: the tickets of a closed session stay open.
CloseNoTickets(id) == UNCHANGED tickets

CloseBySession(id) ==
    tickets' = [t \in Requests |->
        IF IsOpenTicket(t, id) THEN [tickets[t] EXCEPT !.status = "closed"] ELSE tickets[t]]

-----------------------------------------------------------------------------
(* Moving a request.                                                       *)

Goto(r, l)   == pc' = [pc EXCEPT ![r] = l]
Hold(r, s)   == mem' = [mem EXCEPT ![r] = s]
Tick(n)      == clock' = clock + n /\ UNCHANGED staleBefore
InFlight     == {r \in Requests : pc[r] \notin {"new"} \cup Ended}

Gate(r) == IF cmd[r].channel = "telegram" THEN "gate" ELSE "respond"

\* EnrichMetadata takes an account from all of the session's messages, loaded or
\* just appended.
Enriched(s) == [s EXCEPT !.known = @ \/ HasUserMarker(s.pending)]

\* Reply once its session is resolved: the user turn is appended, which a
\* closed session refuses, the metadata are enriched, and a new session is saved
\* before anything else.
StartTurn(r, s) ==
    IF s.status = "closed"
    THEN Goto(r, "failed") /\ Hold(r, s) /\ UNCHANGED time
    ELSE /\ Goto(r, IF s.persisted THEN Gate(r) ELSE "saveOpened")
         /\ Hold(r, Enriched(Append(s, r, clock, "user", "text")))
         /\ Tick(1)

\* Mutant: the answer goes to a fresh session when this one was closed meanwhile.
AnswerElsewhere(r, s, n) ==
    LET unused == CHOOSE id \in SessionIds : sessions[id] = None
        fresh == [s EXCEPT !.sid = unused, !.persisted = FALSE]
        to    == IF s.persisted /\ sessions[s.sid].status = "closed" THEN fresh ELSE s
    IN /\ Goto(r, "saveReply")
       /\ Hold(r, Append(to, r, clock + n, "assistant", "answer"))
       /\ Tick(n + 1)

\* completeReply up to its Save: the assistant turn is appended.
Answer(r, s, n) ==
    /\ Goto(r, "saveReply")
    /\ Hold(r, Append(s, r, clock + n, "assistant", "answer"))
    /\ Tick(n + 1)

Arrive(r) ==
    /\ pc[r] = "new"
    /\ Cardinality(InFlight) < MaxInFlight
    /\ \E c \in Commands :
          /\ c.hint \in Requests => sessions[c.hint] # None  \* learnt from a reply
          /\ cmd' = [cmd EXCEPT ![r] = c]
    /\ began' = [began EXCEPT ![r] = clock]
    /\ avoid' = [avoid EXCEPT ![r] = retired]
    /\ Goto(r, "find")
    /\ UNCHANGED <<tables, time, mem, faults, retired>>

-----------------------------------------------------------------------------
(* resolveSession and rotateIfIdle; ResetSession and RegisterVerifiedPhone *)
(* begin with the same query.                                              *)

ByHint(r) == cmd[r].op = "reply" /\ cmd[r].hint # None

FindSession(r) ==
    /\ pc[r] = "find"
    /\ LET u  == cmd[r].user
           ch == cmd[r].channel
           opened == OpenWithID(IF ByHint(r) THEN cmd[r].hint ELSE r, u, ch)
       IN \/ \E id \in SessionIds :
                /\ IF ByHint(r) THEN id = cmd[r].hint /\ sessions[id] # None
                                ELSE IsFindActive(u, ch, id)
                /\ Hold(r, Reconstitute(id))
                /\ Goto(r, "load")
                /\ UNCHANGED time
          \/ /\ IF ByHint(r) THEN sessions[cmd[r].hint] = None ELSE ActiveOf(u, ch) = {}
             /\ \/ cmd[r].op = "reply" /\ StartTurn(r, opened)
                \/ cmd[r].op = "reset" /\ Goto(r, "done") /\ UNCHANGED <<mem, time>>
                \/ cmd[r].op = "phone" /\ Goto(r, "verify") /\ Hold(r, opened) /\ Tick(1)
    /\ UNCHANGED <<tables, faults, past>>

LoadMessages(r) ==
    /\ pc[r] = "load"
    /\ LET s == [mem[r] EXCEPT !.known = HasUserMarker(Window(mem[r].sid))]
       IN \/ ByHint(r) /\ ~BelongsTo(s.sid, cmd[r].user) /\ Goto(r, "failed") /\ Hold(r, s)
          \/ /\ cmd[r].op = "reply"
             /\ ByHint(r) => BelongsTo(s.sid, cmd[r].user)
             /\ Goto(r, "activity")
             /\ Hold(r, s)
          \/ cmd[r].op = "reset" /\ Goto(r, "closeTickets") /\ Hold(r, Close(s))
          \/ cmd[r].op = "phone" /\ Goto(r, "verify") /\ Hold(r, s)
    /\ UNCHANGED <<tables, time, faults, past>>

CheckIdle(r) ==
    /\ pc[r] = "activity"
    /\ IF IsIdle(mem[r].sid)
       THEN Goto(r, "closeTickets") /\ Hold(r, Close(mem[r])) /\ UNCHANGED time
       ELSE StartTurn(r, mem[r])
    /\ UNCHANGED <<tables, faults, past>>

CloseTickets(r) ==
    /\ pc[r] = "closeTickets"
    /\ CloseBySession(mem[r].sid)
    /\ Goto(r, "saveClosed")
    /\ UNCHANGED <<sessions, messages, time, mem, faults, past>>

\* Rotation goes on with a fresh session; ResetSession is finished.
SaveClosed(r) ==
    /\ pc[r] = "saveClosed"
    /\ Save(mem[r])
    /\ IF cmd[r].op = "reset"
       THEN /\ Goto(r, "done")
            /\ retired' = retired \cup {mem[r].sid}
            /\ UNCHANGED <<mem, time>>
       ELSE /\ StartTurn(r, OpenWithID(r, mem[r].user, cmd[r].channel))
            /\ UNCHANGED retired
    /\ UNCHANGED <<tickets, faults, cmd, began, avoid>>

-----------------------------------------------------------------------------
(* Reply, from the resolved session to the saved answer.                   *)

SaveOpened(r) ==
    /\ pc[r] = "saveOpened"
    /\ IF CanSave(mem[r])
       THEN Save(mem[r]) /\ Hold(r, MarkPersisted(mem[r])) /\ Goto(r, Gate(r))
       ELSE Goto(r, "failed") /\ UNCHANGED <<sessions, messages, mem>>
    /\ UNCHANGED <<tickets, time, faults, past>>

Carries(r)      == cmd[r].text # "plain"
IdentityOnly(r) == cmd[r].text \in {"accountOnly", "phoneOnly"}
Identified(r)   == cmd[r].meta \/ mem[r].known

\* RegisterPhoneInSession appends two markers, RegisterSahiyUserIDInSession one.
Marked(r) ==
    IF cmd[r].text \in {"phone", "phoneOnly"} \/ cmd[r].op = "phone"
    THEN Append(Append(mem[r], r, clock, "user", "phoneMarker"), r, clock + 1, "user", "userMarker")
    ELSE Append(mem[r], r, clock, "user", "userMarker")

\* Mutant: the markers are left for completeReply to save.
PassGateUnsaved(r, s) == Goto(r, "respond") /\ Hold(r, s)

\* EnsureVerified: an unknown customer gets no further than a request for, a
\* rejection of, or an acknowledgement of an identity.
PassGate(r, s) ==
    /\ Goto(r, IF s.pending = {} THEN "respond" ELSE "saveMarkers")
    /\ Hold(r, s)

EnsureVerified(r) ==
    /\ pc[r] = "gate"
    /\ \/ Identified(r) /\ PassGate(r, mem[r]) /\ UNCHANGED time
       \/ ~Identified(r) /\ Answer(r, mem[r], 0)
       \/ ~Identified(r) /\ Carries(r) /\ ~IdentityOnly(r) /\ PassGate(r, Marked(r)) /\ Tick(2)
       \/ ~Identified(r) /\ Carries(r) /\ IdentityOnly(r) /\ Answer(r, Marked(r), 2)
    /\ UNCHANGED <<tables, faults, past>>

SaveMarkers(r) ==
    /\ pc[r] = "saveMarkers"
    /\ Save(mem[r])
    /\ Hold(r, MarkPersisted(mem[r]))
    /\ Goto(r, "respond")
    /\ UNCHANGED <<tickets, time, faults, past>>

\* Mutant: a responder that failed is tried again without end.
RespondAgain(r) ==
    /\ pc[r] = "respond"
    /\ \/ Answer(r, mem[r], 0)
       \/ Goto(r, "findTicket") /\ UNCHANGED <<mem, time>>
       \/ Goto(r, "gate") /\ UNCHANGED <<mem, time>>
    /\ UNCHANGED <<tables, faults, past>>

\* The responder answers by itself, or hands a ticket request to support.
Respond(r) ==
    /\ pc[r] = "respond"
    /\ \/ Answer(r, mem[r], 0)
       \/ Goto(r, "findTicket") /\ UNCHANGED <<mem, time>>
    /\ UNCHANGED <<tables, faults, past>>

FindTicket(r) ==
    /\ pc[r] = "findTicket"
    /\ IF \E t \in Requests : IsOpenTicket(t, mem[r].sid)
       THEN Answer(r, mem[r], 0)
       ELSE Goto(r, "saveTicket") /\ UNCHANGED <<mem, time>>
    /\ UNCHANGED <<tables, faults, past>>

OpenTicket(r) ==
    tickets' = [tickets EXCEPT ![r] =
        [sid |-> mem[r].sid, user |-> mem[r].user, status |-> "open", at |-> clock]]

\* tickets.session_id references chat_sessions.
SaveTicket(r) ==
    /\ pc[r] = "saveTicket"
    /\ IF sessions[mem[r].sid] # None
       THEN OpenTicket(r) /\ Answer(r, mem[r], 1)
       ELSE Goto(r, "failed") /\ UNCHANGED <<tickets, mem, time>>
    /\ UNCHANGED <<sessions, messages, faults, past>>

\* Mutant: the reply is returned without saving the session.
SaveReplyForgotten(r) ==
    /\ pc[r] = "saveReply"
    /\ Goto(r, "done")
    /\ UNCHANGED <<tables, mem, time, faults, past>>

SaveReply(r) ==
    /\ pc[r] = "saveReply"
    /\ Save(mem[r])
    /\ Hold(r, MarkPersisted(mem[r]))
    /\ Goto(r, "done")
    /\ UNCHANGED <<tickets, time, faults, past>>

-----------------------------------------------------------------------------
(* RegisterVerifiedPhone, once the session is found or opened.             *)

VerifyPhone(r) ==
    /\ pc[r] = "verify"
    /\ \/ Goto(r, "done") /\ UNCHANGED <<mem, time>>     \* an error text, nothing saved
       \/ Goto(r, "saveContact") /\ Hold(r, Marked(r)) /\ Tick(2)
    /\ UNCHANGED <<tables, faults, past>>

SaveContact(r) ==
    /\ pc[r] = "saveContact"
    /\ IF CanSave(mem[r])
       THEN Save(mem[r]) /\ Hold(r, MarkPersisted(mem[r])) /\ Goto(r, "done")
       ELSE Goto(r, "failed") /\ UNCHANGED <<sessions, messages, mem>>
    /\ UNCHANGED <<tickets, time, faults, past>>

-----------------------------------------------------------------------------
(* What can go wrong, and time.                                            *)

\* A query, a transaction or the responder fails, or the context expires.
\* Failing to close tickets is only logged.
Fault(r) ==
    /\ faults < MaxFaults
    /\ faults' = faults + 1
    /\ \/ /\ pc[r] \in {"find", "load", "activity", "respond", "findTicket", "saveTicket"} \cup Saving
          /\ Goto(r, "failed")
          /\ UNCHANGED <<tables, time>>
       \/ /\ pc[r] = "closeTickets"
          /\ Goto(r, "saveClosed")
          /\ UNCHANGED <<tables, time>>
       \/ /\ pc[r] \in Saving     \* COMMIT took effect, its acknowledgement was lost
          /\ CanSave(mem[r])
          /\ Save(mem[r])
          /\ Goto(r, "failed")
          /\ UNCHANGED <<tickets, time>>
       \/ /\ pc[r] = "saveTicket"
          /\ sessions[mem[r].sid] # None
          /\ OpenTicket(r)
          /\ Goto(r, "failed")
          /\ Tick(1)
          /\ UNCHANGED <<sessions, messages>>
    /\ UNCHANGED <<mem, past>>

\* idleTimeout goes by.  It is far longer than any call: what was written since
\* a running call arrived is not yet stale.
TimePasses ==
    /\ \E t \in (staleBefore + 1)..clock :
          /\ \A r \in InFlight : t <= began[r]
          /\ t = clock \/ \E r \in InFlight : t = began[r]
          /\ staleBefore' = t
    /\ UNCHANGED <<tables, clock, pc, mem, faults, past>>

Drained == (\A r \in Requests : pc[r] \in Ended) /\ UNCHANGED vars

-----------------------------------------------------------------------------
Init ==
    /\ sessions = [s \in SessionIds |-> None]
    /\ messages = {}
    /\ tickets = [r \in Requests |-> None]
    /\ clock = 0
    /\ staleBefore = 0
    /\ pc = [r \in Requests |-> "new"]
    /\ cmd = [r \in Requests |-> None]
    /\ mem = [r \in Requests |-> None]
    /\ began = [r \in Requests |-> 0]
    /\ faults = 0
    /\ retired = {}
    /\ avoid = [r \in Requests |-> {}]

\* One step of a running call.
Step(r) ==
    \/ FindSession(r) \/ LoadMessages(r) \/ CheckIdle(r)
    \/ CloseTickets(r) \/ SaveClosed(r) \/ SaveOpened(r)
    \/ EnsureVerified(r) \/ SaveMarkers(r) \/ Respond(r)
    \/ FindTicket(r) \/ SaveTicket(r) \/ SaveReply(r)
    \/ VerifyPhone(r) \/ SaveContact(r)

Next ==
    \/ \E r \in Requests : Arrive(r) \/ Step(r) \/ Fault(r)
    \/ TimePasses
    \/ Drained

Spec == Init /\ [][Next]_vars

\* Every call runs under a deadline: its next step is taken or fails.
FairSpec == Spec /\ \A r \in Requests : WF_vars(Step(r))

-----------------------------------------------------------------------------
(* Properties.                                                             *)

\* Every variable holds values of its type.
TypeOK ==
    /\ sessions \in [SessionIds -> Row \cup {None}]
    /\ messages \in SUBSET Message
    /\ tickets \in [Requests -> Ticket \cup {None}]
    /\ clock \in Nat
    /\ staleBefore \in Nat
    /\ pc \in [Requests -> Labels]
    /\ cmd \in [Requests -> Commands \cup {None}]
    /\ mem \in [Requests -> Session \cup {None}]
    /\ began \in [Requests -> Nat]
    /\ faults \in Nat
    /\ retired \in SUBSET SessionIds
    /\ avoid \in [Requests -> SUBSET SessionIds]

Answering == {"gate", "saveMarkers", "respond", "findTicket", "saveTicket", "saveReply"}

\* From the identity gate on, the session a call answers in has its row, so that
\* a ticket that references it can be inserted (service.go, "Persist a new
\* session before Respond").
SessionRowBeforeRespond ==
    \A r \in Requests : pc[r] \in Answering => sessions[mem[r].sid] # None

\* The responder works for a Telegram customer only when the transport named the
\* account or a stored message of the session has the form of its marker: what
\* the gate let through is in the history the next call will read, whatever
\* fails in between.
VerifiedBeforeRespond ==
    \A r \in Requests :
        pc[r] \in {"respond", "findTicket", "saveTicket"} /\ cmd[r].channel = "telegram" =>
            cmd[r].meta \/ HasUserMarker(MessagesOf(mem[r].sid))

\* "SahiyUserMessagePrefix marks a verified Sahiy user id in session history"
\* (markers.go:15): unless the transport named it, the account the responder
\* works for was written down by the identity service.
MarkersAreVerified ==
    \A r \in Requests :
        pc[r] \in {"respond", "findTicket", "saveTicket"} /\ cmd[r].channel = "telegram" =>
            cmd[r].meta \/ \E m \in MessagesOf(mem[r].sid) : m.body = "userMarker"

\* A stored answer follows the stored question of the same call in the same
\* session, and a call that returned a reply has stored it: no failure or
\* interleaving leaves an answer without its question, or a reply unsaved.
AnswersAreStoredTurns ==
    /\ \A a \in messages : a.body = "answer" =>
          \E q \in messages : q.body = "text" /\ q.from = a.from /\ q.sid = a.sid /\ q.at < a.at
    /\ \A r \in Requests : pc[r] = "done" /\ cmd[r].op = "reply" =>
          \E a \in messages : a.body = "answer" /\ a.from = r

\* The messages of one call lie in one session, one of each kind: rotating a
\* session in the middle of a call neither splits nor repeats the turn.
TurnsStayWhole ==
    \A m, n \in messages : m.from = n.from => m.sid = n.sid /\ (m.body = n.body => m = n)

\* Every message hangs on an existing session of the user who sent it, whichever
\* session id the call named.
MessagesBelongToTheirUser ==
    \A m \in messages : sessions[m.sid] # None /\ sessions[m.sid].user = cmd[m.from].user

\* However calls overlap and whatever fails, the tables change as if each call
\* wrote one turn, transaction by transaction, in sessions of its own customer: no
\* call touches a session or a ticket of another, a session never changes its
\* owner, channel or date and never goes away, a closed ticket stays closed, and a
\* call whose commit was lost left a turn others can read.
Conversation == INSTANCE Conversations WITH
    state <- [r \in Requests |-> IF pc[r] \in {"new"} \cup Ended THEN pc[r] ELSE "running"]
KeepsConversations == Conversation!Spec

\* A user has one active session on a channel at most: FindActive's ORDER BY
\* never has to choose.  (Calls that do not overlap.  A call that fails after it
\* rotated a session leaves its caller with the id of a closed, idle session,
\* and the next call that names it opens a second one.)
AtMostOneActiveSession ==
    faults = 0 \/ (\A r \in Requests : cmd[r] # None => cmd[r].hint = None) =>
        \A u \in Users, ch \in Channels : Cardinality(ActiveOf(u, ch)) <= 1

\* Once ResetSession has returned, no later call that names no session lands in
\* a session it closed: "the next Reply opens a fresh conversation".
ResetStartsFresh ==
    \A r \in Requests : mem[r] # None /\ cmd[r].hint = None => mem[r].sid \notin avoid[r]

\* A session has one open ticket at most, and none once it is closed.  (Calls
\* that do not overlap, and no failures: closing tickets is best effort.)
TicketsFollowTheirSession ==
    faults = 0 =>
        \A t \in Requests : tickets[t] # None /\ tickets[t].status = "open" =>
            /\ \A o \in Requests : IsOpenTicket(o, tickets[t].sid) => o = t
            /\ sessions[tickets[t].sid].status = "active"

\* Every call that arrives comes to an end.
EveryCallEnds == \A r \in Requests : pc[r] # "new" ~> pc[r] \in Ended

=============================================================================
