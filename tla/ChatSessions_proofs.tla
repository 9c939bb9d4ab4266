------------------------ MODULE ChatSessions_proofs ------------------------
(***************************************************************************)
(* Safety of the chat use case, for any number of calls, users and         *)
(* failures.  The tables only grow, so what a call has established about    *)
(* its session stays true while the others run; what remains is what each  *)
(* step does to the call that takes it.                                    *)
(***************************************************************************)
EXTENDS ChatSessions, FiniteSetTheorems, TLAPS

Holding == Labels \ ({"new", "find"} \cup Ended)
Stored  == Answering \cup {"load", "activity", "closeTickets", "saveClosed"}
Own     == Holding \ {"load"}

\* What call r knows of a session s it holds.
HeldBy(r, s) ==
    /\ s.persisted => sessions[s.sid] # None /\ sessions[s.sid].user = s.user
    /\ s.known => HasUserMarker(MessagesOf(s.sid) \cup s.pending)
    /\ \A p \in s.pending : p.sid = s.sid /\ p.from = r

Held(r) == mem[r] # None => HeldBy(r, mem[r])

\* What holds of a call at each of its steps.
CallInv(r) ==
    /\ pc[r] # "new" => cmd[r] # None
    /\ pc[r] \in Holding => mem[r] # None
    /\ Held(r)
    /\ pc[r] \in Stored => mem[r].persisted
    /\ pc[r] \in Own => mem[r].user = cmd[r].user
    /\ pc[r] = "load" /\ ~ByHint(r) => mem[r].user = cmd[r].user
    /\ pc[r] = "saveMarkers" =>
           cmd[r].meta \/ HasUserMarker(MessagesOf(mem[r].sid) \cup mem[r].pending)
    /\ pc[r] \in {"respond", "findTicket", "saveTicket"} /\ cmd[r].channel = "telegram" =>
           cmd[r].meta \/ HasUserMarker(MessagesOf(mem[r].sid))

MessagesInv ==
    \A m \in messages : /\ sessions[m.sid] # None
                        /\ pc[m.from] # "new"
                        /\ sessions[m.sid].user = cmd[m.from].user

IInv ==
    /\ TypeOK
    /\ MessagesInv
    /\ \A r \in Requests : CallInv(r)

-----------------------------------------------------------------------------
(* The tables only grow.                                                   *)

TablesGrow ==
    /\ messages \subseteq messages'
    /\ \A s \in SessionIds : sessions[s] # None =>
           /\ sessions'[s] # None
           /\ sessions'[s].user = sessions[s].user
           /\ sessions'[s].channel = sessions[s].channel
           /\ sessions'[s].at = sessions[s].at

\* Other calls do not disturb a call that stands still.
LEMMA Undisturbed ==
    ASSUME TypeOK, TablesGrow, NEW q \in Requests, CallInv(q),
           pc'[q] = pc[q], mem'[q] = mem[q], cmd'[q] = cmd[q]
    PROVE  CallInv(q)'
<1>1. CASE mem[q] = None
  BY <1>1 DEF CallInv, Held, Holding, Stored, Own, Answering, Labels, Saving, Ended, ByHint
<1>2. CASE mem[q] # None
  <2>1. mem[q] \in Session
    BY <1>2 DEF TypeOK
  <2>2. HasUserMarker(MessagesOf(mem[q].sid)) => HasUserMarker(MessagesOf(mem[q].sid))'
    BY DEF HasUserMarker, MessagesOf, TablesGrow
  <2>3. HasUserMarker(MessagesOf(mem[q].sid) \cup mem[q].pending)
          => HasUserMarker(MessagesOf(mem[q].sid) \cup mem[q].pending)'
    BY DEF HasUserMarker, MessagesOf, TablesGrow
  <2>4. Held(q)'
    BY <1>2, <2>1, <2>3 DEF CallInv, Held, HeldBy, TablesGrow, Session
  <2>5. QED
    BY <2>1, <2>2, <2>3, <2>4 DEF CallInv, ByHint
<1>3. QED
  BY <1>1, <1>2

\* A saved session is a well-typed row, its pending messages are stored, and
\* nothing that was stored is lost.
LEMMA SaveEffect ==
    ASSUME TypeOK, NEW s \in Session, CanSave(s), Save(s),
           s.persisted => sessions[s.sid] # None
    PROVE  /\ sessions' \in [SessionIds -> Row \cup {None}]
           /\ messages' \in SUBSET Message
           /\ messages' = messages \cup s.pending
           /\ sessions'[s.sid] # None
           /\ ~s.persisted => sessions'[s.sid].user = s.user
           /\ TablesGrow
<1>1. s.sid \in SessionIds /\ s.pending \subseteq Message
  BY DEF Session
<1>2. CASE s.persisted
  <2>1. sessions[s.sid] \in Row
    BY <1>1, <1>2 DEF TypeOK
  <2>2. sessions' = [sessions EXCEPT ![s.sid] = [@ EXCEPT !.status = s.status]]
    BY <1>2 DEF Save
  <2>3. sessions'[s.sid] \in Row
    BY <1>1, <2>1, <2>2 DEF Row, Session, TypeOK
  <2>4. QED
    BY <1>1, <1>2, <2>1, <2>2, <2>3, ConstantsAssumption DEF Save, TypeOK, TablesGrow, Row
<1>3. CASE ~s.persisted
  <2>1. sessions[s.sid] = None
    BY <1>3 DEF CanSave
  <2>2. sessions' = [sessions EXCEPT ![s.sid] =
           [user |-> s.user, channel |-> s.channel, status |-> s.status, at |-> s.at]]
    BY <1>3 DEF Save
  <2>3. sessions'[s.sid] \in Row /\ sessions'[s.sid].user = s.user
    BY <1>1, <2>2 DEF Row, Session, TypeOK
  <2>4. QED
    BY <1>1, <1>3, <2>1, <2>2, <2>3, ConstantsAssumption DEF Save, TypeOK, TablesGrow
<1>4. QED
  BY <1>2, <1>3

\* Appending keeps a session a session and changes only what is pending.
LEMMA AppendEffect ==
    ASSUME NEW s \in Session, NEW r \in Requests, NEW t \in Nat,
           NEW role \in {"user", "assistant"},
           NEW body \in {"text", "phoneMarker", "userMarker", "answer"}
    PROVE  /\ Append(s, r, t, role, body) \in Session
           /\ Append(s, r, t, role, body) # None
           /\ Append(s, r, t, role, body).sid = s.sid
           /\ Append(s, r, t, role, body).user = s.user
           /\ Append(s, r, t, role, body).persisted = s.persisted
           /\ Append(s, r, t, role, body).known = s.known
<1> DEFINE m == Entry(s, r, t, role, body)
<1>1. m \in Message
  BY DEF Entry, Message, Session
<1>2. Append(s, r, t, role, body) = [s EXCEPT !.pending = s.pending \cup {m}]
  BY DEF Append
<1>3. s.pending \cup {m} \in SUBSET Message
  BY <1>1 DEF Session
<1> HIDE DEF m
<1>4. [s EXCEPT !.pending = s.pending \cup {m}] \in Session
  BY <1>3 DEF Session
<1>5. QED
  BY <1>2, <1>4, ConstantsAssumption DEF Session, m

-----------------------------------------------------------------------------
(* What the shared pieces of the steps do.                                 *)

\* s2 is session s with more messages of call r pending.
Extends(r, s2, s) ==
    /\ s2 \in Session
    /\ s2 # None
    /\ s2.sid = s.sid
    /\ s2.user = s.user
    /\ s2.persisted = s.persisted
    /\ s2.known => s.known \/ HasUserMarker(s2.pending)
    /\ s.pending \subseteq s2.pending
    /\ \A p \in s2.pending : p \in s.pending \/ (p.sid = s.sid /\ p.from = r)

\* Appending a message extends a session.
LEMMA AppendExtends ==
    ASSUME NEW s \in Session, NEW r \in Requests, NEW t \in Nat,
           NEW role \in {"user", "assistant"},
           NEW body \in {"text", "phoneMarker", "userMarker", "answer"}
    PROVE  Extends(r, Append(s, r, t, role, body), s)
<1> DEFINE s2 == Append(s, r, t, role, body)
           m  == Entry(s, r, t, role, body)
<1>1. /\ s2 \in Session /\ s2 # None /\ s2.sid = s.sid /\ s2.user = s.user
      /\ s2.persisted = s.persisted /\ (s2.known => s.known)
  <2>1. s2 \in Session /\ s2 # None /\ s2.sid = s.sid
    BY AppendEffect
  <2>2. s2.user = s.user /\ s2.persisted = s.persisted /\ (s2.known => s.known)
    BY DEF Append, Session
  <2>3. QED
    BY <2>1, <2>2
<1>2. s2.pending = s.pending \cup {m} /\ m.sid = s.sid /\ m.from = r
  BY DEF Append, Entry, Session
<1> HIDE DEF s2, m
<1>3. QED
  BY <1>1, <1>2 DEF Extends, s2

\* An extension of an extension.
LEMMA ExtendsTwice ==
    ASSUME NEW r, NEW s, NEW s2, NEW s3, Extends(r, s2, s), Extends(r, s3, s2)
    PROVE  Extends(r, s3, s)
<1>1. HasUserMarker(s2.pending) => HasUserMarker(s3.pending)
  BY DEF Extends, HasUserMarker
<1>2. QED
  BY <1>1 DEF Extends

\* A session to which a user marker was appended has one pending.
LEMMA UserMarkerAppended ==
    ASSUME NEW s \in Session, NEW r \in Requests, NEW t \in Nat
    PROVE  HasUserMarker(Append(s, r, t, "user", "userMarker").pending)
<1> DEFINE m == Entry(s, r, t, "user", "userMarker")
<1>1. Append(s, r, t, "user", "userMarker").pending = s.pending \cup {m}
  BY DEF Append, Session
<1>2. m \in Append(s, r, t, "user", "userMarker").pending /\ m.role = "user" /\ m.marks
  BY <1>1 DEF Entry
<1>3. QED
  BY <1>2 DEF HasUserMarker

\* Enriching a session changes only what it knows.
LEMMA EnrichedEffect ==
    ASSUME NEW s \in Session
    PROVE  /\ Enriched(s) \in Session
           /\ Enriched(s) # None
           /\ Enriched(s).sid = s.sid
           /\ Enriched(s).user = s.user
           /\ Enriched(s).channel = s.channel
           /\ Enriched(s).status = s.status
           /\ Enriched(s).at = s.at
           /\ Enriched(s).persisted = s.persisted
           /\ Enriched(s).pending = s.pending
           /\ Enriched(s).known = (s.known \/ HasUserMarker(s.pending))
<1>1. PICK k \in BOOLEAN : k = (s.known \/ HasUserMarker(s.pending))
  BY DEF HasUserMarker
<1>2. Enriched(s) = [s EXCEPT !.known = k]
  BY <1>1 DEF Enriched
<1>3. [s EXCEPT !.known = k] \in Session
  BY DEF Session
<1>4. QED
  BY <1>1, <1>2, <1>3, ConstantsAssumption DEF Session

\* Enriching a session only lets it know of what is pending.
LEMMA EnrichedExtends ==
    ASSUME NEW s \in Session, NEW r \in Requests, NEW s2, Extends(r, s2, s)
    PROVE  Extends(r, Enriched(s2), s)
<1>1. s2 \in Session
  BY DEF Extends
<1>2. QED
  BY <1>1, EnrichedEffect DEF Extends

\* StartTurn goes to one of four steps with the given session, extended.
LEMMA StartTurnEffect ==
    ASSUME TypeOK, NEW r \in Requests, NEW s \in Session, StartTurn(r, s)
    PROVE  \E l \in {"failed", "saveOpened", "gate", "respond"}, s2 \in Session :
              /\ Goto(r, l) /\ Hold(r, s2) /\ Extends(r, s2, s)
              /\ l \in {"gate", "respond"} => s.persisted
              /\ l = "respond" => cmd[r].channel # "telegram"
              /\ clock' \in Nat /\ staleBefore' \in Nat
<1>1. clock \in Nat /\ staleBefore \in Nat
  BY DEF TypeOK
<1>2. CASE s.status = "closed"
  <2>1. Extends(r, s, s)
    BY ConstantsAssumption DEF Extends
  <2>2. QED
    BY <1>1, <1>2, <2>1 DEF StartTurn, time
<1>3. CASE s.status # "closed"
  <2> DEFINE s2 == Enriched(Append(s, r, clock, "user", "text"))
             l  == IF s.persisted THEN Gate(r) ELSE "saveOpened"
  <2>1. Extends(r, s2, s)
    BY <1>1, AppendExtends, EnrichedExtends
  <2>2. Goto(r, l) /\ Hold(r, s2) /\ Tick(1)
    BY <1>3 DEF StartTurn
  <2>3. clock' \in Nat /\ staleBefore' \in Nat
    BY <1>1, <2>2 DEF Tick
  <2>4. l \in {"failed", "saveOpened", "gate", "respond"}
    BY DEF Gate
  <2>5. l \in {"gate", "respond"} => s.persisted
    BY DEF Gate
  <2>6. l = "respond" => cmd[r].channel # "telegram"
    BY DEF Gate
  <2>7. s2 \in Session
    BY <2>1 DEF Extends
  <2> HIDE DEF s2, l
  <2>8. QED
    BY <2>1, <2>2, <2>3, <2>4, <2>5, <2>6, <2>7
<1>4. QED
  BY <1>2, <1>3

\* Answer goes on to save the given session, extended.
LEMMA AnswerEffect ==
    ASSUME TypeOK, NEW r \in Requests, NEW s \in Session, NEW n \in Nat, Answer(r, s, n)
    PROVE  \E s2 \in Session :
              /\ Goto(r, "saveReply") /\ Hold(r, s2) /\ Extends(r, s2, s)
              /\ clock' \in Nat /\ staleBefore' \in Nat
<1> DEFINE s2 == Append(s, r, clock + n, "assistant", "answer")
<1>1. clock \in Nat /\ staleBefore \in Nat
  BY DEF TypeOK
<1>2. Extends(r, s2, s)
  BY <1>1, AppendExtends
<1>3. s2 \in Session
  BY <1>2 DEF Extends
<1>4. Goto(r, "saveReply") /\ Hold(r, s2) /\ clock' \in Nat /\ staleBefore' \in Nat
  BY <1>1 DEF Answer, Tick
<1> HIDE DEF s2
<1>5. QED
  BY <1>2, <1>3, <1>4

\* Marked extends the session of the call and leaves a user marker pending.
LEMMA MarkedEffect ==
    ASSUME TypeOK, NEW r \in Requests, mem[r] \in Session
    PROVE  /\ Extends(r, Marked(r), mem[r])
           /\ HasUserMarker(Marked(r).pending)
<1>1. clock \in Nat /\ clock + 1 \in Nat
  BY DEF TypeOK
<1> DEFINE p  == Append(mem[r], r, clock, "user", "phoneMarker")
           pu == Append(p, r, clock + 1, "user", "userMarker")
           u  == Append(mem[r], r, clock, "user", "userMarker")
<1>2. Extends(r, p, mem[r]) /\ Extends(r, u, mem[r])
  BY <1>1, AppendExtends
<1>3. p \in Session
  BY <1>2 DEF Extends
<1>4. Extends(r, pu, p)
  <2> HIDE DEF p
  <2>1. QED
    BY <1>1, <1>3, AppendExtends
<1>5. Extends(r, pu, mem[r])
  <2> HIDE DEF p, pu
  <2>1. QED
    BY <1>2, <1>4, ExtendsTwice
<1>6. HasUserMarker(u.pending)
  BY <1>1, UserMarkerAppended
<1>7. HasUserMarker(pu.pending)
  BY <1>1, <1>3, UserMarkerAppended
<1>8. Marked(r) = pu \/ Marked(r) = u
  BY DEF Marked
<1> HIDE DEF p, pu, u
<1>9. QED
  BY <1>2, <1>5, <1>6, <1>7, <1>8

\* A session just opened is empty and not persisted.
LEMMA OpenedSession ==
    ASSUME TypeOK, NEW id \in SessionIds, NEW u \in Users, NEW ch \in Channels
    PROVE  /\ OpenWithID(id, u, ch) \in Session
           /\ OpenWithID(id, u, ch).sid = id
           /\ OpenWithID(id, u, ch).user = u
           /\ OpenWithID(id, u, ch).pending = {}
           /\ ~OpenWithID(id, u, ch).persisted
           /\ ~OpenWithID(id, u, ch).known
BY DEF OpenWithID, Session, TypeOK

-----------------------------------------------------------------------------
(* The shape of a step: the call that takes it moves, the others stand      *)
(* still, and the tables grow.                                             *)

Frame(r) == \A q \in Requests \ {r} :
                pc'[q] = pc[q] /\ mem'[q] = mem[q] /\ cmd'[q] = cmd[q]

GoodStep(r) == TypeOK' /\ MessagesInv' /\ CallInv(r)' /\ TablesGrow /\ Frame(r)

\* A good step of one call keeps the invariant of them all.
LEMMA GoodStepPreserves ==
    ASSUME IInv, NEW r \in Requests, GoodStep(r)
    PROVE  IInv'
<1>1. ASSUME NEW q \in Requests PROVE CallInv(q)'
  <2>1. CASE q = r
    BY <2>1 DEF GoodStep
  <2>2. CASE q # r
    BY <2>2, Undisturbed DEF GoodStep, Frame, IInv
  <2>3. QED
    BY <2>1, <2>2
<1>2. QED
  BY <1>1 DEF IInv, GoodStep

\* A step that stores nothing in sessions and messages.
LEMMA QuietStep ==
    ASSUME IInv, NEW r \in Requests, NEW l \in Labels \ {"new"}, NEW s \in Session \cup {None},
           sessions' = sessions, messages' = messages, cmd' = cmd,
           Goto(r, l), Hold(r, s)
    PROVE  /\ TablesGrow /\ Frame(r) /\ MessagesInv'
           /\ sessions' \in [SessionIds -> Row \cup {None}]
           /\ messages' \in SUBSET Message
           /\ pc' \in [Requests -> Labels] /\ mem' \in [Requests -> Session \cup {None}]
           /\ pc'[r] = l /\ mem'[r] = s
<1>1. TypeOK
  BY DEF IInv
<1>2. pc' = [pc EXCEPT ![r] = l] /\ mem' = [mem EXCEPT ![r] = s]
  BY DEF Goto, Hold
<1>3. Frame(r) /\ TablesGrow
  BY <1>1, <1>2 DEF TypeOK, Frame, TablesGrow
<1>4. MessagesInv'
  BY <1>1, <1>2 DEF IInv, TypeOK, MessagesInv, Message
<1>5. QED
  BY <1>1, <1>2, <1>3, <1>4 DEF TypeOK

\* A step that commits the session a call holds.
LEMMA SavingStep ==
    ASSUME IInv, NEW r \in Requests, NEW l \in Labels \ {"new"}, NEW s \in Session \cup {None},
           pc[r] \in Own, CanSave(mem[r]), Save(mem[r]), cmd' = cmd,
           Goto(r, l), Hold(r, s)
    PROVE  /\ TablesGrow /\ Frame(r) /\ MessagesInv'
           /\ sessions' \in [SessionIds -> Row \cup {None}]
           /\ messages' \in SUBSET Message
           /\ messages' = messages \cup mem[r].pending
           /\ sessions'[mem[r].sid] # None
           /\ sessions'[mem[r].sid].user = mem[r].user
           /\ pc' \in [Requests -> Labels] /\ mem' \in [Requests -> Session \cup {None}]
           /\ pc'[r] = l /\ mem'[r] = s
<1>1. TypeOK /\ CallInv(r) /\ MessagesInv
  BY DEF IInv
<1>2. pc' = [pc EXCEPT ![r] = l] /\ mem' = [mem EXCEPT ![r] = s]
  BY DEF Goto, Hold
<1>3. mem[r] \in Session /\ mem[r] # None
  BY <1>1 DEF TypeOK, CallInv, Own
<1>4. Held(r)
  BY <1>1 DEF CallInv
<1>5. mem[r].persisted => sessions[mem[r].sid] # None /\ sessions[mem[r].sid].user = mem[r].user
  BY <1>3, <1>4 DEF Held, HeldBy
<1>6. /\ sessions' \in [SessionIds -> Row \cup {None}]
      /\ messages' \in SUBSET Message
      /\ messages' = messages \cup mem[r].pending
      /\ sessions'[mem[r].sid] # None
      /\ ~mem[r].persisted => sessions'[mem[r].sid].user = mem[r].user
      /\ TablesGrow
  BY <1>1, <1>3, <1>5, SaveEffect
<1>7. mem[r].sid \in SessionIds
  BY <1>3 DEF Session
<1>8. sessions'[mem[r].sid].user = mem[r].user
  BY <1>5, <1>6, <1>7 DEF TablesGrow
<1>9. Frame(r)
  BY <1>1, <1>2 DEF TypeOK, Frame
<1>10. \A p \in mem[r].pending : p.sid = mem[r].sid /\ p.from = r
  BY <1>3, <1>4 DEF Held, HeldBy
<1>11. mem[r].user = cmd[r].user
  BY <1>1 DEF CallInv
<1>12. pc'[r] # "new"
  BY <1>1, <1>2 DEF TypeOK
<1>13. ASSUME NEW m \in messages'
       PROVE  sessions'[m.sid] # None /\ pc'[m.from] # "new" /\ sessions'[m.sid].user = cmd'[m.from].user
  <2>1. CASE m \in messages
    <3>1. m.sid \in SessionIds /\ m.from \in Requests
      BY <1>1, <2>1 DEF TypeOK, Message
    <3>2. sessions[m.sid] # None /\ pc[m.from] # "new" /\ sessions[m.sid].user = cmd[m.from].user
      BY <1>1, <2>1 DEF MessagesInv
    <3>3. pc'[m.from] # "new"
      BY <1>1, <1>2, <3>1, <3>2 DEF TypeOK
    <3>4. QED
      BY <1>6, <3>1, <3>2, <3>3 DEF TablesGrow
  <2>2. CASE m \in mem[r].pending
    BY <1>6, <1>8, <1>10, <1>11, <1>12, <2>2
  <2>3. QED
    BY <1>6, <1>13, <2>1, <2>2
<1>14. MessagesInv'
  BY <1>13 DEF MessagesInv
<1>15. QED
  BY <1>1, <1>2, <1>6, <1>8, <1>9, <1>14 DEF TypeOK

-----------------------------------------------------------------------------
(* What a call knows of its session survives its own steps.                *)

\* What a call knows of its session holds of an extension of it.
LEMMA HeldExtended ==
    ASSUME TablesGrow, NEW r \in Requests, NEW s \in Session, NEW s2,
           HeldBy(r, s), Extends(r, s2, s), mem'[r] = s2
    PROVE  Held(r)'
<1>1. HasUserMarker(MessagesOf(s.sid) \cup s.pending)
          => HasUserMarker(MessagesOf(s2.sid) \cup s2.pending)'
  BY DEF Extends, TablesGrow, HasUserMarker, MessagesOf
<1>2. HasUserMarker(s2.pending) => HasUserMarker(MessagesOf(s2.sid) \cup s2.pending)'
  BY DEF HasUserMarker
<1>3. HeldBy(r, s2)'
  BY <1>1, <1>2 DEF HeldBy, Extends, TablesGrow, Session
<1>4. QED
  BY <1>3 DEF Held

\* Of a fresh session nothing needs to be known.
LEMMA HeldFresh ==
    ASSUME NEW r \in Requests, NEW s \in Session, NEW s2,
           ~s.persisted, ~s.known, s.pending = {}, Extends(r, s2, s), mem'[r] = s2
    PROVE  Held(r)'
<1>1. HeldBy(r, s2)'
  BY DEF HeldBy, Extends, HasUserMarker
<1>2. QED
  BY <1>1 DEF Held

\* MarkPersisted changes only persisted and pending.
LEMMA MarkPersistedEffect ==
    ASSUME NEW s \in Session
    PROVE  /\ MarkPersisted(s) \in Session
           /\ MarkPersisted(s).sid = s.sid
           /\ MarkPersisted(s).user = s.user
           /\ MarkPersisted(s).known = s.known
           /\ MarkPersisted(s).persisted
           /\ MarkPersisted(s).pending = {}
BY DEF MarkPersisted, Session

\* Closing a session changes only its status.
LEMMA CloseEffect ==
    ASSUME NEW r \in Requests, NEW s \in Session
    PROVE  Close(s) \in Session /\ Extends(r, Close(s), s)
<1>1. Close(s) \in Session
  BY DEF Close, Session
<1>2. QED
  BY <1>1, ConstantsAssumption DEF Close, Extends, Session

\* After a save, what was known of the session holds of the persisted one.
LEMMA HeldSaved ==
    ASSUME TablesGrow, NEW r \in Requests, NEW s \in Session, HeldBy(r, s),
           sessions'[s.sid] # None, sessions'[s.sid].user = s.user,
           messages' = messages \cup s.pending, mem'[r] = MarkPersisted(s)
    PROVE  Held(r)'
<1>1. HasUserMarker(MessagesOf(s.sid) \cup s.pending) => HasUserMarker(MessagesOf(s.sid) \cup {})'
  BY DEF HeldBy, HasUserMarker, MessagesOf
<1>2. HeldBy(r, MarkPersisted(s))'
  BY <1>1, MarkPersistedEffect DEF HeldBy
<1>3. QED
  BY <1>2 DEF Held

-----------------------------------------------------------------------------
(* The steps.                                                              *)

\* A call that arrives holds no session.
LEMMA ArriveGood ==
    ASSUME IInv, NEW r \in Requests, Arrive(r)
    PROVE  GoodStep(r)
<1> USE DEF Arrive, Goto, tables, time
<1>1. TypeOK /\ MessagesInv /\ CallInv(r)
  BY DEF IInv
<1>2. PICK c \in Commands : cmd' = [cmd EXCEPT ![r] = c]
  BY DEF Arrive
<1>3. cmd'[r] = c /\ c # None /\ pc'[r] = "find" /\ pc[r] = "new"
  BY <1>1, <1>2, ConstantsAssumption DEF TypeOK
<1>4. TypeOK'
  BY <1>1, <1>2 DEF TypeOK, Labels
<1>5. TablesGrow /\ Frame(r)
  BY <1>1, <1>2 DEF TablesGrow, Frame, TypeOK
<1>6. MessagesInv'
  <2>1. \A m \in messages : m.from \in Requests /\ m.from # r
    BY <1>1, <1>3 DEF MessagesInv, TypeOK, Message
  <2>2. QED
    BY <1>1, <1>2, <2>1 DEF MessagesInv, TypeOK
<1>7. Held(r)'
  BY <1>1, <1>5 DEF CallInv, Held, HeldBy, HasUserMarker, MessagesOf
<1>8. CallInv(r)'
  BY <1>3, <1>7 DEF CallInv, Holding, Stored, Own, Answering, Labels, Saving, Ended
<1>9. QED
  BY <1>4, <1>5, <1>6, <1>8 DEF GoodStep

\* What every step but Arrive may assume of the call that takes it.
LEMMA AtWork ==
    ASSUME IInv, NEW r \in Requests, pc[r] # "new"
    PROVE  /\ TypeOK /\ MessagesInv /\ CallInv(r)
           /\ cmd[r] \in Command /\ cmd[r] # None
           /\ cmd[r].user \in Users /\ cmd[r].channel \in Channels
           /\ pc[r] \in Holding => mem[r] \in Session /\ mem[r] # None /\ HeldBy(r, mem[r])
           /\ pc[r] \in Holding => mem[r].sid \in SessionIds
<1>1. TypeOK /\ MessagesInv /\ CallInv(r)
  BY DEF IInv
<1>2. cmd[r] # None
  BY <1>1 DEF CallInv
<1>3. cmd[r] \in Command
  BY <1>1, <1>2, ConstantsAssumption DEF TypeOK
<1>4. cmd[r].user \in Users /\ cmd[r].channel \in Channels
  BY <1>3 DEF Command
<1>5. ASSUME pc[r] \in Holding
      PROVE  mem[r] \in Session /\ mem[r] # None /\ HeldBy(r, mem[r]) /\ mem[r].sid \in SessionIds
  BY <1>1, <1>5 DEF CallInv, TypeOK, Held, Session
<1>6. QED
  BY <1>1, <1>2, <1>3, <1>4, <1>5

\* The session found is the stored one, the session opened a fresh one.
LEMMA FindSessionGood ==
    ASSUME IInv, NEW r \in Requests, FindSession(r)
    PROVE  GoodStep(r)
<1>1. /\ TypeOK /\ MessagesInv /\ CallInv(r)
      /\ cmd[r] \in Command /\ cmd[r] # None
      /\ cmd[r].user \in Users /\ cmd[r].channel \in Channels
  BY AtWork DEF FindSession
<1>2. /\ sessions' = sessions /\ messages' = messages /\ tickets' = tickets /\ cmd' = cmd
      /\ began' = began /\ faults' = faults /\ retired' = retired /\ avoid' = avoid
  BY DEF FindSession, tables, past
<1> DEFINE id0 == IF ByHint(r) THEN cmd[r].hint ELSE r
           opened == OpenWithID(id0, cmd[r].user, cmd[r].channel)
<1>3. /\ opened \in Session /\ opened.user = cmd[r].user
      /\ ~opened.persisted /\ ~opened.known /\ opened.pending = {}
  <2>1. id0 \in SessionIds
    BY <1>1 DEF SessionIds, ByHint, Command
  <2> HIDE DEF id0
  <2>2. QED
    BY <1>1, <2>1, OpenedSession
<1>4. CASE \E id \in SessionIds :
              /\ IF ByHint(r) THEN id = cmd[r].hint /\ sessions[id] # None
                              ELSE IsFindActive(cmd[r].user, cmd[r].channel, id)
              /\ Hold(r, Reconstitute(id))
              /\ Goto(r, "load")
              /\ UNCHANGED time
  <2>1. PICK id \in SessionIds :
              /\ IF ByHint(r) THEN id = cmd[r].hint /\ sessions[id] # None
                              ELSE IsFindActive(cmd[r].user, cmd[r].channel, id)
              /\ Hold(r, Reconstitute(id))
              /\ Goto(r, "load")
              /\ UNCHANGED time
    BY <1>4
  <2>2. sessions[id] # None /\ sessions[id] \in Row
    BY <1>1, <2>1 DEF IsFindActive, ActiveOf, TypeOK
  <2>3. ~ByHint(r) => sessions[id].user = cmd[r].user
    BY <2>1 DEF IsFindActive, ActiveOf
  <2> DEFINE s == Reconstitute(id)
  <2>4. /\ s \in Session /\ s # None /\ s.persisted /\ ~s.known /\ s.pending = {}
        /\ s.sid = id /\ s.user = sessions[id].user
    <3>1. s \in Session
      BY <2>2 DEF Reconstitute, Session, Row
    <3>2. s.persisted /\ ~s.known /\ s.pending = {} /\ s.sid = id /\ s.user = sessions[id].user
      BY DEF Reconstitute
    <3>3. QED
      BY <3>1, <3>2, ConstantsAssumption
  <2> HIDE DEF s
  <2>5. Hold(r, s) /\ Goto(r, "load")
    BY <2>1 DEF s
  <2>6. /\ TablesGrow /\ Frame(r) /\ MessagesInv'
        /\ sessions' \in [SessionIds -> Row \cup {None}]
        /\ messages' \in SUBSET Message
        /\ pc' \in [Requests -> Labels] /\ mem' \in [Requests -> Session \cup {None}]
        /\ pc'[r] = "load" /\ mem'[r] = s
    BY <1>2, <2>4, <2>5, QuietStep DEF Labels
  <2>7. TypeOK'
    BY <1>1, <1>2, <2>1, <2>6 DEF TypeOK, time
  <2>8. Held(r)'
    BY <1>2, <2>2, <2>4, <2>6 DEF Held, HeldBy
  <2>9. CallInv(r)'
    BY <1>1, <1>2, <2>3, <2>4, <2>6, <2>8
       DEF CallInv, Holding, Stored, Own, Answering, Labels, Saving, Ended, ByHint
  <2>10. QED
    BY <2>6, <2>7, <2>9 DEF GoodStep
<1>5. CASE cmd[r].op = "reply" /\ StartTurn(r, opened)
  <2> HIDE DEF opened
  <2>1. PICK l \in {"failed", "saveOpened", "gate", "respond"}, s2 \in Session :
              /\ Goto(r, l) /\ Hold(r, s2) /\ Extends(r, s2, opened)
              /\ l \in {"gate", "respond"} => opened.persisted
              /\ clock' \in Nat /\ staleBefore' \in Nat
    BY <1>1, <1>3, <1>5, StartTurnEffect
  <2>2. l \in {"failed", "saveOpened"}
    BY <1>3, <2>1
  <2>3. /\ TablesGrow /\ Frame(r) /\ MessagesInv'
        /\ sessions' \in [SessionIds -> Row \cup {None}]
        /\ messages' \in SUBSET Message
        /\ pc' \in [Requests -> Labels] /\ mem' \in [Requests -> Session \cup {None}]
        /\ pc'[r] = l /\ mem'[r] = s2
    <3>1. l \in Labels \ {"new"}
      BY <2>2 DEF Labels, Saving, Ended
    <3>2. QED
      BY <1>2, <2>1, <3>1, QuietStep
  <2>4. TypeOK'
    BY <1>1, <1>2, <2>1, <2>3 DEF TypeOK
  <2>5. Held(r)'
    BY <1>3, <2>1, <2>3, HeldFresh
  <2>6. CallInv(r)'
    BY <1>1, <1>2, <1>3, <2>1, <2>2, <2>3, <2>5
       DEF CallInv, Holding, Stored, Own, Answering, Labels, Saving, Ended, Extends
  <2>7. QED
    BY <2>3, <2>4, <2>6 DEF GoodStep
<1>6. CASE cmd[r].op = "reset" /\ Goto(r, "done") /\ UNCHANGED <<mem, time>>
  <2>1. Hold(r, mem[r]) /\ mem[r] \in Session \cup {None}
    BY <1>1, <1>6 DEF Hold, TypeOK
  <2>2. /\ TablesGrow /\ Frame(r) /\ MessagesInv'
        /\ sessions' \in [SessionIds -> Row \cup {None}]
        /\ messages' \in SUBSET Message
        /\ pc' \in [Requests -> Labels] /\ mem' \in [Requests -> Session \cup {None}]
        /\ pc'[r] = "done" /\ mem'[r] = mem[r]
    BY <1>2, <1>6, <2>1, QuietStep DEF Labels, Ended
  <2>3. TypeOK'
    BY <1>1, <1>2, <1>6, <2>2 DEF TypeOK, time
  <2>4. Held(r)'
    BY <1>1, <1>2, <2>2 DEF CallInv, Held, HeldBy, HasUserMarker, MessagesOf
  <2>5. CallInv(r)'
    BY <1>1, <1>2, <2>2, <2>4
       DEF CallInv, Holding, Stored, Own, Answering, Labels, Saving, Ended
  <2>6. QED
    BY <2>2, <2>3, <2>5 DEF GoodStep
<1>7. CASE cmd[r].op = "phone" /\ Goto(r, "verify") /\ Hold(r, opened) /\ Tick(1)
  <2> HIDE DEF opened
  <2>1. /\ TablesGrow /\ Frame(r) /\ MessagesInv'
        /\ sessions' \in [SessionIds -> Row \cup {None}]
        /\ messages' \in SUBSET Message
        /\ pc' \in [Requests -> Labels] /\ mem' \in [Requests -> Session \cup {None}]
        /\ pc'[r] = "verify" /\ mem'[r] = opened
    BY <1>2, <1>3, <1>7, QuietStep DEF Labels
  <2>2. TypeOK'
    BY <1>1, <1>2, <1>7, <2>1 DEF TypeOK, Tick
  <2>3. Extends(r, opened, opened) /\ opened # None
    BY <1>3, ConstantsAssumption DEF Extends
  <2>4. Held(r)'
    BY <1>3, <2>1, <2>3, HeldFresh
  <2>5. CallInv(r)'
    BY <1>1, <1>2, <1>3, <2>1, <2>3, <2>4
       DEF CallInv, Holding, Stored, Own, Answering, Labels, Saving, Ended
  <2>6. QED
    BY <2>1, <2>2, <2>5 DEF GoodStep
<1>8. QED
  BY <1>4, <1>5, <1>6, <1>7 DEF FindSession

\* A step that stores nothing and leaves the call with the same session, perhaps
\* with more pending.
LEMMA QuietGood ==
    ASSUME IInv, NEW r \in Requests, pc[r] \in Holding,
           NEW l \in Labels \ {"new", "load"}, NEW s \in Session,
           Goto(r, l), Hold(r, s), Extends(r, s, mem[r]),
           sessions' = sessions, messages' = messages,
           tickets' \in [Requests -> Ticket \cup {None}],
           clock' \in Nat, staleBefore' \in Nat, faults' \in Nat,
           cmd' = cmd, began' = began, retired' = retired, avoid' = avoid,
           l \in Stored => mem[r].persisted,
           l \in Own => mem[r].user = cmd[r].user,
           l = "saveMarkers" => \/ cmd[r].meta
                                \/ HasUserMarker(MessagesOf(mem[r].sid))
                                \/ HasUserMarker(s.pending),
           l \in {"respond", "findTicket", "saveTicket"} /\ cmd[r].channel = "telegram" =>
               cmd[r].meta \/ HasUserMarker(MessagesOf(mem[r].sid))
    PROVE  GoodStep(r)
<1>1. pc[r] # "new"
  BY DEF Holding
<1>2. TypeOK /\ cmd[r] # None /\ mem[r] \in Session /\ HeldBy(r, mem[r])
  BY <1>1, AtWork
<1>3. /\ TablesGrow /\ Frame(r) /\ MessagesInv'
      /\ sessions' \in [SessionIds -> Row \cup {None}]
      /\ messages' \in SUBSET Message
      /\ pc' \in [Requests -> Labels] /\ mem' \in [Requests -> Session \cup {None}]
      /\ pc'[r] = l /\ mem'[r] = s
  BY QuietStep
<1>4. TypeOK'
  BY <1>2, <1>3 DEF TypeOK
<1>5. Held(r)'
  BY <1>2, <1>3, HeldExtended
<1>6. s # None /\ s.sid = mem[r].sid /\ s.user = mem[r].user /\ s.persisted = mem[r].persisted
  BY DEF Extends
<1>7. l = "saveMarkers" => cmd[r].meta \/ HasUserMarker(MessagesOf(s.sid) \cup s.pending)
  BY <1>6 DEF HasUserMarker
<1>8. MessagesOf(s.sid)' = MessagesOf(s.sid)
  BY DEF MessagesOf
<1>9. HasUserMarker(MessagesOf(s.sid))' = HasUserMarker(MessagesOf(s.sid))
  BY <1>8 DEF HasUserMarker
<1>10. HasUserMarker(MessagesOf(s.sid) \cup s.pending)' = HasUserMarker(MessagesOf(s.sid) \cup s.pending)
  BY <1>8 DEF HasUserMarker
<1>11. CallInv(r)'
  BY <1>2, <1>3, <1>5, <1>6, <1>7, <1>9, <1>10 DEF CallInv
<1>12. QED
  BY <1>3, <1>4, <1>11 DEF GoodStep

\* A step that commits the session the call holds and goes on with it.
LEMMA SavingGood ==
    ASSUME IInv, NEW r \in Requests, pc[r] \in Own,
           NEW l \in Labels \ {"new", "load", "saveMarkers"},
           CanSave(mem[r]), Save(mem[r]),
           Goto(r, l), Hold(r, MarkPersisted(mem[r])),
           tickets' = tickets, clock' = clock, staleBefore' = staleBefore, faults' = faults,
           cmd' = cmd, began' = began, retired' = retired, avoid' = avoid,
           l \in {"respond", "findTicket", "saveTicket"} /\ cmd[r].channel = "telegram" =>
               cmd[r].meta \/ HasUserMarker(MessagesOf(mem[r].sid) \cup mem[r].pending)
    PROVE  GoodStep(r)
<1>1. pc[r] # "new" /\ pc[r] \in Holding
  BY DEF Holding, Own
<1>2. TypeOK /\ cmd[r] # None /\ mem[r] \in Session /\ HeldBy(r, mem[r]) /\ CallInv(r)
  BY <1>1, AtWork
<1>0. PICK s : s = MarkPersisted(mem[r])
  OBVIOUS
<1>3. /\ s \in Session /\ s.sid = mem[r].sid /\ s.user = mem[r].user /\ s.persisted /\ s.pending = {}
      /\ s # None
  BY <1>0, <1>2, MarkPersistedEffect, ConstantsAssumption
<1>4. Hold(r, s)
  BY <1>0
<1>5. /\ TablesGrow /\ Frame(r) /\ MessagesInv'
      /\ sessions' \in [SessionIds -> Row \cup {None}]
      /\ messages' \in SUBSET Message
      /\ messages' = messages \cup mem[r].pending
      /\ sessions'[mem[r].sid] # None
      /\ sessions'[mem[r].sid].user = mem[r].user
      /\ pc' \in [Requests -> Labels] /\ mem' \in [Requests -> Session \cup {None}]
      /\ pc'[r] = l /\ mem'[r] = s
  BY <1>3, <1>4, SavingStep
<1>6. TypeOK'
  BY <1>2, <1>5 DEF TypeOK
<1>7. Held(r)'
  BY <1>0, <1>2, <1>5, HeldSaved
<1>8. mem[r].user = cmd[r].user
  BY <1>2 DEF CallInv
<1>9. HasUserMarker(MessagesOf(mem[r].sid) \cup mem[r].pending) => HasUserMarker(MessagesOf(s.sid))'
  <2>1. \A p \in mem[r].pending : p.sid = mem[r].sid
    BY <1>2 DEF HeldBy
  <2>2. MessagesOf(mem[r].sid) \cup mem[r].pending \subseteq MessagesOf(s.sid)'
    BY <1>3, <1>5, <2>1 DEF MessagesOf
  <2>3. QED
    BY <2>2 DEF HasUserMarker
<1>10. CallInv(r)'
  BY <1>2, <1>3, <1>5, <1>7, <1>8, <1>9 DEF CallInv
<1>11. QED
  BY <1>5, <1>6, <1>10 DEF GoodStep

\* A marker found in the window is a stored marker; BelongsTo makes the session the caller's.
LEMMA LoadMessagesGood ==
    ASSUME IInv, NEW r \in Requests, LoadMessages(r)
    PROVE  GoodStep(r)
<1>1. pc[r] # "new" /\ pc[r] \in Holding
  BY DEF LoadMessages, Holding, Labels, Saving, Ended
<1>2. /\ TypeOK /\ CallInv(r) /\ cmd[r] \in Command /\ cmd[r].channel \in Channels
      /\ mem[r] \in Session /\ mem[r] # None /\ HeldBy(r, mem[r]) /\ mem[r].sid \in SessionIds
  BY <1>1, AtWork
<1>3. PICK s : s = [mem[r] EXCEPT !.known = HasUserMarker(Window(mem[r].sid))]
  OBVIOUS
<1>4. s \in Session
  <2>1. HasUserMarker(Window(mem[r].sid)) \in BOOLEAN
    BY DEF HasUserMarker
  <2>2. QED
    BY <1>2, <1>3, <2>1 DEF Session
<1>5. /\ s # None /\ s.sid = mem[r].sid /\ s.user = mem[r].user
      /\ s.persisted = mem[r].persisted /\ s.pending = mem[r].pending
      /\ s.known = HasUserMarker(Window(mem[r].sid))
  BY <1>2, <1>3, <1>4, ConstantsAssumption DEF Session
<1>6. HeldBy(r, s)
  <2>1. HasUserMarker(Window(mem[r].sid)) => HasUserMarker(MessagesOf(mem[r].sid))
    BY DEF HasUserMarker, Window
  <2>2. QED
    BY <1>2, <1>5, <2>1 DEF HeldBy, HasUserMarker
<1>7. mem[r].persisted
  BY <1>2 DEF LoadMessages, CallInv, Stored
<1>8. (ByHint(r) => BelongsTo(s.sid, cmd[r].user)) => s.user = cmd[r].user
  BY <1>2, <1>5, <1>7 DEF BelongsTo, HeldBy, CallInv, LoadMessages
<1>9. ByHint(r) => cmd[r].op = "reply"
  BY DEF ByHint
<1>10. PICK l \in {"failed", "activity", "closeTickets", "verify"}, s2 \in {s, Close(s)} :
          /\ Goto(r, l) /\ Hold(r, s2)
          /\ l # "failed" => s.user = cmd[r].user
  BY <1>3, <1>8, <1>9 DEF LoadMessages
<1>11. s2 \in Session /\ Extends(r, s2, s)
  BY <1>4, <1>10, CloseEffect, ConstantsAssumption DEF Extends
<1>12. UNCHANGED <<sessions, messages, tickets, clock, staleBefore, faults, cmd, began, retired, avoid>>
  BY DEF LoadMessages, tables, time, past
<1>13. /\ TablesGrow /\ Frame(r) /\ MessagesInv'
       /\ sessions' \in [SessionIds -> Row \cup {None}]
       /\ messages' \in SUBSET Message
       /\ pc' \in [Requests -> Labels] /\ mem' \in [Requests -> Session \cup {None}]
       /\ pc'[r] = l /\ mem'[r] = s2
  <2>1. l \in Labels \ {"new"}
    BY <1>10 DEF Labels, Ended
  <2>2. QED
    BY <1>10, <1>11, <1>12, <2>1, QuietStep
<1>14. TypeOK'
  BY <1>2, <1>12, <1>13 DEF TypeOK
<1>15. Held(r)'
  BY <1>4, <1>6, <1>11, <1>13, HeldExtended
<1>16. cmd[r] # None
  BY <1>1, AtWork
<1>17. CallInv(r)'
  BY <1>5, <1>7, <1>10, <1>11, <1>12, <1>13, <1>15, <1>16
     DEF CallInv, Holding, Stored, Own, Answering, Labels, Saving, Ended, Extends
<1>18. QED
  BY <1>13, <1>14, <1>17 DEF GoodStep

\* Rotation goes on with the same session, closed.
LEMMA CheckIdleGood ==
    ASSUME IInv, NEW r \in Requests, CheckIdle(r)
    PROVE  GoodStep(r)
<1>1. pc[r] # "new" /\ pc[r] \in Holding
  BY DEF CheckIdle, Holding, Labels, Saving, Ended
<1>2. /\ TypeOK /\ CallInv(r) /\ cmd[r] \in Command /\ cmd[r].channel \in Channels
      /\ mem[r] \in Session /\ mem[r] # None /\ HeldBy(r, mem[r]) /\ mem[r].sid \in SessionIds
  BY <1>1, AtWork
<1>3. mem[r].persisted /\ mem[r].user = cmd[r].user
  BY <1>2 DEF CheckIdle, CallInv, Labels, Saving, Ended, Stored, Own, Holding, Answering
<1>4. UNCHANGED <<sessions, messages, tickets, faults, cmd, began, retired, avoid>>
  BY DEF CheckIdle, tables, past
<1>5. tickets' \in [Requests -> Ticket \cup {None}] /\ faults' \in Nat
  BY <1>2, <1>4 DEF TypeOK
<1>6. CASE Goto(r, "closeTickets") /\ Hold(r, Close(mem[r])) /\ UNCHANGED time
  <2>1. clock' \in Nat /\ staleBefore' \in Nat
    BY <1>2, <1>6 DEF TypeOK, time
  <2>2. Close(mem[r]) \in Session /\ Extends(r, Close(mem[r]), mem[r])
    BY <1>2, CloseEffect
  <2>3. "closeTickets" \in Labels \ {"new", "load"}
    BY DEF Labels
  <2>4. QED
    BY <1>1, <1>3, <1>4, <1>5, <1>6, <2>1, <2>2, <2>3, QuietGood
<1>7. CASE StartTurn(r, mem[r])
  <2>1. PICK l \in {"failed", "saveOpened", "gate", "respond"}, s2 \in Session :
              /\ Goto(r, l) /\ Hold(r, s2) /\ Extends(r, s2, mem[r])
              /\ l = "respond" => cmd[r].channel # "telegram"
              /\ clock' \in Nat /\ staleBefore' \in Nat
    BY <1>2, <1>7, StartTurnEffect
  <2>2. l \in Labels \ {"new", "load"}
    BY <2>1 DEF Labels, Saving, Ended
  <2>3. QED
    BY <1>1, <1>3, <1>4, <1>5, <2>1, <2>2, QuietGood
<1>8. QED
  BY <1>6, <1>7 DEF CheckIdle

\* Closing tickets touches neither sessions nor messages.
LEMMA CloseTicketsGood ==
    ASSUME IInv, NEW r \in Requests, CloseTickets(r)
    PROVE  GoodStep(r)
<1>1. pc[r] # "new" /\ pc[r] \in Holding
  BY DEF CloseTickets, Holding, Labels, Saving, Ended
<1>2. /\ TypeOK /\ CallInv(r) /\ cmd[r] \in Command /\ cmd[r].channel \in Channels
      /\ mem[r] \in Session /\ mem[r] # None /\ HeldBy(r, mem[r]) /\ mem[r].sid \in SessionIds
  BY <1>1, AtWork
<1>3. mem[r].persisted /\ mem[r].user = cmd[r].user
  BY <1>2 DEF CloseTickets, CallInv, Labels, Saving, Ended, Stored, Own, Holding, Answering
<1>4. UNCHANGED <<sessions, messages, clock, staleBefore, faults, cmd, began, retired, avoid>>
  BY DEF CloseTickets, time, past
<1>5. clock' \in Nat /\ staleBefore' \in Nat /\ faults' \in Nat
  BY <1>2, <1>4 DEF TypeOK
<1>6. tickets' \in [Requests -> Ticket \cup {None}]
  <2>1. ASSUME NEW t \in Requests
        PROVE  (IF IsOpenTicket(t, mem[r].sid) THEN [tickets[t] EXCEPT !.status = "closed"]
                                               ELSE tickets[t]) \in Ticket \cup {None}
    <3>1. tickets[t] \in Ticket \cup {None}
      BY <1>2 DEF TypeOK
    <3>2. CASE tickets[t] \in Ticket
      BY <3>2 DEF Ticket
    <3>3. CASE tickets[t] = None
      BY <3>3 DEF IsOpenTicket
    <3>4. QED
      BY <3>1, <3>2, <3>3
  <2>2. QED
    BY <2>1 DEF CloseTickets, CloseBySession
<1>7. Goto(r, "saveClosed") /\ Hold(r, mem[r])
  BY <1>2 DEF CloseTickets, Hold, TypeOK
<1>8. Extends(r, mem[r], mem[r])
  BY <1>2 DEF Extends
<1>9. "saveClosed" \in Labels \ {"new", "load"}
  BY DEF Labels, Saving
<1>10. QED
  BY <1>1, <1>2, <1>3, <1>4, <1>5, <1>6, <1>7, <1>8, <1>9, QuietGood

\* After a rotation the call goes on in a fresh session of the same user.
LEMMA SaveClosedGood ==
    ASSUME IInv, NEW r \in Requests, SaveClosed(r)
    PROVE  GoodStep(r)
<1>1. pc[r] # "new" /\ pc[r] \in Holding
  BY DEF SaveClosed, Holding, Labels, Saving, Ended
<1>2. /\ TypeOK /\ CallInv(r) /\ cmd[r] \in Command /\ cmd[r].channel \in Channels
      /\ mem[r] \in Session /\ mem[r] # None /\ HeldBy(r, mem[r]) /\ mem[r].sid \in SessionIds
  BY <1>1, AtWork
<1>3. mem[r].persisted /\ mem[r].user = cmd[r].user
  BY <1>2 DEF SaveClosed, CallInv, Labels, Saving, Ended, Stored, Own, Holding, Answering
<1>4. CanSave(mem[r]) /\ pc[r] \in Own
  BY <1>3 DEF CanSave, SaveClosed, Labels, Saving, Ended, Stored, Own, Holding, Answering
<1>5. UNCHANGED <<tickets, faults, cmd, began, avoid>> /\ Save(mem[r])
  BY DEF SaveClosed
<1>6. tickets' \in [Requests -> Ticket \cup {None}] /\ faults' \in Nat /\ cmd[r] # None
  BY <1>1, <1>2, <1>5, AtWork DEF TypeOK
<1>7. CASE /\ Goto(r, "done")
           /\ retired' = retired \cup {mem[r].sid}
           /\ UNCHANGED <<mem, time>>
  <2>1. "done" \in Labels \ {"new"} /\ Hold(r, mem[r])
    BY <1>2, <1>7 DEF Labels, Ended, Hold, TypeOK
  <2>2. /\ TablesGrow /\ Frame(r) /\ MessagesInv'
        /\ sessions' \in [SessionIds -> Row \cup {None}]
        /\ messages' \in SUBSET Message
        /\ pc' \in [Requests -> Labels] /\ mem' \in [Requests -> Session \cup {None}]
        /\ pc'[r] = "done" /\ mem'[r] = mem[r]
    BY <1>2, <1>4, <1>5, <1>7, <2>1, SavingStep
  <2>3. TypeOK'
    BY <1>2, <1>5, <1>7, <2>2 DEF TypeOK, time
  <2>4. Extends(r, mem[r], mem[r])
    BY <1>2 DEF Extends
  <2>5. Held(r)'
    BY <1>2, <2>2, <2>4, HeldExtended
  <2>6. CallInv(r)'
    BY <1>5, <1>6, <2>2, <2>5 DEF CallInv, Labels, Saving, Ended, Stored, Own, Holding, Answering
  <2>7. QED
    BY <2>2, <2>3, <2>6 DEF GoodStep
<1>8. CASE /\ StartTurn(r, OpenWithID(r, mem[r].user, cmd[r].channel))
           /\ UNCHANGED retired
  <2>1. PICK s : s = OpenWithID(r, mem[r].user, cmd[r].channel)
    OBVIOUS
  <2>2. mem[r].user \in Users /\ r \in SessionIds
    BY <1>2 DEF Session, SessionIds
  <2>3. /\ s \in Session /\ s.user = cmd[r].user
        /\ ~s.persisted /\ ~s.known /\ s.pending = {}
    BY <1>2, <1>3, <2>1, <2>2, OpenedSession
  <2>4. PICK l \in {"failed", "saveOpened", "gate", "respond"}, s2 \in Session :
              /\ Goto(r, l) /\ Hold(r, s2) /\ Extends(r, s2, s)
              /\ l \in {"gate", "respond"} => s.persisted
              /\ clock' \in Nat /\ staleBefore' \in Nat
    BY <1>2, <1>8, <2>1, <2>3, StartTurnEffect
  <2>5. l \in {"failed", "saveOpened"} /\ l \in Labels \ {"new"}
    BY <2>3, <2>4 DEF Labels, Saving, Ended
  <2>6. /\ TablesGrow /\ Frame(r) /\ MessagesInv'
        /\ sessions' \in [SessionIds -> Row \cup {None}]
        /\ messages' \in SUBSET Message
        /\ pc' \in [Requests -> Labels] /\ mem' \in [Requests -> Session \cup {None}]
        /\ pc'[r] = l /\ mem'[r] = s2
    BY <1>2, <1>4, <1>5, <2>4, <2>5, SavingStep
  <2>7. TypeOK'
    BY <1>2, <1>5, <1>8, <2>4, <2>6 DEF TypeOK
  <2>8. Held(r)'
    BY <2>3, <2>4, <2>6, HeldFresh
  <2>9. CallInv(r)'
    BY <1>5, <1>6, <2>3, <2>4, <2>5, <2>6, <2>8 DEF CallInv, Extends, Labels, Saving, Ended, Stored, Own, Holding, Answering
  <2>10. QED
    BY <2>6, <2>7, <2>9 DEF GoodStep
<1>9. QED
  BY <1>7, <1>8 DEF SaveClosed

\* A new session is stored, or its id was taken and the call fails.
LEMMA SaveOpenedGood ==
    ASSUME IInv, NEW r \in Requests, SaveOpened(r)
    PROVE  GoodStep(r)
<1>1. pc[r] # "new" /\ pc[r] \in Holding
  BY DEF SaveOpened, Holding, Labels, Saving, Ended
<1>2. /\ TypeOK /\ CallInv(r) /\ cmd[r] \in Command /\ cmd[r].channel \in Channels
      /\ mem[r] \in Session /\ mem[r] # None /\ HeldBy(r, mem[r]) /\ mem[r].sid \in SessionIds
  BY <1>1, AtWork
<1>3. mem[r].user = cmd[r].user
  BY <1>2 DEF SaveOpened, CallInv, Labels, Saving, Ended, Stored, Own, Holding, Answering
<1>4. pc[r] \in Own
  BY DEF SaveOpened, Labels, Saving, Ended, Stored, Own, Holding, Answering
<1>5. UNCHANGED <<tickets, clock, staleBefore, faults, cmd, began, retired, avoid>>
  BY DEF SaveOpened, time, past
<1>6. CASE CanSave(mem[r]) /\ Save(mem[r]) /\ Hold(r, MarkPersisted(mem[r])) /\ Goto(r, Gate(r))
  <2>1. PICK l : l = Gate(r)
    OBVIOUS
  <2>2. l \in Labels \ {"new", "load", "saveMarkers"}
    BY <2>1 DEF Gate, Labels
  <2>3. ~(l \in {"respond", "findTicket", "saveTicket"} /\ cmd[r].channel = "telegram")
    BY <2>1 DEF Gate
  <2>4. QED
    BY <1>4, <1>5, <1>6, <2>1, <2>2, <2>3, SavingGood
<1>7. CASE Goto(r, "failed") /\ UNCHANGED <<sessions, messages, mem>>
  <2>1. Goto(r, "failed") /\ Hold(r, mem[r]) /\ Extends(r, mem[r], mem[r])
    BY <1>2, <1>7 DEF Hold, TypeOK, Extends
  <2>2. "failed" \in Labels \ {"new", "load"} /\ "failed" \notin Stored \cup Own
    BY DEF Labels, Saving, Ended, Stored, Own, Holding, Answering
  <2>3. /\ tickets' \in [Requests -> Ticket \cup {None}]
        /\ clock' \in Nat /\ staleBefore' \in Nat /\ faults' \in Nat
    BY <1>2, <1>5 DEF TypeOK
  <2>4. QED
    BY <1>1, <1>2, <1>5, <1>7, <2>1, <2>2, <2>3, QuietGood
<1>8. QED
  BY <1>6, <1>7 DEF SaveOpened

\* A registered contact is stored with its session.
LEMMA SaveContactGood ==
    ASSUME IInv, NEW r \in Requests, SaveContact(r)
    PROVE  GoodStep(r)
<1>1. pc[r] # "new" /\ pc[r] \in Holding
  BY DEF SaveContact, Holding, Labels, Saving, Ended
<1>2. /\ TypeOK /\ CallInv(r) /\ cmd[r] \in Command /\ cmd[r].channel \in Channels
      /\ mem[r] \in Session /\ mem[r] # None /\ HeldBy(r, mem[r]) /\ mem[r].sid \in SessionIds
  BY <1>1, AtWork
<1>3. mem[r].user = cmd[r].user
  BY <1>2 DEF SaveContact, CallInv, Labels, Saving, Ended, Stored, Own, Holding, Answering
<1>4. pc[r] \in Own
  BY DEF SaveContact, Labels, Saving, Ended, Stored, Own, Holding, Answering
<1>5. UNCHANGED <<tickets, clock, staleBefore, faults, cmd, began, retired, avoid>>
  BY DEF SaveContact, time, past
<1>6. CASE CanSave(mem[r]) /\ Save(mem[r]) /\ Hold(r, MarkPersisted(mem[r])) /\ Goto(r, "done")
  <2>1. "done" \in Labels \ {"new", "load", "saveMarkers"}
    BY DEF Labels, Ended
  <2>2. QED
    BY <1>4, <1>5, <1>6, <2>1, SavingGood
<1>7. CASE Goto(r, "failed") /\ UNCHANGED <<sessions, messages, mem>>
  <2>1. Goto(r, "failed") /\ Hold(r, mem[r]) /\ Extends(r, mem[r], mem[r])
    BY <1>2, <1>7 DEF Hold, TypeOK, Extends
  <2>2. "failed" \in Labels \ {"new", "load"} /\ "failed" \notin Stored \cup Own
    BY DEF Labels, Saving, Ended, Stored, Own, Holding, Answering
  <2>3. /\ tickets' \in [Requests -> Ticket \cup {None}]
        /\ clock' \in Nat /\ staleBefore' \in Nat /\ faults' \in Nat
    BY <1>2, <1>5 DEF TypeOK
  <2>4. QED
    BY <1>1, <1>2, <1>5, <1>7, <2>1, <2>2, <2>3, QuietGood
<1>8. QED
  BY <1>6, <1>7 DEF SaveContact

\* The responder is reached with the marker stored.
LEMMA SaveMarkersGood ==
    ASSUME IInv, NEW r \in Requests, SaveMarkers(r)
    PROVE  GoodStep(r)
<1>1. pc[r] # "new" /\ pc[r] \in Holding
  BY DEF SaveMarkers, Holding, Labels, Saving, Ended
<1>2. /\ TypeOK /\ CallInv(r) /\ cmd[r] \in Command /\ cmd[r].channel \in Channels
      /\ mem[r] \in Session /\ mem[r] # None /\ HeldBy(r, mem[r]) /\ mem[r].sid \in SessionIds
  BY <1>1, AtWork
<1>3. mem[r].user = cmd[r].user
  BY <1>2 DEF SaveMarkers, CallInv, Labels, Saving, Ended, Stored, Own, Holding, Answering
<1>4. pc[r] \in Own
  BY DEF SaveMarkers, Labels, Saving, Ended, Stored, Own, Holding, Answering
<1>5. UNCHANGED <<tickets, clock, staleBefore, faults, cmd, began, retired, avoid>>
  BY DEF SaveMarkers, time, past
<1>6. /\ CanSave(mem[r]) /\ Save(mem[r])
      /\ Hold(r, MarkPersisted(mem[r])) /\ Goto(r, "respond")
  BY <1>2 DEF SaveMarkers, CanSave, CallInv, Stored, Answering
<1>7. "respond" \in Labels \ {"new", "load", "saveMarkers"}
  BY DEF Labels, Ended
<1>8. cmd[r].meta \/ HasUserMarker(MessagesOf(mem[r].sid) \cup mem[r].pending)
  BY <1>2 DEF SaveMarkers, CallInv
<1>9. QED
  BY <1>4, <1>5, <1>6, <1>7, <1>8, SavingGood

\* The answer is stored in the session it was given in.
LEMMA SaveReplyGood ==
    ASSUME IInv, NEW r \in Requests, SaveReply(r)
    PROVE  GoodStep(r)
<1>1. pc[r] # "new" /\ pc[r] \in Holding
  BY DEF SaveReply, Holding, Labels, Saving, Ended
<1>2. /\ TypeOK /\ CallInv(r) /\ cmd[r] \in Command /\ cmd[r].channel \in Channels
      /\ mem[r] \in Session /\ mem[r] # None /\ HeldBy(r, mem[r]) /\ mem[r].sid \in SessionIds
  BY <1>1, AtWork
<1>3. mem[r].user = cmd[r].user
  BY <1>2 DEF SaveReply, CallInv, Labels, Saving, Ended, Stored, Own, Holding, Answering
<1>4. pc[r] \in Own
  BY DEF SaveReply, Labels, Saving, Ended, Stored, Own, Holding, Answering
<1>5. UNCHANGED <<tickets, clock, staleBefore, faults, cmd, began, retired, avoid>>
  BY DEF SaveReply, time, past
<1>6. /\ CanSave(mem[r]) /\ Save(mem[r])
      /\ Hold(r, MarkPersisted(mem[r])) /\ Goto(r, "done")
  BY <1>2 DEF SaveReply, CanSave, CallInv, Stored, Answering
<1>7. "done" \in Labels \ {"new", "load", "saveMarkers"}
  BY DEF Labels, Ended
<1>9. QED
  BY <1>4, <1>5, <1>6, <1>7, SavingGood

\* The gate passes an identified customer, and marks one it identifies.
LEMMA EnsureVerifiedGood ==
    ASSUME IInv, NEW r \in Requests, EnsureVerified(r)
    PROVE  GoodStep(r)
<1>1. pc[r] # "new" /\ pc[r] \in Holding
  BY DEF EnsureVerified, Holding, Labels, Saving, Ended
<1>2. /\ TypeOK /\ CallInv(r) /\ cmd[r] \in Command /\ cmd[r].channel \in Channels
      /\ mem[r] \in Session /\ mem[r] # None /\ HeldBy(r, mem[r]) /\ mem[r].sid \in SessionIds
  BY <1>1, AtWork
<1>3. mem[r].persisted /\ mem[r].user = cmd[r].user
  BY <1>2 DEF EnsureVerified, CallInv, Labels, Saving, Ended, Stored, Own, Holding, Answering
<1>4. UNCHANGED <<sessions, messages, tickets, faults, cmd, began, retired, avoid>>
  BY DEF EnsureVerified, tables, past
<1>5. tickets' \in [Requests -> Ticket \cup {None}] /\ faults' \in Nat
  BY <1>2, <1>4 DEF TypeOK
<1>6. /\ Identified(r) => \/ cmd[r].meta
                         \/ HasUserMarker(MessagesOf(mem[r].sid)) \/ HasUserMarker(mem[r].pending)
      /\ mem[r].pending = {} => ~HasUserMarker(mem[r].pending)
  BY <1>2 DEF Identified, HeldBy, HasUserMarker
<1>7. Extends(r, Marked(r), mem[r]) /\ HasUserMarker(Marked(r).pending)
  BY <1>2, MarkedEffect
<1>8. Marked(r) \in Session
  BY <1>7 DEF Extends
<1>9. Extends(r, mem[r], mem[r])
  BY <1>2 DEF Extends
<1>10. CASE Identified(r) /\ PassGate(r, mem[r]) /\ UNCHANGED time
  <2>1. PICK l \in {"respond", "saveMarkers"} :
           Goto(r, l) /\ Hold(r, mem[r]) /\ (l = "respond" => mem[r].pending = {})
    BY <1>10 DEF PassGate
  <2>2. l \in Labels \ {"new", "load"}
    BY <2>1 DEF Labels, Saving
  <2>3. clock' \in Nat /\ staleBefore' \in Nat
    BY <1>2, <1>10 DEF TypeOK, time
  <2>4. QED
    BY <1>1, <1>2, <1>3, <1>4, <1>5, <1>6, <1>9, <1>10, <2>1, <2>2, <2>3, QuietGood
<1>11. CASE ~Identified(r) /\ Answer(r, mem[r], 0)
  <2>1. PICK s2 \in Session :
              /\ Goto(r, "saveReply") /\ Hold(r, s2) /\ Extends(r, s2, mem[r])
              /\ clock' \in Nat /\ staleBefore' \in Nat
    BY <1>2, <1>11, AnswerEffect
  <2>2. "saveReply" \in Labels \ {"new", "load"}
    BY DEF Labels, Saving
  <2>3. QED
    BY <1>1, <1>3, <1>4, <1>5, <2>1, <2>2, QuietGood
<1>12. CASE Carries(r) /\ PassGate(r, Marked(r)) /\ Tick(2)
  <2>1. Marked(r).pending # {}
    BY <1>7 DEF HasUserMarker
  <2>2. Goto(r, "saveMarkers") /\ Hold(r, Marked(r))
    BY <1>12, <2>1 DEF PassGate
  <2>3. "saveMarkers" \in Labels \ {"new", "load"}
    BY DEF Labels, Saving
  <2>4. clock' \in Nat /\ staleBefore' \in Nat
    BY <1>2, <1>12 DEF TypeOK, Tick
  <2>5. QED
    BY <1>1, <1>2, <1>3, <1>4, <1>5, <1>7, <1>8, <2>2, <2>3, <2>4, QuietGood
<1>13. CASE Carries(r) /\ Answer(r, Marked(r), 2)
  <2>1. PICK s \in Session : s = Marked(r)
    BY <1>8
  <2>2. PICK s2 \in Session :
              /\ Goto(r, "saveReply") /\ Hold(r, s2) /\ Extends(r, s2, s)
              /\ clock' \in Nat /\ staleBefore' \in Nat
    BY <1>2, <1>13, <2>1, AnswerEffect
  <2>3. Extends(r, s2, mem[r])
    BY <1>7, <2>1, <2>2, ExtendsTwice
  <2>4. "saveReply" \in Labels \ {"new", "load"}
    BY DEF Labels, Saving
  <2>5. QED
    BY <1>1, <1>2, <1>3, <1>4, <1>5, <2>2, <2>3, <2>4, QuietGood
<1>14. QED
  BY <1>10, <1>11, <1>12, <1>13 DEF EnsureVerified

\* Responding leaves the tables alone.
LEMMA RespondGood ==
    ASSUME IInv, NEW r \in Requests, Respond(r)
    PROVE  GoodStep(r)
<1>1. pc[r] # "new" /\ pc[r] \in Holding
  BY DEF Respond, Holding, Labels, Saving, Ended
<1>2. /\ TypeOK /\ CallInv(r) /\ cmd[r] \in Command /\ cmd[r].channel \in Channels
      /\ mem[r] \in Session /\ mem[r] # None /\ HeldBy(r, mem[r]) /\ mem[r].sid \in SessionIds
  BY <1>1, AtWork
<1>3. mem[r].persisted /\ mem[r].user = cmd[r].user
  BY <1>2 DEF Respond, CallInv, Labels, Saving, Ended, Stored, Own, Holding, Answering
<1>4. UNCHANGED <<sessions, messages, tickets, faults, cmd, began, retired, avoid>>
  BY DEF Respond, tables, past
<1>5. tickets' \in [Requests -> Ticket \cup {None}] /\ faults' \in Nat
  BY <1>2, <1>4 DEF TypeOK
<1>6. CASE Answer(r, mem[r], 0)
  <2>1. PICK s2 \in Session :
              /\ Goto(r, "saveReply") /\ Hold(r, s2) /\ Extends(r, s2, mem[r])
              /\ clock' \in Nat /\ staleBefore' \in Nat
    BY <1>2, <1>6, AnswerEffect
  <2>2. "saveReply" \in Labels \ {"new", "load"}
    BY DEF Labels, Saving
  <2>3. QED
    BY <1>1, <1>3, <1>4, <1>5, <2>1, <2>2, QuietGood
<1>7. CASE Goto(r, "findTicket") /\ UNCHANGED <<mem, time>>
  <2>1. Hold(r, mem[r]) /\ Extends(r, mem[r], mem[r]) /\ clock' \in Nat /\ staleBefore' \in Nat
    BY <1>2, <1>7 DEF Hold, TypeOK, Extends, time
  <2>2. "findTicket" \in Labels \ {"new", "load"}
    BY DEF Labels
  <2>3. cmd[r].channel = "telegram" => cmd[r].meta \/ HasUserMarker(MessagesOf(mem[r].sid))
    BY <1>2 DEF Respond, CallInv
  <2>4. QED
    BY <1>1, <1>2, <1>3, <1>4, <1>5, <1>7, <2>1, <2>2, <2>3, QuietGood
<1>8. QED
  BY <1>6, <1>7 DEF Respond

\* Looking for a ticket leaves the tables alone.
LEMMA FindTicketGood ==
    ASSUME IInv, NEW r \in Requests, FindTicket(r)
    PROVE  GoodStep(r)
<1>1. pc[r] # "new" /\ pc[r] \in Holding
  BY DEF FindTicket, Holding, Labels, Saving, Ended
<1>2. /\ TypeOK /\ CallInv(r) /\ cmd[r] \in Command /\ cmd[r].channel \in Channels
      /\ mem[r] \in Session /\ mem[r] # None /\ HeldBy(r, mem[r]) /\ mem[r].sid \in SessionIds
  BY <1>1, AtWork
<1>3. mem[r].persisted /\ mem[r].user = cmd[r].user
  BY <1>2 DEF FindTicket, CallInv, Labels, Saving, Ended, Stored, Own, Holding, Answering
<1>4. UNCHANGED <<sessions, messages, tickets, faults, cmd, began, retired, avoid>>
  BY DEF FindTicket, tables, past
<1>5. tickets' \in [Requests -> Ticket \cup {None}] /\ faults' \in Nat
  BY <1>2, <1>4 DEF TypeOK
<1>6. CASE Answer(r, mem[r], 0)
  <2>1. PICK s2 \in Session :
              /\ Goto(r, "saveReply") /\ Hold(r, s2) /\ Extends(r, s2, mem[r])
              /\ clock' \in Nat /\ staleBefore' \in Nat
    BY <1>2, <1>6, AnswerEffect
  <2>2. "saveReply" \in Labels \ {"new", "load"}
    BY DEF Labels, Saving
  <2>3. QED
    BY <1>1, <1>3, <1>4, <1>5, <2>1, <2>2, QuietGood
<1>7. CASE Goto(r, "saveTicket") /\ UNCHANGED <<mem, time>>
  <2>1. Hold(r, mem[r]) /\ Extends(r, mem[r], mem[r]) /\ clock' \in Nat /\ staleBefore' \in Nat
    BY <1>2, <1>7 DEF Hold, TypeOK, Extends, time
  <2>2. "saveTicket" \in Labels \ {"new", "load"}
    BY DEF Labels
  <2>3. cmd[r].channel = "telegram" => cmd[r].meta \/ HasUserMarker(MessagesOf(mem[r].sid))
    BY <1>2 DEF FindTicket, CallInv
  <2>4. QED
    BY <1>1, <1>2, <1>3, <1>4, <1>5, <1>7, <2>1, <2>2, <2>3, QuietGood
<1>8. QED
  BY <1>6, <1>7 DEF FindTicket

\* The ticket a call opens is a ticket.
LEMMA OpenTicketType ==
    ASSUME TypeOK, NEW r \in Requests, mem[r] \in Session, OpenTicket(r)
    PROVE  tickets' \in [Requests -> Ticket \cup {None}]
<1>1. [sid |-> mem[r].sid, user |-> mem[r].user, status |-> "open", at |-> clock] \in Ticket
  BY DEF TypeOK, Session, Ticket
<1>2. QED
  BY <1>1 DEF OpenTicket, TypeOK

\* Opening a ticket touches neither sessions nor messages.
LEMMA SaveTicketGood ==
    ASSUME IInv, NEW r \in Requests, SaveTicket(r)
    PROVE  GoodStep(r)
<1>1. pc[r] # "new" /\ pc[r] \in Holding
  BY DEF SaveTicket, Holding, Labels, Saving, Ended
<1>2. /\ TypeOK /\ CallInv(r) /\ cmd[r] \in Command /\ cmd[r].channel \in Channels
      /\ mem[r] \in Session /\ mem[r] # None /\ HeldBy(r, mem[r]) /\ mem[r].sid \in SessionIds
  BY <1>1, AtWork
<1>3. mem[r].persisted /\ mem[r].user = cmd[r].user
  BY <1>2 DEF SaveTicket, CallInv, Labels, Saving, Ended, Stored, Own, Holding, Answering
<1>4. UNCHANGED <<sessions, messages, faults, cmd, began, retired, avoid>> /\ faults' \in Nat
  BY <1>2 DEF SaveTicket, past, TypeOK
<1>5. CASE OpenTicket(r) /\ Answer(r, mem[r], 1)
  <2>1. tickets' \in [Requests -> Ticket \cup {None}]
    BY <1>2, <1>5, OpenTicketType
  <2>2. PICK s2 \in Session :
              /\ Goto(r, "saveReply") /\ Hold(r, s2) /\ Extends(r, s2, mem[r])
              /\ clock' \in Nat /\ staleBefore' \in Nat
    BY <1>2, <1>5, AnswerEffect
  <2>3. "saveReply" \in Labels \ {"new", "load"}
    BY DEF Labels, Saving
  <2>4. QED
    BY <1>1, <1>3, <1>4, <2>1, <2>2, <2>3, QuietGood
<1>6. CASE Goto(r, "failed") /\ UNCHANGED <<tickets, mem, time>>
  <2>1. Hold(r, mem[r]) /\ Extends(r, mem[r], mem[r])
    BY <1>2, <1>6 DEF Hold, TypeOK, Extends
  <2>2. /\ tickets' \in [Requests -> Ticket \cup {None}]
        /\ clock' \in Nat /\ staleBefore' \in Nat
    BY <1>2, <1>6 DEF TypeOK, time
  <2>3. "failed" \in Labels \ {"new", "load"}
    BY DEF Labels, Ended
  <2>4. QED
    BY <1>1, <1>2, <1>3, <1>4, <1>6, <2>1, <2>2, <2>3, QuietGood
<1>7. QED
  BY <1>5, <1>6 DEF SaveTicket

\* A verified phone leaves its markers pending.
LEMMA VerifyPhoneGood ==
    ASSUME IInv, NEW r \in Requests, VerifyPhone(r)
    PROVE  GoodStep(r)
<1>1. pc[r] # "new" /\ pc[r] \in Holding
  BY DEF VerifyPhone, Holding, Labels, Saving, Ended
<1>2. /\ TypeOK /\ CallInv(r) /\ cmd[r] \in Command /\ cmd[r].channel \in Channels
      /\ mem[r] \in Session /\ mem[r] # None /\ HeldBy(r, mem[r]) /\ mem[r].sid \in SessionIds
  BY <1>1, AtWork
<1>3. mem[r].user = cmd[r].user
  BY <1>2 DEF VerifyPhone, CallInv, Labels, Saving, Ended, Stored, Own, Holding, Answering
<1>4. UNCHANGED <<sessions, messages, tickets, faults, cmd, began, retired, avoid>>
  BY DEF VerifyPhone, tables, past
<1>5. tickets' \in [Requests -> Ticket \cup {None}] /\ faults' \in Nat
  BY <1>2, <1>4 DEF TypeOK
<1>6. CASE Goto(r, "done") /\ UNCHANGED <<mem, time>>
  <2>1. Hold(r, mem[r]) /\ Extends(r, mem[r], mem[r]) /\ clock' \in Nat /\ staleBefore' \in Nat
    BY <1>2, <1>6 DEF Hold, TypeOK, Extends, time
  <2>2. "done" \in Labels \ {"new", "load"} /\ "done" \notin Stored
    BY DEF Labels, Ended, Stored, Answering
  <2>3. QED
    BY <1>1, <1>2, <1>3, <1>4, <1>5, <1>6, <2>1, <2>2, QuietGood
<1>7. CASE Goto(r, "saveContact") /\ Hold(r, Marked(r)) /\ Tick(2)
  <2>1. Extends(r, Marked(r), mem[r])
    BY <1>2, MarkedEffect
  <2>2. Marked(r) \in Session
    BY <2>1 DEF Extends
  <2>3. "saveContact" \in Labels \ {"new", "load"} /\ "saveContact" \notin Stored
    BY DEF Labels, Saving, Stored, Answering
  <2>4. clock' \in Nat /\ staleBefore' \in Nat
    BY <1>2, <1>7 DEF TypeOK, Tick
  <2>5. QED
    BY <1>1, <1>3, <1>4, <1>5, <1>7, <2>1, <2>2, <2>3, <2>4, QuietGood
<1>8. QED
  BY <1>6, <1>7 DEF VerifyPhone

\* A call that fails keeps what it knew and stores nothing.
LEMMA FailGood ==
    ASSUME IInv, NEW r \in Requests, pc[r] # "new", Goto(r, "failed"),
           UNCHANGED <<sessions, messages, clock, staleBefore, mem, cmd, began, retired, avoid>>,
           tickets' \in [Requests -> Ticket \cup {None}], faults' \in Nat
    PROVE  GoodStep(r)
<1>1. TypeOK /\ CallInv(r) /\ cmd[r] # None
  BY AtWork
<1>2. Hold(r, mem[r]) /\ mem[r] \in Session \cup {None} /\ "failed" \in Labels \ {"new"}
  BY <1>1 DEF Hold, TypeOK, Labels, Ended
<1>3. /\ TablesGrow /\ Frame(r) /\ MessagesInv'
      /\ sessions' \in [SessionIds -> Row \cup {None}]
      /\ messages' \in SUBSET Message
      /\ pc' \in [Requests -> Labels] /\ mem' \in [Requests -> Session \cup {None}]
      /\ pc'[r] = "failed" /\ mem'[r] = mem[r]
  BY <1>2, QuietStep
<1>4. TypeOK'
  BY <1>1, <1>3 DEF TypeOK
<1>5. Held(r)'
  BY <1>1 DEF CallInv, Held, HeldBy, HasUserMarker, MessagesOf
<1>6. CallInv(r)'
  BY <1>1, <1>3, <1>5 DEF CallInv, Holding, Stored, Own, Answering, Labels, Saving, Ended
<1>7. QED
  BY <1>3, <1>4, <1>6 DEF GoodStep

\* A failure loses no row, with or without a lost acknowledgement.
LEMMA FaultGood ==
    ASSUME IInv, NEW r \in Requests, Fault(r)
    PROVE  GoodStep(r)
<1>1. pc[r] # "new"
  BY DEF Fault, Saving
<1>2. /\ TypeOK /\ CallInv(r) /\ cmd[r] # None
      /\ pc[r] \in Holding => mem[r] \in Session /\ mem[r] # None /\ HeldBy(r, mem[r])
  BY <1>1, AtWork
<1>3. UNCHANGED <<mem, cmd, began, retired, avoid>> /\ faults' \in Nat
  BY <1>2 DEF Fault, past, TypeOK
<1>4. CASE Goto(r, "failed") /\ UNCHANGED <<tables, time>>
  <2>1. tickets' \in [Requests -> Ticket \cup {None}]
    BY <1>2, <1>4 DEF TypeOK, tables
  <2>2. QED
    BY <1>1, <1>3, <1>4, <2>1, FailGood DEF tables, time
<1>5. CASE pc[r] = "closeTickets" /\ Goto(r, "saveClosed") /\ UNCHANGED <<tables, time>>
  <2>1. pc[r] \in Holding /\ pc[r] \in Stored /\ pc[r] \in Own
    BY <1>5 DEF Holding, Stored, Own, Labels, Saving, Ended
  <2>2. mem[r].persisted /\ mem[r].user = cmd[r].user
    BY <1>2, <2>1 DEF CallInv
  <2>3. Hold(r, mem[r]) /\ Extends(r, mem[r], mem[r])
    BY <1>2, <1>3, <2>1 DEF Hold, TypeOK, Extends
  <2>4. "saveClosed" \in Labels \ {"new", "load"}
    BY DEF Labels, Saving
  <2>5. tickets' \in [Requests -> Ticket \cup {None}] /\ clock' \in Nat /\ staleBefore' \in Nat
    BY <1>2, <1>5 DEF TypeOK, tables, time
  <2>6. sessions' = sessions /\ messages' = messages
    BY <1>5 DEF tables
  <2>7. QED
    BY <1>2, <1>3, <1>5, <2>1, <2>2, <2>3, <2>4, <2>5, <2>6, QuietGood
<1>6. CASE /\ pc[r] \in Saving /\ CanSave(mem[r]) /\ Save(mem[r])
           /\ Goto(r, "failed") /\ UNCHANGED <<tickets, time>>
  <2>1. pc[r] \in Holding /\ pc[r] \in Own
    BY <1>6 DEF Holding, Own, Labels, Saving, Ended
  <2>2. Hold(r, mem[r]) /\ mem[r] \in Session /\ Extends(r, mem[r], mem[r])
    BY <1>2, <1>3, <2>1 DEF Hold, TypeOK, Extends
  <2>3. "failed" \in Labels \ {"new"}
    BY DEF Labels, Ended
  <2>4. /\ TablesGrow /\ Frame(r) /\ MessagesInv'
        /\ sessions' \in [SessionIds -> Row \cup {None}]
        /\ messages' \in SUBSET Message
        /\ pc' \in [Requests -> Labels] /\ mem' \in [Requests -> Session \cup {None}]
        /\ pc'[r] = "failed" /\ mem'[r] = mem[r]
    BY <1>3, <1>6, <2>1, <2>2, <2>3, SavingStep
  <2>5. TypeOK'
    BY <1>2, <1>3, <1>6, <2>4 DEF TypeOK, time
  <2>6. Held(r)'
    BY <1>2, <2>1, <2>2, <2>4, HeldExtended
  <2>7. CallInv(r)'
    BY <1>2, <1>3, <2>4, <2>6 DEF CallInv, Holding, Stored, Own, Answering, Labels, Saving, Ended
  <2>8. QED
    BY <2>4, <2>5, <2>7 DEF GoodStep
<1>7. CASE /\ pc[r] = "saveTicket" /\ OpenTicket(r) /\ Goto(r, "failed")
           /\ Tick(1) /\ UNCHANGED <<sessions, messages>>
  <2>1. pc[r] \in Holding
    BY <1>7 DEF Holding, Labels, Ended
  <2>2. tickets' \in [Requests -> Ticket \cup {None}]
    BY <1>2, <1>7, <2>1, OpenTicketType
  <2>3. clock' \in Nat /\ staleBefore' \in Nat
    BY <1>2, <1>7 DEF TypeOK, Tick
  <2>4. Hold(r, mem[r]) /\ Extends(r, mem[r], mem[r])
    BY <1>2, <1>3, <2>1 DEF Hold, TypeOK, Extends
  <2>5. "failed" \in Labels \ {"new", "load"} /\ "failed" \notin Stored \cup Own
    BY DEF Labels, Saving, Ended, Stored, Own, Holding, Answering
  <2>6. QED
    BY <1>2, <1>3, <1>7, <2>1, <2>2, <2>3, <2>4, <2>5, QuietGood
<1>8. QED
  BY <1>4, <1>5, <1>6, <1>7 DEF Fault

\* Every step of a call is a good step.
LEMMA StepGood ==
    ASSUME IInv, NEW r \in Requests, Arrive(r) \/ Step(r) \/ Fault(r)
    PROVE  GoodStep(r)
BY ArriveGood, FindSessionGood, LoadMessagesGood, CheckIdleGood, CloseTicketsGood, SaveClosedGood,
   SaveOpenedGood, EnsureVerifiedGood, SaveMarkersGood, RespondGood, FindTicketGood, SaveTicketGood,
   SaveReplyGood, VerifyPhoneGood, SaveContactGood, FaultGood DEF Step

\* Time and stuttering leave the tables and the calls alone.
LEMMA IdleStep ==
    ASSUME IInv, TimePasses \/ UNCHANGED vars
    PROVE  IInv' /\ TablesGrow
<1>1. TypeOK
  BY DEF IInv
<1>2. UNCHANGED <<sessions, messages, tickets, clock, pc, mem, faults, cmd, began, retired, avoid>>
  BY DEF TimePasses, vars, tables, time, past
<1>3. staleBefore' \in Nat
  BY <1>1 DEF TimePasses, vars, time, TypeOK
<1>4. TypeOK' /\ TablesGrow
  BY <1>1, <1>2, <1>3 DEF TypeOK, TablesGrow
<1>5. MessagesInv'
  BY <1>2 DEF IInv, MessagesInv
<1>6. ASSUME NEW q \in Requests PROVE CallInv(q)'
  BY <1>1, <1>2, <1>4, <1>6, Undisturbed DEF IInv
<1>7. QED
  BY <1>4, <1>5, <1>6 DEF IInv

-----------------------------------------------------------------------------
(* Theorems.                                                               *)

\* The invariant holds initially.
LEMMA InitIInv == Init => IInv
<1> SUFFICES ASSUME Init PROVE IInv
  OBVIOUS
<1>1. TypeOK
  BY DEF Init, TypeOK, Labels
<1>2. MessagesInv
  BY DEF Init, MessagesInv
<1>3. ASSUME NEW r \in Requests PROVE CallInv(r)
  BY <1>3 DEF Init, CallInv, Held, Holding, Stored, Own, Answering, Labels, Saving, Ended
<1>4. QED
  BY <1>1, <1>2, <1>3 DEF IInv

\* Every step preserves the invariant, and the tables grow.
LEMMA NextIInv == IInv /\ [Next]_vars => IInv' /\ TablesGrow
<1> SUFFICES ASSUME IInv, [Next]_vars PROVE IInv' /\ TablesGrow
  OBVIOUS
<1>1. ASSUME NEW r \in Requests, Arrive(r) \/ Step(r) \/ Fault(r)
      PROVE  IInv' /\ TablesGrow
  BY <1>1, StepGood, GoodStepPreserves DEF GoodStep
<1>2. CASE TimePasses \/ UNCHANGED vars
  BY <1>2, IdleStep
<1>3. QED
  BY <1>1, <1>2 DEF Next, Drained

\* The invariant is inductive: it holds in every reachable state.
THEOREM Invariance == Spec => []IInv
<1>1. Init => IInv
  BY InitIInv
<1>2. IInv /\ [Next]_vars => IInv'
  BY NextIInv
<1>3. QED
  BY <1>1, <1>2, PTL DEF Spec

\* The variables keep their types: no status, role or step outside those listed.
THEOREM TypeCorrect == Spec => []TypeOK
<1>1. IInv => TypeOK
  BY DEF IInv
<1>2. QED
  BY <1>1, Invariance, PTL

\* The session a call answers in is stored before anything can refer to it.
THEOREM RowsBeforeRespond == Spec => []SessionRowBeforeRespond
<1>1. IInv => SessionRowBeforeRespond
  <2> SUFFICES ASSUME IInv, NEW r \in Requests, pc[r] \in Answering
               PROVE  sessions[mem[r].sid] # None
    BY DEF SessionRowBeforeRespond
  <2>1. pc[r] # "new" /\ pc[r] \in Holding /\ pc[r] \in Stored
    BY DEF Answering, Holding, Stored, Labels, Saving, Ended
  <2>2. QED
    BY <2>1, AtWork DEF CallInv, HeldBy
<1>2. QED
  BY <1>1, Invariance, PTL

\* The responder works for a Telegram customer whose account the transport named
\* or a stored message of the session gives, never for one it knows of only from
\* memory.  Who wrote that message is not part of it.
THEOREM VerifiedCustomersOnly == Spec => []VerifiedBeforeRespond
<1>1. IInv => VerifiedBeforeRespond
  BY DEF IInv, CallInv, VerifiedBeforeRespond
<1>2. QED
  BY <1>1, Invariance, PTL

\* Every stored message hangs on a stored session of the user who sent it.
THEOREM MessagesAreOwned == Spec => []MessagesBelongToTheirUser
<1>1. IInv => MessagesBelongToTheirUser
  BY DEF IInv, MessagesInv, MessagesBelongToTheirUser
<1>2. QED
  BY <1>1, Invariance, PTL

\* A stored session never changes its owner, channel or date, and never goes
\* away, even when two calls bring the same unknown session id.
SessionsKeepTheirIdentity ==
    [][\A s \in SessionIds : sessions[s] # None =>
           /\ sessions'[s] # None
           /\ sessions'[s].user = sessions[s].user
           /\ sessions'[s].channel = sessions[s].channel
           /\ sessions'[s].at = sessions[s].at]_vars

\* A stored session keeps its owner, channel and date for ever.
THEOREM SessionsAreStable == Spec => SessionsKeepTheirIdentity
<1>1. IInv /\ [Next]_vars => [\A s \in SessionIds : sessions[s] # None =>
           /\ sessions'[s] # None
           /\ sessions'[s].user = sessions[s].user
           /\ sessions'[s].channel = sessions[s].channel
           /\ sessions'[s].at = sessions[s].at]_vars
  BY NextIInv DEF TablesGrow
<1>2. QED
  BY <1>1, Invariance, PTL DEF Spec, SessionsKeepTheirIdentity

-----------------------------------------------------------------------------
(* The turn of a call: what it has stored and what it holds to be stored.  *)

Sent(r)  == {m \in messages : m.from = r}
Draft(r) == IF mem[r] = None THEN {} ELSE mem[r].pending
Turn(r)  == Sent(r) \cup Draft(r)

Unopened == {"new", "find", "load", "activity", "closeTickets", "saveClosed", "verify"}

\* The kinds of messages a turn may have at a step.
Bodies(l) ==
    IF l \in Unopened THEN {}
    ELSE IF l \in {"saveOpened", "gate"} THEN {"text"}
    ELSE IF l \in {"saveReply"} \cup Ended
         THEN {"text", "phoneMarker", "userMarker", "answer"}
    ELSE {"text", "phoneMarker", "userMarker"}

Has(T, body) == \E m \in T : m.body = body

\* Messages of one session, older than t, each of another of the given kinds.
Laid(T, id, t, bodies) ==
    /\ \A m \in T : m.sid = id /\ m.at < t /\ m.body \in bodies
    /\ \A m, n \in T : m.body = n.body => m = n

Replied(T) ==
    \A a \in T : a.body = "answer" => \E q \in T : q.body = "text" /\ q.at < a.at

TurnInv(r) ==
    /\ Turn(r) # {} => mem[r] # None
    /\ Laid(Turn(r), mem[r].sid, clock, Bodies(pc[r]))
    /\ Replied(Turn(r))
    /\ pc[r] \in {"saveOpened"} \cup Answering => Has(Turn(r), "text")
    /\ pc[r] = "saveReply" => Has(Turn(r), "answer")
    /\ Has(Sent(r), "answer") => Draft(r) \subseteq messages
    /\ pc[r] = "done" /\ cmd[r].op = "reply" => Has(Sent(r), "answer")
    /\ pc[r] \in {"verify", "saveContact"} => cmd[r].op = "phone"

TurnsInv == \A r \in Requests : TurnInv(r)

\* What a step of a call leaves to the others.
OnlyOwn(r) ==
    /\ messages \subseteq messages'
    /\ \A m \in messages' : m \in messages \/ m.from = r
    /\ clock' \in Nat /\ clock <= clock'

\* Another call's step leaves a turn as it is.
LEMMA TurnUndisturbed ==
    ASSUME TypeOK, NEW r \in Requests, NEW q \in Requests, q # r, OnlyOwn(r), TurnInv(q),
           pc'[q] = pc[q], mem'[q] = mem[q], cmd'[q] = cmd[q]
    PROVE  TurnInv(q)'
<1>1. Sent(q)' = Sent(q) /\ Draft(q)' = Draft(q) /\ Turn(q)' = Turn(q)
  BY DEF OnlyOwn, Sent, Draft, Turn
<1>2. \A m \in Turn(q) : m.at \in Nat
  BY DEF TypeOK, Turn, Sent, Draft, Session, Message
<1>3. Laid(Turn(q), mem[q].sid, clock', Bodies(pc[q]))
  BY <1>2 DEF TurnInv, Laid, OnlyOwn, TypeOK
<1>4. Draft(q) \subseteq messages => Draft(q)' \subseteq messages'
  BY <1>1 DEF OnlyOwn
<1>5. Laid(Turn(q), mem[q].sid, clock, Bodies(pc[q]))' = Laid(Turn(q), mem[q].sid, clock', Bodies(pc[q]))
  BY <1>1 DEF Laid, Bodies
<1>6. QED
  BY <1>1, <1>3, <1>4, <1>5 DEF TurnInv, Replied, Has

\* A call that has not opened its turn yet has no message.
LEMMA UnopenedIsEmpty ==
    ASSUME NEW r \in Requests, TurnInv(r), pc[r] \in Unopened
    PROVE  /\ Turn(r) = {} /\ Sent(r) = {} /\ Draft(r) = {}
           /\ mem[r] # None => mem[r].pending = {}
BY DEF TurnInv, Laid, Bodies, Turn, Sent, Draft

\* A step that leaves a call without messages.
LEMMA StaysEmpty ==
    ASSUME TypeOK, NEW r \in Requests, NEW l, messages' = messages, Sent(r) = {},
           mem'[r] = None \/ mem'[r].pending = {}, pc'[r] = l,
           l \in Unopened \cup {"failed"} \/ (l = "done" /\ cmd'[r].op # "reply"),
           l = "verify" => cmd'[r].op = "phone"
    PROVE  TurnInv(r)'
<1>1. Sent(r)' = {} /\ Draft(r)' = {} /\ Turn(r)' = {}
  BY DEF Sent, Draft, Turn
<1>2. QED
  BY <1>1 DEF TurnInv, Laid, Replied, Has, Unopened, Answering, Ended

\* A turn that a step neither adds to nor takes from.
LEMMA StaysWhole ==
    ASSUME TypeOK, NEW r \in Requests, TurnInv(r), NEW l,
           Turn(r)' = Turn(r), Sent(r) \subseteq Sent(r)',
           mem[r] # None => mem'[r] # None /\ mem'[r].sid = mem[r].sid,
           Sent(r)' # Sent(r) \/ Draft(r)' # Draft(r) => Draft(r)' \subseteq messages',
           messages \subseteq messages',
           clock' \in Nat, clock <= clock', cmd' = cmd,
           pc'[r] = l, Bodies(pc[r]) \subseteq Bodies(l),
           l \in {"saveOpened"} \cup Answering => pc[r] \in {"saveOpened"} \cup Answering,
           l # "saveReply",
           l = "done" /\ cmd[r].op = "reply" => Has(Sent(r)', "answer"),
           l \in {"verify", "saveContact"} => cmd[r].op = "phone"
    PROVE  TurnInv(r)'
<1>1. \A m \in Turn(r) : m.at \in Nat
  BY DEF TypeOK, Turn, Sent, Draft, Session, Message
<1>2. mem[r] # None \/ Turn(r) = {}
  BY DEF TurnInv
<1>3. Laid(Turn(r), mem[r].sid, clock, Bodies(pc[r])) /\ clock \in Nat
  BY DEF TurnInv, TypeOK
<1>4. Laid(Turn(r), mem'[r].sid, clock', Bodies(l))
  BY <1>1, <1>2, <1>3 DEF Laid
<1>5. Laid(Turn(r), mem[r].sid, clock, Bodies(pc[r]))'
  BY <1>4 DEF Laid, Bodies
<1>6. Replied(Turn(r))' /\ (Turn(r)' # {} => mem'[r] # None)
  BY <1>2 DEF TurnInv, Replied
<1>7. l \in {"saveOpened"} \cup Answering => Has(Turn(r), "text")'
  BY DEF TurnInv, Has
<1>8. Has(Sent(r), "answer")' => Draft(r)' \subseteq messages'
  BY DEF TurnInv, Has
<1>9. QED
  BY <1>5, <1>6, <1>7, <1>8 DEF TurnInv, Has

\* One more message of a kind the turn does not have yet.
LEMMA LaidAppend ==
    ASSUME NEW T \in SUBSET Message, NEW id, NEW t \in Nat, NEW bodies, Laid(T, id, t, bodies),
           NEW m \in Message, m.sid = id, t <= m.at, ~Has(T, m.body),
           NEW u \in Nat, m.at < u
    PROVE  Laid(T \cup {m}, id, u, bodies \cup {m.body})
<1>1. \A n \in T : n.at \in Nat
  BY DEF Message
<1>2. m.at \in Nat
  BY DEF Message
<1>3. \A n \in T : n.at < u
  BY <1>1, <1>2 DEF Laid
<1>4. QED
  BY <1>3 DEF Laid, Has

\* What a call has sent, and a session it holds: its turn once it holds it.
LEMMA HeldTurn ==
    ASSUME TypeOK, NEW r \in Requests, NEW s \in Session, Hold(r, s), messages' = messages
    PROVE  /\ Sent(r)' = Sent(r) /\ mem'[r] = s /\ s # None
           /\ Draft(r)' = s.pending /\ Turn(r)' = Sent(r) \cup s.pending
           /\ Sent(r) \subseteq Message /\ s.pending \subseteq Message
BY ConstantsAssumption DEF TypeOK, Hold, Sent, Draft, Turn, Session

\* The question appended to a session, which knows then what it says.
LEMMA AppendQuestion ==
    ASSUME NEW s \in Session, NEW r \in Requests, NEW t \in Nat
    PROVE  /\ Enriched(Append(s, r, t, "user", "text")) \in Session
           /\ Enriched(Append(s, r, t, "user", "text")).sid = s.sid
           /\ Enriched(Append(s, r, t, "user", "text")).pending
                 = s.pending \cup {Entry(s, r, t, "user", "text")}
<1> DEFINE q == Append(s, r, t, "user", "text")
           m == Entry(s, r, t, "user", "text")
<1>1. q \in Session /\ q.sid = s.sid
  BY AppendEffect
<1>2. q.pending = s.pending \cup {m}
  BY DEF Append, Session
<1> HIDE DEF q, m
<1>3. Enriched(q) \in Session /\ Enriched(q).sid = q.sid /\ Enriched(q).pending = q.pending
  BY <1>1, EnrichedEffect
<1>4. QED
  BY <1>1, <1>2, <1>3 DEF q, m

\* StartTurn makes the question the whole turn.
LEMMA StartTurnWhole ==
    ASSUME TypeOK, NEW r \in Requests, NEW s \in Session, s.pending = {}, Sent(r) = {},
           StartTurn(r, s), messages' = messages, cmd' = cmd
    PROVE  TurnInv(r)' /\ clock' \in Nat /\ clock <= clock'
<1>1. clock \in Nat /\ pc' = [pc EXCEPT ![r] = pc'[r]]
  BY DEF TypeOK, StartTurn, Goto
<1>2. CASE s.status = "closed"
  <2>1. pc'[r] = "failed" /\ mem'[r] = s /\ clock' = clock
    BY <1>2 DEF StartTurn, TypeOK, Goto, Hold, time
  <2>2. QED
    BY <1>1, <2>1, StaysEmpty
<1>3. CASE s.status # "closed"
  <2> DEFINE m  == Entry(s, r, clock, "user", "text")
             s2 == Enriched(Append(s, r, clock, "user", "text"))
  <2> HIDE DEF m, s2
  <2>0. s2 \in Session /\ s2.sid = s.sid /\ s2.pending = s.pending \cup {m}
    BY <1>1, AppendQuestion DEF s2, m
  <2>1. s2 \in Session /\ s2.sid = s.sid /\ s2.pending = {m}
    BY <2>0
  <2>2. Hold(r, s2) /\ clock' = clock + 1
    BY <1>3 DEF StartTurn, Tick, s2
  <2>3. pc'[r] \in {"saveOpened", "gate", "respond"}
    BY <1>3 DEF StartTurn, Goto, Gate, TypeOK
  <2>4. m.sid = s.sid /\ m.body = "text" /\ m.at = clock
    BY DEF m, Entry
  <2>5. Sent(r)' = {} /\ mem'[r] = s2 /\ s2 # None /\ Draft(r)' = {m} /\ Turn(r)' = {m}
    BY <2>1, <2>2, HeldTurn
  <2>6. Laid({m}, s2.sid, clock + 1, Bodies(pc'[r]))
    BY <1>1, <2>1, <2>3, <2>4 DEF Laid, Bodies, Unopened, Ended
  <2>7. QED
    BY <1>1, <2>2, <2>3, <2>4, <2>5, <2>6
    DEF TurnInv, Laid, Bodies, Replied, Has, Answering
<1>4. QED
  BY <1>2, <1>3

\* Answer completes a turn that has its question and no answer yet.
LEMMA AnswerWhole ==
    ASSUME TypeOK, NEW r \in Requests, NEW s \in Session, NEW n \in Nat, NEW T,
           T = Sent(r) \cup s.pending,
           Laid(T, s.sid, clock + n, {"text", "phoneMarker", "userMarker"}), Has(T, "text"),
           Answer(r, s, n), messages' = messages, cmd' = cmd
    PROVE  TurnInv(r)' /\ clock' \in Nat /\ clock <= clock'
<1> DEFINE t  == clock + n
           m  == Entry(s, r, t, "assistant", "answer")
           s2 == Append(s, r, t, "assistant", "answer")
           B  == {"text", "phoneMarker", "userMarker"}
<1>1. clock \in Nat /\ t \in Nat
  BY DEF TypeOK
<1>2. s2 \in Session /\ s2.sid = s.sid /\ s2.pending = s.pending \cup {m}
  <2>1. s2 \in Session /\ s2.sid = s.sid
    BY <1>1, AppendEffect
  <2>2. s2.pending = s.pending \cup {m}
    BY DEF Append, Session
  <2>3. QED
    BY <2>1, <2>2
<1>3. Hold(r, s2) /\ clock' = clock + (n + 1) /\ clock' = t + 1 /\ pc'[r] = "saveReply"
  BY <1>1 DEF Answer, Tick, Goto, TypeOK
<1>4. m \in Message /\ m.sid = s.sid /\ m.body = "answer" /\ m.at = t
  BY <1>1 DEF Entry, Message, Session
<1>5. Laid(T, s.sid, t, B) /\ t = clock + n
  OBVIOUS
<1> HIDE DEF m, s2, t
<1>6. /\ Sent(r)' = Sent(r) /\ mem'[r] = s2 /\ s2 # None
      /\ Turn(r)' = T \cup {m} /\ T \subseteq Message
  BY <1>2, <1>3, HeldTurn
<1>7. ~Has(T, "answer") /\ ~Has(Sent(r)', "answer")
  BY <1>5, <1>6 DEF Laid, Has
<1>8. Laid(T \cup {m}, s.sid, t + 1, B \cup {"answer"})
  <2>1. t + 1 \in Nat /\ t <= m.at /\ m.at < t + 1 /\ T \in SUBSET Message /\ ~Has(T, m.body)
    BY <1>1, <1>4, <1>6, <1>7
  <2>2. Laid(T \cup {m}, s.sid, t + 1, B \cup {m.body})
    BY <1>1, <1>4, <1>5, <2>1, LaidAppend
  <2>3. QED
    BY <1>4, <2>2
<1>9. Replied(T \cup {m}) /\ Has(T \cup {m}, "text") /\ Has(T \cup {m}, "answer")
  BY <1>4, <1>5, <1>7 DEF Replied, Has, Laid
<1>10. Bodies("saveReply") = B \cup {"answer"}
  BY DEF Bodies, Unopened
<1>11. Laid(Turn(r), mem[r].sid, clock, Bodies(pc[r]))'
  BY <1>2, <1>3, <1>6, <1>8, <1>10 DEF Laid, Bodies
<1>12. QED
  BY <1>1, <1>3, <1>5, <1>6, <1>7, <1>9, <1>11 DEF TurnInv, Replied, Has

\* Marked adds markers to a turn that has none.
LEMMA MarkedWhole ==
    ASSUME TypeOK, NEW r \in Requests, mem[r] \in Session, Laid(Turn(r), mem[r].sid, clock, {"text"})
    PROVE  /\ Marked(r) \in Session /\ Marked(r).sid = mem[r].sid
           /\ mem[r].pending \subseteq Marked(r).pending
           /\ Laid(Sent(r) \cup Marked(r).pending, Marked(r).sid, clock + 2,
                   {"text", "phoneMarker", "userMarker"})
<1> DEFINE p  == Append(mem[r], r, clock, "user", "phoneMarker")
           a  == Entry(mem[r], r, clock, "user", "phoneMarker")
           b  == Entry(p, r, clock + 1, "user", "userMarker")
           c  == Entry(mem[r], r, clock, "user", "userMarker")
           pu == Append(p, r, clock + 1, "user", "userMarker")
           u  == Append(mem[r], r, clock, "user", "userMarker")
           T  == Turn(r)
           id == mem[r].sid
<1>1. clock \in Nat /\ clock + 1 \in Nat /\ clock + 2 \in Nat
  BY DEF TypeOK
<1>2. /\ p \in Session /\ p.sid = id /\ p.pending = mem[r].pending \cup {a}
      /\ u \in Session /\ u.sid = id /\ u.pending = mem[r].pending \cup {c}
  <2>1. p \in Session /\ p.sid = id /\ u \in Session /\ u.sid = id
    BY <1>1, AppendEffect
  <2>2. p.pending = mem[r].pending \cup {a} /\ u.pending = mem[r].pending \cup {c}
    BY DEF Append, Session
  <2>3. QED
    BY <2>1, <2>2
<1>3. pu \in Session /\ pu.sid = id /\ pu.pending = mem[r].pending \cup {a} \cup {b}
  <2> HIDE DEF p
  <2>1. pu \in Session /\ pu.sid = p.sid
    BY <1>1, <1>2, AppendEffect
  <2>2. pu.pending = p.pending \cup {b}
    BY <1>2 DEF Append, Session
  <2>3. QED
    BY <1>2, <2>1, <2>2
<1>4. /\ a \in Message /\ a.sid = id /\ a.body = "phoneMarker" /\ a.at = clock
      /\ b \in Message /\ b.sid = id /\ b.body = "userMarker" /\ b.at = clock + 1
      /\ c \in Message /\ c.sid = id /\ c.body = "userMarker" /\ c.at = clock
  <2>1. id \in SessionIds /\ p.sid = id
    BY <1>2 DEF Session
  <2> HIDE DEF p, id
  <2>2. QED
    BY <1>1, <2>1 DEF Entry, Message, id
<1>5. Marked(r) = pu \/ Marked(r) = u
  BY DEF Marked
<1>6. T \subseteq Message /\ T = Sent(r) \cup mem[r].pending
  BY ConstantsAssumption DEF TypeOK, Turn, Sent, Draft, Session
<1>7. Laid(T, id, clock, {"text"})
  OBVIOUS
<1> HIDE DEF a, b, c, p, pu, u, T, id
<1>8. ~Has(T, "phoneMarker") /\ ~Has(T, "userMarker")
  BY <1>7 DEF Laid, Has
<1>9. Laid(T \cup {a}, id, clock + 1, {"text", "phoneMarker"})
  <2>1. Laid(T \cup {a}, id, clock + 1, {"text"} \cup {a.body})
    <3>1. clock <= a.at /\ a.at < clock + 1 /\ T \in SUBSET Message /\ ~Has(T, a.body)
      BY <1>1, <1>4, <1>6, <1>8
    <3>2. QED
      BY <1>1, <1>4, <1>7, <3>1, LaidAppend
  <2>2. QED
    BY <1>4, <2>1 DEF Laid
<1>10. Laid(T \cup {a} \cup {b}, id, clock + 2, {"text", "phoneMarker", "userMarker"})
  <2>1. ~Has(T \cup {a}, "userMarker") /\ T \cup {a} \subseteq Message
    BY <1>4, <1>6, <1>8 DEF Has
  <2>2. Laid(T \cup {a} \cup {b}, id, clock + 2, {"text", "phoneMarker"} \cup {b.body})
    <3>1. /\ clock + 1 <= b.at /\ b.at < clock + 2
          /\ T \cup {a} \in SUBSET Message /\ ~Has(T \cup {a}, b.body)
      BY <1>1, <1>4, <2>1
    <3>2. QED
      BY <1>1, <1>4, <1>9, <3>1, LaidAppend
  <2>3. QED
    BY <1>4, <2>2 DEF Laid
<1>11. Laid(T \cup {c}, id, clock + 2, {"text", "phoneMarker", "userMarker"})
  <2>1. Laid(T \cup {c}, id, clock + 2, {"text"} \cup {c.body})
    <3>1. clock <= c.at /\ c.at < clock + 2 /\ T \in SUBSET Message /\ ~Has(T, c.body)
      BY <1>1, <1>4, <1>6, <1>8
    <3>2. QED
      BY <1>1, <1>4, <1>7, <3>1, LaidAppend
  <2>2. QED
    BY <1>4, <2>1 DEF Laid
<1>12. Sent(r) \cup pu.pending = T \cup {a} \cup {b} /\ Sent(r) \cup u.pending = T \cup {c}
  BY <1>2, <1>3, <1>6
<1>13. QED
  BY <1>2, <1>3, <1>5, <1>10, <1>11, <1>12 DEF id

\* A step that stores what the call held: the turn is what is stored now.
LEMMA SavedWhole ==
    ASSUME IInv, NEW r \in Requests, TurnInv(r), pc[r] \in Holding, NEW l,
           Save(mem[r]), clock' = clock, cmd' = cmd,
           mem'[r] = mem[r] \/ mem'[r] = MarkPersisted(mem[r]),
           pc'[r] = l, Bodies(pc[r]) \subseteq Bodies(l),
           l \in {"saveOpened"} \cup Answering => pc[r] \in {"saveOpened"} \cup Answering,
           l \notin {"saveReply", "verify", "saveContact"},
           l = "done" /\ cmd[r].op = "reply" => pc[r] = "saveReply"
    PROVE  TurnInv(r)' /\ OnlyOwn(r)
<1>1. TypeOK /\ mem[r] \in Session /\ mem[r] # None /\ HeldBy(r, mem[r])
  BY AtWork DEF Holding
<1>2. messages' = messages \cup mem[r].pending /\ \A p \in mem[r].pending : p.from = r
  BY <1>1 DEF Save, HeldBy
<1>3. clock \in Nat /\ clock <= clock' /\ clock' \in Nat
  BY <1>1 DEF TypeOK
<1>4. Sent(r)' = Sent(r) \cup mem[r].pending /\ Draft(r) = mem[r].pending
  BY <1>1, <1>2 DEF Sent, Draft
<1>5. /\ mem'[r] # None /\ mem'[r].sid = mem[r].sid
      /\ mem'[r].pending = mem[r].pending \/ mem'[r].pending = {}
  <2>1. CASE mem'[r] = mem[r]
    BY <1>1, <2>1
  <2>2. CASE mem'[r] = MarkPersisted(mem[r])
    <3>1. MarkPersisted(mem[r]) \in Session
      BY <1>1 DEF MarkPersisted, Session
    <3>2. MarkPersisted(mem[r]).sid = mem[r].sid /\ MarkPersisted(mem[r]).pending = {}
      BY <1>1 DEF MarkPersisted, Session
    <3>3. QED
      BY <2>2, <3>1, <3>2, ConstantsAssumption
  <2>3. QED
    BY <2>1, <2>2
<1>6. Draft(r)' \subseteq mem[r].pending /\ Draft(r)' \subseteq messages'
  BY <1>2, <1>5 DEF Draft
<1>7. Turn(r)' = Turn(r) /\ Sent(r)' = Turn(r)
  BY <1>4, <1>6 DEF Turn
<1>8. Sent(r) \subseteq Sent(r)' /\ messages \subseteq messages'
  BY <1>2, <1>4
<1>9. l = "done" /\ cmd[r].op = "reply" => Has(Sent(r)', "answer")
  BY <1>7 DEF TurnInv
<1>10. TurnInv(r)'
  BY <1>1, <1>3, <1>5, <1>6, <1>7, <1>8, <1>9, StaysWhole
<1>11. QED
  BY <1>2, <1>3, <1>10 DEF OnlyOwn

\* A step that moves a call and nothing else of its turn.
LEMMA MovedWhole ==
    ASSUME TypeOK, NEW r \in Requests, TurnInv(r), NEW l,
           messages' = messages, mem'[r] = mem[r], cmd' = cmd, clock' \in Nat, clock <= clock',
           pc'[r] = l, Bodies(pc[r]) \subseteq Bodies(l),
           l \in {"saveOpened"} \cup Answering => pc[r] \in {"saveOpened"} \cup Answering,
           l # "saveReply",
           l = "done" /\ cmd[r].op = "reply" => Has(Sent(r), "answer"),
           l \in {"verify", "saveContact"} => cmd[r].op = "phone"
    PROVE  TurnInv(r)' /\ OnlyOwn(r)
<1>1. Sent(r)' = Sent(r) /\ Draft(r)' = Draft(r) /\ Turn(r)' = Turn(r)
  BY DEF Sent, Draft, Turn
<1>2. TurnInv(r)'
  BY <1>1, StaysWhole
<1>3. QED
  BY <1>2 DEF OnlyOwn

\* A call that has opened no turn, arriving or looking for its session.
LEMMA FindSessionWhole ==
    ASSUME IInv, NEW r \in Requests, TurnInv(r), Arrive(r) \/ FindSession(r)
    PROVE  TurnInv(r)' /\ OnlyOwn(r)
<1>1. TypeOK /\ clock \in Nat
  BY DEF IInv, TypeOK
<1>2. pc[r] \in Unopened /\ messages' = messages
  BY DEF Arrive, FindSession, Unopened, tables
<1>3. Sent(r) = {} /\ (mem[r] # None => mem[r].pending = {})
  BY <1>2, UnopenedIsEmpty
<1>4. CASE Arrive(r)
  <2>1. mem'[r] = mem[r] /\ pc'[r] = "find" /\ clock' = clock
    BY <1>1, <1>4 DEF Arrive, Goto, TypeOK, time
  <2>2. QED
    BY <1>1, <1>2, <1>3, <2>1, StaysEmpty DEF Unopened, OnlyOwn
<1>5. CASE FindSession(r)
  <2> DEFINE u  == cmd[r].user
             ch == cmd[r].channel
             id == IF ByHint(r) THEN cmd[r].hint ELSE r
             opened == OpenWithID(id, u, ch)
  <2>1. cmd[r] \in Command /\ u \in Users /\ ch \in Channels
    BY <1>5, AtWork DEF FindSession
  <2>2. id \in SessionIds
    BY <2>1 DEF ByHint, Command, SessionIds
  <2>3. opened \in Session /\ opened.pending = {}
    BY <1>1, <2>1, <2>2, OpenedSession
  <2>4. cmd' = cmd
    BY <1>5 DEF FindSession, past
  <2> HIDE DEF opened, id
  <2>5. ASSUME NEW s \in SessionIds, Hold(r, Reconstitute(s)), Goto(r, "load"), UNCHANGED time
        PROVE  TurnInv(r)' /\ OnlyOwn(r)
    <3>1. mem'[r] = Reconstitute(s) /\ pc'[r] = "load" /\ clock' = clock
      BY <1>1, <2>5 DEF Hold, Goto, TypeOK, time
    <3>2. Reconstitute(s).pending = {}
      BY DEF Reconstitute
    <3>3. QED
      BY <1>1, <1>2, <1>3, <3>1, <3>2, StaysEmpty DEF Unopened, OnlyOwn
  <2>6. CASE StartTurn(r, opened)
    BY <1>1, <1>2, <1>3, <2>3, <2>4, <2>6, StartTurnWhole DEF OnlyOwn
  <2>7. CASE cmd[r].op = "reset" /\ Goto(r, "done") /\ UNCHANGED <<mem, time>>
    <3>1. mem'[r] = mem[r] /\ pc'[r] = "done" /\ clock' = clock /\ cmd'[r].op # "reply"
      BY <1>1, <2>4, <2>7 DEF Goto, TypeOK, time
    <3>2. QED
      BY <1>1, <1>2, <1>3, <3>1, StaysEmpty DEF OnlyOwn
  <2>8. CASE cmd[r].op = "phone" /\ Goto(r, "verify") /\ Hold(r, opened) /\ Tick(1)
    <3>1. mem'[r] = opened /\ pc'[r] = "verify" /\ clock' = clock + 1 /\ cmd'[r].op = "phone"
      BY <1>1, <2>4, <2>8 DEF Goto, Hold, Tick, TypeOK
    <3>2. QED
      BY <1>1, <1>2, <1>3, <2>3, <3>1, StaysEmpty DEF Unopened, OnlyOwn
  <2>9. QED
    BY <1>5, <2>5, <2>6, <2>7, <2>8 DEF FindSession, opened, id
<1>6. QED
  BY <1>4, <1>5

\* A found session is read, found idle or not, and closed: no turn is open yet.
LEMMA LoadedWhole ==
    ASSUME IInv, NEW r \in Requests, TurnInv(r),
           LoadMessages(r) \/ CheckIdle(r) \/ CloseTickets(r) \/ SaveClosed(r)
    PROVE  TurnInv(r)' /\ OnlyOwn(r)
<1>1. TypeOK /\ clock \in Nat
  BY DEF IInv, TypeOK
<1>2. pc[r] \in Unopened /\ pc[r] \in Holding /\ pc[r] # "new"
  BY DEF LoadMessages, CheckIdle, CloseTickets, SaveClosed, Unopened, Holding, Labels, Saving, Ended
<1>3. /\ mem[r] \in Session /\ mem[r] # None
      /\ cmd[r] \in Command /\ cmd[r].channel \in Channels
  BY <1>2, AtWork
<1>4. Sent(r) = {} /\ mem[r].pending = {}
  BY <1>2, <1>3, UnopenedIsEmpty
<1>5. messages' = messages /\ cmd' = cmd
  BY <1>4 DEF LoadMessages, CheckIdle, CloseTickets, SaveClosed, tables, past, Save
<1>6. Close(mem[r]).pending = {}
  BY <1>3, <1>4 DEF Close, Session
<1>7. CASE LoadMessages(r)
  <2> DEFINE s == [mem[r] EXCEPT !.known = HasUserMarker(Window(mem[r].sid))]
  <2>1. s.pending = {} /\ Close(s).pending = {}
    BY <1>3, <1>4 DEF Close, Session
  <2>2. mem'[r] = s \/ mem'[r] = Close(s)
    BY <1>1, <1>7 DEF LoadMessages, Hold, TypeOK
  <2>3. /\ clock' = clock
        /\ pc'[r] \in {"failed", "activity", "closeTickets", "verify"}
        /\ pc'[r] = "verify" => cmd[r].op = "phone"
    BY <1>1, <1>7 DEF LoadMessages, Goto, TypeOK, time
  <2> HIDE DEF s
  <2>4. QED
    BY <1>1, <1>4, <1>5, <2>1, <2>2, <2>3, StaysEmpty DEF Unopened, OnlyOwn
<1>8. CASE CheckIdle(r)
  <2>1. CASE Goto(r, "closeTickets") /\ Hold(r, Close(mem[r])) /\ UNCHANGED time
    <3>1. mem'[r] = Close(mem[r]) /\ pc'[r] = "closeTickets" /\ clock' = clock
      BY <1>1, <2>1 DEF Goto, Hold, TypeOK, time
    <3>2. QED
      BY <1>1, <1>4, <1>5, <1>6, <3>1, StaysEmpty DEF Unopened, OnlyOwn
  <2>2. CASE StartTurn(r, mem[r])
    BY <1>1, <1>3, <1>4, <1>5, <2>2, StartTurnWhole DEF OnlyOwn
  <2>3. QED
    BY <1>8, <2>1, <2>2 DEF CheckIdle
<1>9. CASE CloseTickets(r)
  <2>1. mem'[r] = mem[r] /\ pc'[r] = "saveClosed" /\ clock' = clock
    BY <1>1, <1>9 DEF CloseTickets, Goto, TypeOK, time
  <2>2. QED
    BY <1>1, <1>4, <1>5, <2>1, StaysEmpty DEF Unopened, OnlyOwn
<1>10. CASE SaveClosed(r)
  <2>1. CASE cmd[r].op = "reset"
    <3>1. mem'[r] = mem[r] /\ pc'[r] = "done" /\ clock' = clock
      BY <1>1, <1>10, <2>1 DEF SaveClosed, Goto, TypeOK, time
    <3>2. QED
      BY <1>1, <1>4, <1>5, <2>1, <3>1, StaysEmpty DEF OnlyOwn
  <2>2. CASE cmd[r].op # "reset"
    <3> DEFINE s == OpenWithID(r, mem[r].user, cmd[r].channel)
    <3>1. StartTurn(r, s)
      BY <1>10, <2>2 DEF SaveClosed
    <3>2. r \in SessionIds /\ mem[r].user \in Users
      BY <1>3 DEF SessionIds, Session
    <3>3. s \in Session /\ s.pending = {}
      BY <1>1, <1>3, <3>2, OpenedSession
    <3> HIDE DEF s
    <3>4. QED
      BY <1>1, <1>4, <1>5, <3>1, <3>3, StartTurnWhole DEF OnlyOwn
  <2>3. QED
    BY <2>1, <2>2
<1>11. QED
  BY <1>7, <1>8, <1>9, <1>10

\* A new session is saved, markers, the answer or a contact are saved.
LEMMA SavesWhole ==
    ASSUME IInv, NEW r \in Requests, TurnInv(r),
           SaveOpened(r) \/ SaveMarkers(r) \/ SaveReply(r) \/ SaveContact(r)
    PROVE  TurnInv(r)' /\ OnlyOwn(r)
<1>1. TypeOK /\ clock \in Nat
  BY DEF IInv, TypeOK
<1>2. pc[r] \in Holding /\ pc[r] \in {"saveOpened", "saveMarkers", "saveReply", "saveContact"}
  BY DEF SaveOpened, SaveMarkers, SaveReply, SaveContact, Holding, Labels, Saving, Ended
<1>3. cmd' = cmd /\ clock' = clock /\ clock <= clock'
  BY <1>1 DEF SaveOpened, SaveMarkers, SaveReply, SaveContact, past, time
<1>4. CASE Goto(r, "failed") /\ UNCHANGED <<sessions, messages, mem>>
  <2>1. pc'[r] = "failed"
    BY <1>1, <1>4 DEF Goto, TypeOK
  <2>2. Bodies(pc[r]) \subseteq Bodies("failed")
    BY <1>2 DEF Bodies, Unopened, Ended
  <2>3. QED
    BY <1>1, <1>3, <1>4, <2>1, <2>2, MovedWhole DEF Answering
<1>5. CASE Save(mem[r]) /\ Hold(r, MarkPersisted(mem[r]))
  <2>1. mem'[r] = MarkPersisted(mem[r])
    BY <1>1, <1>5 DEF Hold, TypeOK
  <2>2. CASE \/ pc[r] = "saveOpened" /\ pc'[r] \in {"gate", "respond"}
             \/ pc[r] = "saveMarkers" /\ pc'[r] = "respond"
    <3>1. Bodies(pc[r]) \subseteq Bodies(pc'[r])
      BY <2>2 DEF Bodies, Unopened, Ended
    <3>2. QED
      BY <1>1, <1>2, <1>3, <1>5, <2>1, <2>2, <3>1, SavedWhole DEF Answering
  <2>3. CASE pc[r] \in {"saveReply", "saveContact"} /\ pc'[r] = "done"
    <3>1. Bodies(pc[r]) \subseteq Bodies("done")
      BY <2>3 DEF Bodies, Unopened, Ended
    <3>2. pc[r] = "saveContact" => cmd[r].op = "phone"
      BY DEF TurnInv
    <3>3. QED
      BY <1>1, <1>2, <1>3, <1>5, <2>1, <2>3, <3>1, <3>2, SavedWhole DEF Answering
  <2>4. /\ SaveOpened(r) => pc[r] = "saveOpened" /\ pc'[r] \in {"gate", "respond", "failed"}
        /\ SaveMarkers(r) => pc[r] = "saveMarkers" /\ pc'[r] = "respond"
        /\ SaveReply(r) => pc[r] = "saveReply" /\ pc'[r] = "done"
        /\ SaveContact(r) => pc[r] = "saveContact" /\ pc'[r] \in {"done", "failed"}
    BY <1>1 DEF SaveOpened, SaveMarkers, SaveReply, SaveContact, Goto, Gate, TypeOK
  <2>5. CASE pc'[r] = "failed"
    <3>1. Bodies(pc[r]) \subseteq Bodies("failed")
      BY <1>2 DEF Bodies, Unopened, Ended
    <3>2. QED
      BY <1>1, <1>2, <1>3, <1>5, <2>1, <2>5, <3>1, SavedWhole DEF Answering
  <2>6. QED
    BY <2>2, <2>3, <2>4, <2>5
<1>6. QED
  BY <1>4, <1>5 DEF SaveOpened, SaveMarkers, SaveReply, SaveContact

\* The gate, the responder and the ticket desk answer a question that has no
\* answer yet, mark it, or pass it on.
LEMMA AnsweringWhole ==
    ASSUME IInv, NEW r \in Requests, TurnInv(r),
           EnsureVerified(r) \/ Respond(r) \/ FindTicket(r) \/ SaveTicket(r)
    PROVE  TurnInv(r)' /\ OnlyOwn(r)
<1> DEFINE B == {"text", "phoneMarker", "userMarker"}
<1>1. TypeOK /\ clock \in Nat
  BY DEF IInv, TypeOK
<1>2. pc[r] \in {"gate", "respond", "findTicket", "saveTicket"} /\ pc[r] \in Holding /\ pc[r] # "new"
  BY DEF EnsureVerified, Respond, FindTicket, SaveTicket, Holding, Labels, Saving, Ended
<1>3. mem[r] \in Session /\ mem[r] # None
  BY <1>2, AtWork
<1>4. messages' = messages /\ cmd' = cmd
  BY DEF EnsureVerified, Respond, FindTicket, SaveTicket, tables, past
<1>5. Turn(r) = Sent(r) \cup mem[r].pending /\ Draft(r) = mem[r].pending
  BY <1>3 DEF Turn, Draft
<1>6. Has(Turn(r), "text") /\ Laid(Turn(r), mem[r].sid, clock, Bodies(pc[r]))
  BY <1>2 DEF TurnInv, Answering
<1>7. Laid(Turn(r), mem[r].sid, clock, B) /\ (pc[r] = "gate" => Laid(Turn(r), mem[r].sid, clock, {"text"}))
  BY <1>2, <1>6 DEF Bodies, Laid, Unopened, Ended
<1>8. \A m \in Turn(r) : m.at \in Nat
  BY <1>1, <1>3, <1>5 DEF TypeOK, Sent, Session, Message
<1>9. ASSUME NEW n \in Nat, Answer(r, mem[r], n)
      PROVE  TurnInv(r)' /\ OnlyOwn(r)
  <2>1. Laid(Turn(r), mem[r].sid, clock + n, B)
    BY <1>1, <1>7, <1>8 DEF Laid
  <2>2. QED
    BY <1>1, <1>3, <1>4, <1>5, <1>6, <1>9, <2>1, AnswerWhole DEF OnlyOwn
<1>10. CASE pc[r] = "gate" /\ Answer(r, Marked(r), 2)
  <2>1. /\ Marked(r) \in Session /\ Marked(r).sid = mem[r].sid
        /\ mem[r].pending \subseteq Marked(r).pending
        /\ Laid(Sent(r) \cup Marked(r).pending, Marked(r).sid, clock + 2, B)
    BY <1>1, <1>3, <1>7, <1>10, MarkedWhole
  <2>2. Has(Sent(r) \cup Marked(r).pending, "text")
    BY <1>5, <1>6, <2>1 DEF Has
  <2>3. QED
    BY <1>1, <1>4, <1>10, <2>1, <2>2, AnswerWhole DEF OnlyOwn
<1>11. CASE pc[r] = "gate" /\ PassGate(r, Marked(r)) /\ Tick(2)
  <2>1. /\ Marked(r) \in Session /\ Marked(r).sid = mem[r].sid
        /\ mem[r].pending \subseteq Marked(r).pending
        /\ Laid(Sent(r) \cup Marked(r).pending, Marked(r).sid, clock + 2, B)
    BY <1>1, <1>3, <1>7, <1>11, MarkedWhole
  <2>2. Hold(r, Marked(r)) /\ pc'[r] \in {"respond", "saveMarkers"} /\ clock' = clock + 2
    BY <1>1, <1>11 DEF PassGate, Goto, Tick, TypeOK
  <2>3. /\ Sent(r)' = Sent(r) /\ mem'[r] = Marked(r) /\ Marked(r) # None
        /\ Turn(r)' = Sent(r) \cup Marked(r).pending
    BY <1>1, <1>4, <2>1, <2>2, HeldTurn
  <2>4. Has(Turn(r)', "text") /\ ~Has(Turn(r)', "answer") /\ ~Has(Sent(r)', "answer")
    BY <1>5, <1>6, <2>1, <2>3 DEF Has, Laid
  <2>5. Bodies(pc'[r]) = B
    BY <2>2 DEF Bodies, Unopened, Ended
  <2>6. Laid(Turn(r), mem[r].sid, clock, Bodies(pc[r]))'
    BY <2>1, <2>2, <2>3, <2>5 DEF Laid, Bodies
  <2>7. QED
    BY <1>1, <1>4, <2>2, <2>3, <2>4, <2>6 DEF TurnInv, Replied, Has, OnlyOwn
<1>12. ASSUME NEW l \in {"respond", "saveMarkers", "findTicket", "saveTicket", "failed"},
              mem'[r] = mem[r], pc'[r] = l, clock' = clock
       PROVE  TurnInv(r)' /\ OnlyOwn(r)
  <2>1. Bodies(pc[r]) \subseteq Bodies(l) /\ clock <= clock' /\ pc[r] \in Answering
    BY <1>1, <1>2, <1>12 DEF Bodies, Unopened, Ended, Answering
  <2>2. QED
    BY <1>1, <1>4, <1>12, <2>1, MovedWhole
<1>13. CASE EnsureVerified(r)
  <2>1. CASE PassGate(r, mem[r]) /\ UNCHANGED time
    <3>1. mem'[r] = mem[r] /\ pc'[r] \in {"respond", "saveMarkers"} /\ clock' = clock
      BY <1>1, <2>1 DEF PassGate, Goto, Hold, TypeOK, time
    <3>2. QED
      BY <3>1, <1>12
  <2>2. QED
    BY <1>9, <1>10, <1>11, <1>13, <2>1 DEF EnsureVerified
<1>14. CASE Respond(r)
  <2>1. CASE Goto(r, "findTicket") /\ UNCHANGED <<mem, time>>
    <3>1. mem'[r] = mem[r] /\ pc'[r] = "findTicket" /\ clock' = clock
      BY <1>1, <2>1 DEF Goto, TypeOK, time
    <3>2. QED
      BY <3>1, <1>12
  <2>2. QED
    BY <1>9, <1>14, <2>1 DEF Respond
<1>15. CASE FindTicket(r)
  <2>1. CASE Goto(r, "saveTicket") /\ UNCHANGED <<mem, time>>
    <3>1. mem'[r] = mem[r] /\ pc'[r] = "saveTicket" /\ clock' = clock
      BY <1>1, <2>1 DEF Goto, TypeOK, time
    <3>2. QED
      BY <3>1, <1>12
  <2>2. QED
    BY <1>9, <1>15, <2>1 DEF FindTicket
<1>16. CASE SaveTicket(r)
  <2>1. CASE Goto(r, "failed") /\ UNCHANGED <<tickets, mem, time>>
    <3>1. mem'[r] = mem[r] /\ pc'[r] = "failed" /\ clock' = clock
      BY <1>1, <2>1 DEF Goto, TypeOK, time
    <3>2. QED
      BY <3>1, <1>12
  <2>2. QED
    BY <1>9, <1>16, <2>1 DEF SaveTicket
<1>17. QED
  BY <1>13, <1>14, <1>15, <1>16

\* A shared contact either is refused or leaves its markers to be stored.
LEMMA VerifyPhoneWhole ==
    ASSUME IInv, NEW r \in Requests, TurnInv(r), VerifyPhone(r)
    PROVE  TurnInv(r)' /\ OnlyOwn(r)
<1>1. TypeOK /\ clock \in Nat
  BY DEF IInv, TypeOK
<1>2. pc[r] \in Unopened /\ pc[r] \in Holding /\ pc[r] # "new" /\ pc[r] = "verify"
  BY DEF VerifyPhone, Unopened, Holding, Labels, Saving, Ended
<1>3. mem[r] \in Session /\ cmd[r].op = "phone"
  BY <1>2, AtWork DEF TurnInv
<1>4. Sent(r) = {} /\ Turn(r) = {}
  BY <1>2, UnopenedIsEmpty
<1>5. messages' = messages /\ cmd' = cmd
  BY DEF VerifyPhone, tables, past
<1>6. CASE Goto(r, "done") /\ UNCHANGED <<mem, time>>
  <2>1. mem'[r] = mem[r] /\ pc'[r] = "done" /\ clock' = clock /\ cmd'[r].op # "reply"
    BY <1>1, <1>3, <1>5, <1>6 DEF Goto, TypeOK, time
  <2>2. mem[r] = None \/ mem[r].pending = {}
    BY <1>2, UnopenedIsEmpty
  <2>3. QED
    BY <1>1, <1>4, <1>5, <2>1, <2>2, StaysEmpty DEF OnlyOwn
<1>7. CASE Goto(r, "saveContact") /\ Hold(r, Marked(r)) /\ Tick(2)
  <2>1. Laid(Turn(r), mem[r].sid, clock, {"text"})
    BY <1>4 DEF Laid
  <2>2. /\ Marked(r) \in Session /\ Marked(r).sid = mem[r].sid
        /\ Laid(Sent(r) \cup Marked(r).pending, Marked(r).sid, clock + 2,
                {"text", "phoneMarker", "userMarker"})
    BY <1>1, <1>3, <2>1, MarkedWhole
  <2>3. pc'[r] = "saveContact" /\ clock' = clock + 2
    BY <1>1, <1>7 DEF Goto, Tick, TypeOK
  <2>4. /\ Sent(r)' = {} /\ mem'[r] = Marked(r) /\ Marked(r) # None
        /\ Turn(r)' = Sent(r) \cup Marked(r).pending
    BY <1>1, <1>4, <1>5, <1>7, <2>2, HeldTurn
  <2>5. Laid(Turn(r), mem[r].sid, clock, Bodies(pc[r]))'
    BY <2>2, <2>3, <2>4 DEF Laid, Bodies, Unopened, Ended
  <2>6. ~Has(Turn(r)', "answer") /\ ~Has(Sent(r)', "answer")
    BY <2>2, <2>4 DEF Has, Laid
  <2>7. QED
    BY <1>1, <1>3, <1>5, <2>3, <2>4, <2>5, <2>6 DEF TurnInv, Replied, Has, OnlyOwn, Answering
<1>8. QED
  BY <1>6, <1>7 DEF VerifyPhone

\* A failure stores the whole turn or nothing of it.
LEMMA FaultWhole ==
    ASSUME IInv, NEW r \in Requests, TurnInv(r), Fault(r)
    PROVE  TurnInv(r)' /\ OnlyOwn(r)
<1>1. TypeOK /\ clock \in Nat
  BY DEF IInv, TypeOK
<1>2. mem' = mem /\ cmd' = cmd
  BY DEF Fault, past
<1>3. Bodies(pc[r]) \subseteq Bodies("failed")
  BY DEF Bodies, Unopened, Ended
<1>4. CASE Goto(r, "failed") /\ messages' = messages /\ clock' \in {clock, clock + 1}
  <2>1. pc'[r] = "failed" /\ clock' \in Nat /\ clock <= clock'
    BY <1>1, <1>4 DEF Goto, TypeOK
  <2>2. QED
    BY <1>1, <1>2, <1>3, <1>4, <2>1, MovedWhole DEF Answering
<1>5. CASE pc[r] = "closeTickets" /\ Goto(r, "saveClosed") /\ UNCHANGED <<tables, time>>
  <2>1. pc'[r] = "saveClosed" /\ messages' = messages /\ clock' = clock /\ clock <= clock'
    BY <1>1, <1>5 DEF Goto, TypeOK, tables, time
  <2>2. Bodies(pc[r]) \subseteq Bodies("saveClosed")
    BY <1>5 DEF Bodies, Unopened
  <2>3. QED
    BY <1>1, <1>2, <2>1, <2>2, MovedWhole DEF Answering
<1>6. CASE pc[r] \in Saving /\ Save(mem[r]) /\ Goto(r, "failed") /\ UNCHANGED <<tickets, time>>
  <2>1. pc[r] \in Holding /\ clock' = clock
    BY <1>6 DEF Holding, Labels, Saving, Ended, time
  <2>2. pc'[r] = "failed" /\ mem'[r] = mem[r]
    BY <1>1, <1>2, <1>6 DEF Goto, TypeOK
  <2>3. QED
    BY <1>2, <1>3, <1>6, <2>1, <2>2, SavedWhole DEF Answering
<1>7. QED
  BY <1>4, <1>5, <1>6 DEF Fault, tables, time, Tick

\* No step of any call breaks a turn.
LEMMA NextTurns ==
    ASSUME IInv, TurnsInv, [Next]_vars
    PROVE  TurnsInv'
<1>1. TypeOK
  BY DEF IInv
<1>2. ASSUME NEW r \in Requests, Arrive(r) \/ Step(r) \/ Fault(r) PROVE TurnsInv'
  <2>1. TurnInv(r)
    BY DEF TurnsInv
  <2>2. TurnInv(r)' /\ OnlyOwn(r)
    BY <1>2, <2>1, FindSessionWhole, LoadedWhole, SavesWhole, AnsweringWhole, VerifyPhoneWhole, FaultWhole
    DEF Step
  <2>3. Frame(r)
    BY <1>2, StepGood DEF GoodStep
  <2>4. ASSUME NEW q \in Requests, q # r PROVE TurnInv(q)'
    <3>1. pc'[q] = pc[q] /\ mem'[q] = mem[q] /\ cmd'[q] = cmd[q] /\ TurnInv(q)
      BY <2>3, <2>4 DEF Frame, TurnsInv
    <3>2. QED
      BY <1>1, <2>2, <2>4, <3>1, TurnUndisturbed
  <2>5. QED
    BY <2>2, <2>4 DEF TurnsInv
<1>3. CASE TimePasses \/ UNCHANGED vars
  <2>1. UNCHANGED <<messages, clock, pc, mem, cmd>>
    BY <1>3 DEF TimePasses, vars, tables, time, past
  <2>2. QED
    BY <2>1 DEF TurnsInv, TurnInv, Turn, Sent, Draft, Laid, Replied, Has
<1>4. QED
  BY <1>2, <1>3 DEF Next, Drained

\* Before any call nothing is stored or held.
LEMMA InitTurns == Init => TurnsInv
BY DEF Init, TurnsInv, TurnInv, Turn, Sent, Draft, Laid, Replied, Has, Answering

\* Each call's messages lie in one session and are one of each kind, in spite of
\* rotation, of other calls and of failures at any step.
THEOREM TurnsAreWhole == Spec => []TurnsStayWhole
<1>1. Init => IInv /\ TurnsInv
  BY InitIInv, InitTurns
<1>2. (IInv /\ TurnsInv) /\ [Next]_vars => (IInv /\ TurnsInv)'
  BY NextIInv, NextTurns
<1>3. IInv /\ TurnsInv => TurnsStayWhole
  <2> SUFFICES ASSUME IInv, TurnsInv, NEW m \in messages, NEW n \in messages, m.from = n.from
               PROVE  m.sid = n.sid /\ (m.body = n.body => m = n)
    BY DEF TurnsStayWhole
  <2>1. m.from \in Requests
    BY DEF IInv, TypeOK, Message
  <2>2. m \in Turn(m.from) /\ n \in Turn(m.from) /\ TurnInv(m.from)
    BY <2>1 DEF Turn, Sent, TurnsInv
  <2>3. QED
    BY <2>2 DEF TurnInv, Laid
<1>4. QED
  BY <1>1, <1>2, <1>3, PTL DEF Spec

\* A stored answer follows its stored question in the same session, and a call
\* that returned a reply has stored it.
THEOREM AnswersHaveQuestions == Spec => []AnswersAreStoredTurns
<1>1. Init => IInv /\ TurnsInv
  BY InitIInv, InitTurns
<1>2. (IInv /\ TurnsInv) /\ [Next]_vars => (IInv /\ TurnsInv)'
  BY NextIInv, NextTurns
<1>3. IInv /\ TurnsInv => AnswersAreStoredTurns
  <2> SUFFICES ASSUME IInv, TurnsInv PROVE AnswersAreStoredTurns
    OBVIOUS
  <2>1. ASSUME NEW a \in messages, a.body = "answer"
        PROVE  \E q \in messages : q.body = "text" /\ q.from = a.from /\ q.sid = a.sid /\ q.at < a.at
    <3>1. a.from \in Requests
      BY DEF IInv, TypeOK, Message
    <3>2. a \in Sent(a.from) /\ a \in Turn(a.from) /\ TurnInv(a.from)
      BY <3>1 DEF Turn, Sent, TurnsInv
    <3>3. Draft(a.from) \subseteq messages
      BY <2>1, <3>2 DEF TurnInv, Has
    <3>4. PICK q \in Turn(a.from) : q.body = "text" /\ q.at < a.at
      BY <2>1, <3>2 DEF TurnInv, Replied
    <3>5. q.sid = a.sid /\ q \in messages
      BY <3>2, <3>3, <3>4 DEF TurnInv, Laid, Turn, Sent
    <3>6. q.from = a.from
      <4>1. CASE q \in Sent(a.from)
        BY <4>1 DEF Sent
      <4>2. CASE q \in Draft(a.from)
        BY <3>1, <4>2 DEF Draft, IInv, CallInv, Held, HeldBy
      <4>3. QED
        BY <3>4, <4>1, <4>2 DEF Turn
    <3>7. QED
      BY <3>4, <3>5, <3>6
  <2>2. ASSUME NEW r \in Requests, pc[r] = "done" /\ cmd[r].op = "reply"
        PROVE  \E a \in messages : a.body = "answer" /\ a.from = r
    BY <2>2 DEF TurnsInv, TurnInv, Has, Sent
  <2>3. QED
    BY <2>1, <2>2 DEF AnswersAreStoredTurns
<1>4. QED
  BY <1>1, <1>2, <1>3, PTL DEF Spec

-----------------------------------------------------------------------------
(* Calls of one customer, one after the other.                             *)

\* A customer waits for an answer before the next message; calls of different
\* customers overlap freely.
OneCallPerCustomer ==
    \A q, r \in InFlight : cmd[q].user = cmd[r].user => q = r

\* Up to here a call has opened no session of its own.
Early == {"new", "find", "load", "activity", "closeTickets", "saveClosed"}

\* Here a call works in an active session.
Working == Answering \cup {"saveOpened", "verify", "saveContact"}

IsActive(id)     == sessions[id] # None /\ sessions[id].status = "active"
NoOpenTicket(id) == \A t \in Requests : ~IsOpenTicket(t, id)

\* What holds of a call whose customer waits for it: the row of the session it
\* holds is as the call believes it to be.
CallSerial(r) ==
    /\ pc[r] \in {"new", "find"} => mem[r] = None
    /\ pc[r] \in Early => sessions[r] = None
    /\ pc[r] = "find" /\ cmd[r].hint \in Requests => sessions[cmd[r].hint] # None
    /\ pc[r] \in Holding /\ ~mem[r].persisted /\ mem[r].sid \in Requests =>
           mem[r].sid = r /\ sessions[r] = None
    /\ pc[r] \in Holding /\ mem[r].persisted /\ mem[r].user = cmd[r].user
         /\ mem[r].status = "active" => IsActive(mem[r].sid)
    /\ pc[r] \in {"activity", "closeTickets", "saveClosed"} => cmd[r].op # "phone"
    /\ pc[r] \in {"closeTickets", "saveClosed"} => mem[r].status = "closed"
    /\ pc[r] \in Working => mem[r].status = "active"
    /\ pc[r] = "load" /\ ~ByHint(r) => mem[r].status = "active"
    /\ avoid[r] \subseteq retired
    /\ mem[r] # None /\ cmd[r].hint \notin avoid[r] => mem[r].sid \notin avoid[r]
    /\ pc[r] = "saveClosed" /\ faults = 0 => NoOpenTicket(mem[r].sid)
    /\ pc[r] = "saveTicket" => NoOpenTicket(mem[r].sid)

RetiredAreClosed == \A id \in retired : sessions[id] # None /\ sessions[id].status = "closed"

OpenTicketsInv ==
    faults = 0 => \A t \in Requests : tickets[t] # None /\ tickets[t].status = "open" =>
        /\ IsActive(tickets[t].sid)
        /\ \A o \in Requests : IsOpenTicket(o, tickets[t].sid) => o = t

SerialInv == RetiredAreClosed /\ OpenTicketsInv /\ \A r \in Requests : CallSerial(r)

\* s2 is session s, apart from its messages.
SameSession(s2, s) ==
    /\ s2 \in Session
    /\ s2.sid = s.sid
    /\ s2.user = s.user
    /\ s2.channel = s.channel
    /\ s2.status = s.status
    /\ s2.persisted = s.persisted

\* A message is appended to the same session.
LEMMA AppendSame ==
    ASSUME NEW s \in Session, NEW r \in Requests, NEW t \in Nat,
           NEW role \in {"user", "assistant"},
           NEW body \in {"text", "phoneMarker", "userMarker", "answer"}
    PROVE  SameSession(Append(s, r, t, role, body), s)
<1>1. Append(s, r, t, role, body) \in Session /\ Append(s, r, t, role, body).sid = s.sid
  BY AppendEffect
<1>2. /\ Append(s, r, t, role, body).user = s.user
      /\ Append(s, r, t, role, body).channel = s.channel
      /\ Append(s, r, t, role, body).status = s.status
      /\ Append(s, r, t, role, body).persisted = s.persisted
  BY DEF Append, Session
<1>3. QED
  BY <1>1, <1>2 DEF SameSession

\* The turn starts in the given session, unless it is closed.
LEMMA StartTurnMoves ==
    ASSUME TypeOK, NEW r \in Requests, NEW s \in Session, StartTurn(r, s)
    PROVE  /\ SameSession(mem'[r], s)
           /\ pc'[r] = IF s.status = "closed" THEN "failed"
                       ELSE IF s.persisted THEN Gate(r) ELSE "saveOpened"
<1>1. clock \in Nat
  BY DEF TypeOK
<1>2. CASE s.status = "closed"
  BY <1>2 DEF StartTurn, Goto, Hold, TypeOK, SameSession
<1>3. CASE s.status # "closed"
  <2>1. SameSession(Enriched(Append(s, r, clock, "user", "text")), s)
    BY <1>1, AppendSame, EnrichedEffect DEF SameSession
  <2>2. mem'[r] = Enriched(Append(s, r, clock, "user", "text"))
    BY <1>3 DEF StartTurn, Hold, TypeOK
  <2>3. pc'[r] = IF s.persisted THEN Gate(r) ELSE "saveOpened"
    BY <1>3 DEF StartTurn, Goto, TypeOK
  <2>4. QED
    BY <1>3, <2>1, <2>2, <2>3
<1>4. QED
  BY <1>2, <1>3

\* The answer is appended to the given session.
LEMMA AnswerMoves ==
    ASSUME TypeOK, NEW r \in Requests, NEW s \in Session, NEW n \in Nat, Answer(r, s, n)
    PROVE  SameSession(mem'[r], s) /\ pc'[r] = "saveReply"
<1>1. clock + n \in Nat
  BY DEF TypeOK
<1>2. SameSession(Append(s, r, clock + n, "assistant", "answer"), s)
  BY <1>1, AppendSame
<1>3. QED
  BY <1>2 DEF Answer, Goto, Hold, TypeOK

\* The markers are appended to the session of the call.
LEMMA MarkedSame ==
    ASSUME TypeOK, NEW r \in Requests, mem[r] \in Session
    PROVE  SameSession(Marked(r), mem[r])
<1>1. clock \in Nat /\ clock + 1 \in Nat
  BY DEF TypeOK
<1> DEFINE p  == Append(mem[r], r, clock, "user", "phoneMarker")
           pu == Append(p, r, clock + 1, "user", "userMarker")
           u  == Append(mem[r], r, clock, "user", "userMarker")
<1>2. SameSession(p, mem[r]) /\ SameSession(u, mem[r])
  BY <1>1, AppendSame
<1>3. SameSession(pu, p)
  <2>1. p \in Session
    BY <1>2 DEF SameSession
  <2> HIDE DEF p
  <2>2. QED
    BY <1>1, <2>1, AppendSame
<1>4. Marked(r) = pu \/ Marked(r) = u
  BY DEF Marked
<1> HIDE DEF p, pu, u
<1>5. QED
  BY <1>2, <1>3, <1>4 DEF SameSession

-----------------------------------------------------------------------------
(* Which rows and tickets a step writes.                                   *)

\* A step of call r leaves the sessions alone or saves the one the call holds.
RowsOf(r) ==
    \/ sessions' = sessions
    \/ pc[r] \in Saving /\ CanSave(mem[r]) /\ Save(mem[r])

\* It leaves the tickets alone, closes those of its session or opens its own.
TicketsOf(r) ==
    \/ tickets' = tickets
    \/ pc[r] = "closeTickets" /\ CloseBySession(mem[r].sid) /\ sessions' = sessions
    \/ pc[r] = "saveTicket" /\ OpenTicket(r) /\ sessions' = sessions

\* A step writes no other rows and no other tickets.
LEMMA StepWrites ==
    ASSUME IInv, NEW r \in Requests, Step(r) \/ Fault(r)
    PROVE  RowsOf(r) /\ TicketsOf(r)
<1>1. ASSUME pc[r] \in {"saveClosed", "saveMarkers", "saveReply"} PROVE CanSave(mem[r])
  BY <1>1 DEF IInv, CallInv, Stored, Answering, CanSave
<1>2. CASE FindSession(r) \/ LoadMessages(r) \/ CheckIdle(r) \/ EnsureVerified(r)
           \/ Respond(r) \/ FindTicket(r) \/ VerifyPhone(r)
  BY <1>2 DEF FindSession, LoadMessages, CheckIdle, EnsureVerified, Respond, FindTicket,
              VerifyPhone, tables, RowsOf, TicketsOf
<1>3. CASE SaveClosed(r) \/ SaveOpened(r) \/ SaveMarkers(r) \/ SaveReply(r) \/ SaveContact(r)
  BY <1>1, <1>3 DEF SaveClosed, SaveOpened, SaveMarkers, SaveReply, SaveContact, Saving,
                    RowsOf, TicketsOf
<1>4. CASE CloseTickets(r) \/ SaveTicket(r)
  BY <1>4 DEF CloseTickets, SaveTicket, RowsOf, TicketsOf
<1>5. CASE Fault(r)
  BY <1>5 DEF Fault, tables, RowsOf, TicketsOf
<1>6. QED
  BY <1>2, <1>3, <1>4, <1>5 DEF Step

\* A saved row has the status of the saved session.
LEMMA SavedRow ==
    ASSUME IInv, NEW r \in Requests, pc[r] \in Saving, CanSave(mem[r]), Save(mem[r])
    PROVE  /\ mem[r] \in Session /\ mem[r].sid \in SessionIds /\ mem[r].user = cmd[r].user
           /\ mem[r].persisted => sessions[mem[r].sid] # None /\ sessions[mem[r].sid].user = cmd[r].user
           /\ ~mem[r].persisted => sessions[mem[r].sid] = None
           /\ sessions'[mem[r].sid] # None
           /\ sessions'[mem[r].sid].status = mem[r].status
           /\ sessions'[mem[r].sid].user = mem[r].user
           /\ ~mem[r].persisted => sessions'[mem[r].sid].channel = mem[r].channel
           /\ \A id \in SessionIds : id # mem[r].sid => sessions'[id] = sessions[id]
<1>1. pc[r] # "new" /\ pc[r] \in Holding /\ pc[r] \in Own
  BY DEF Saving, Holding, Own, Labels, Ended
<1>2. TypeOK /\ mem[r] \in Session /\ mem[r].sid \in SessionIds /\ HeldBy(r, mem[r])
  BY <1>1, AtWork
<1>3. mem[r].user = cmd[r].user
  BY <1>1 DEF IInv, CallInv
<1>4. /\ sessions'[mem[r].sid] # None /\ TablesGrow
      /\ ~mem[r].persisted => sessions'[mem[r].sid].user = mem[r].user
  BY <1>2, SaveEffect DEF HeldBy
<1>5. mem[r].persisted => sessions[mem[r].sid] \in Row /\ sessions[mem[r].sid].user = mem[r].user
  BY <1>2 DEF HeldBy, TypeOK
<1>6. \A id \in SessionIds : id # mem[r].sid => sessions'[id] = sessions[id]
  BY <1>2 DEF Save, TypeOK
<1>7. /\ sessions'[mem[r].sid].status = mem[r].status
      /\ ~mem[r].persisted => sessions'[mem[r].sid].channel = mem[r].channel
  BY <1>2, <1>5 DEF Save, TypeOK, Row
<1>8. sessions'[mem[r].sid].user = mem[r].user
  BY <1>2, <1>4, <1>5 DEF TablesGrow, HeldBy
<1>9. QED
  BY <1>2, <1>3, <1>4, <1>5, <1>6, <1>7, <1>8 DEF HeldBy, CanSave

\* A call writes no row of another customer.
LEMMA RowsOfOthers ==
    ASSUME IInv, NEW r \in Requests, Step(r) \/ Fault(r),
           NEW id \in SessionIds, sessions[id] # None, sessions[id].user # cmd[r].user
    PROVE  sessions'[id] = sessions[id]
<1>1. RowsOf(r)
  BY StepWrites
<1>2. CASE pc[r] \in Saving /\ CanSave(mem[r]) /\ Save(mem[r])
  BY <1>2, SavedRow
<1>3. QED
  BY <1>1, <1>2 DEF RowsOf

\* Nor does it open a ticket for another customer's session.
LEMMA TicketsOfOthers ==
    ASSUME IInv, NEW r \in Requests, Step(r) \/ Fault(r), NEW id \in SessionIds,
           sessions[id] # None, sessions[id].user # cmd[r].user, NoOpenTicket(id)
    PROVE  NoOpenTicket(id)'
<1>1. TicketsOf(r) /\ TypeOK
  BY StepWrites DEF IInv
<1>2. CASE tickets' = tickets
  BY <1>2 DEF NoOpenTicket, IsOpenTicket
<1>3. CASE pc[r] = "closeTickets" /\ CloseBySession(mem[r].sid)
  <2>1. ASSUME NEW t \in Requests PROVE ~IsOpenTicket(t, id)'
    <3>1. ~IsOpenTicket(t, id) /\ tickets[t] \in Ticket \cup {None}
      BY <1>1 DEF NoOpenTicket, TypeOK
    <3>2. tickets'[t] = IF IsOpenTicket(t, mem[r].sid) THEN [tickets[t] EXCEPT !.status = "closed"]
                                                       ELSE tickets[t]
      BY <1>3 DEF CloseBySession
    <3>3. QED
      BY <3>1, <3>2 DEF IsOpenTicket, Ticket
  <2>2. QED
    BY <2>1 DEF NoOpenTicket
<1>4. CASE pc[r] = "saveTicket" /\ OpenTicket(r)
  <2>1. pc[r] # "new" /\ pc[r] \in Holding /\ pc[r] \in Own /\ pc[r] \in Stored
    BY <1>4 DEF Holding, Own, Stored, Answering, Labels, Saving, Ended
  <2>2. sessions[mem[r].sid].user = cmd[r].user
    BY <2>1, AtWork DEF CallInv, HeldBy
  <2>3. tickets' = [tickets EXCEPT ![r] =
            [sid |-> mem[r].sid, user |-> mem[r].user, status |-> "open", at |-> clock]]
    BY <1>4 DEF OpenTicket
  <2>4. QED
    BY <1>1, <2>2, <2>3 DEF NoOpenTicket, IsOpenTicket, TypeOK
<1>5. QED
  BY <1>1, <1>2, <1>3, <1>4 DEF TicketsOf

\* No other call stores a session under the id of this one.
LEMMA OthersIds ==
    ASSUME IInv, SerialInv, NEW r \in Requests, Step(r) \/ Fault(r),
           NEW q \in Requests, q # r, sessions[q] = None
    PROVE  sessions'[q] = None
<1>1. RowsOf(r)
  BY StepWrites
<1>2. CASE pc[r] \in Saving /\ CanSave(mem[r]) /\ Save(mem[r])
  <2>1. pc[r] \in Holding /\ CallSerial(r)
    BY <1>2 DEF Saving, Holding, Labels, Ended, SerialInv
  <2>2. mem[r].sid # q
    <3>1. CASE mem[r].persisted
      BY <1>2, <3>1, SavedRow
    <3>2. CASE ~mem[r].persisted
      BY <2>1, <3>2 DEF CallSerial
    <3>3. QED
      BY <3>1, <3>2
  <2>3. q \in SessionIds
    BY DEF SessionIds
  <2>4. QED
    BY <1>2, <2>2, <2>3, SavedRow
<1>3. QED
  BY <1>1, <1>2 DEF RowsOf

\* What a step leaves of the history and of failures.
LEMMA StepKeeps ==
    ASSUME NEW r \in Requests, Step(r) \/ Fault(r)
    PROVE  /\ cmd' = cmd /\ avoid' = avoid /\ retired \subseteq retired'
           /\ Step(r) => faults' = faults
           /\ pc[r] \notin {"new"} \cup Ended
<1>1. CASE Step(r)
  BY <1>1 DEF Step, FindSession, LoadMessages, CheckIdle, CloseTickets, SaveClosed, SaveOpened,
     EnsureVerified, SaveMarkers, Respond, FindTicket, SaveTicket, SaveReply, VerifyPhone,
     SaveContact, past, Ended
<1>2. CASE Fault(r)
  <2>1. cmd' = cmd /\ avoid' = avoid /\ retired' = retired /\ pc[r] \notin {"new"} \cup Ended
    BY <1>2 DEF Fault, past, Saving, Ended
  <2>2. ~Step(r) \/ Step(r)
    OBVIOUS
  <2>3. QED
    BY <1>1, <2>1
<1>3. QED
  BY <1>1, <1>2

\* A call that stands still while another customer's call moves.
LEMMA SerialUndisturbed ==
    ASSUME IInv, SerialInv, OneCallPerCustomer, NEW r \in Requests, Step(r) \/ Fault(r),
           NEW q \in Requests, q # r
    PROVE  CallSerial(q)'
<1>1. /\ pc'[q] = pc[q] /\ mem'[q] = mem[q] /\ cmd' = cmd /\ avoid' = avoid
      /\ retired \subseteq retired' /\ TypeOK /\ TablesGrow
      /\ faults' = 0 => faults = 0
  <2>1. pc'[q] = pc[q] /\ mem'[q] = mem[q] /\ TypeOK /\ TablesGrow
    BY StepGood DEF GoodStep, Frame, IInv
  <2>2. faults' = 0 => faults = 0
    <3>1. CASE Step(r)
      BY <3>1, StepKeeps
    <3>2. CASE Fault(r)
      BY <2>1, <3>2 DEF Fault, TypeOK
    <3>3. QED
      BY <3>1, <3>2
  <2>3. QED
    BY <2>1, <2>2, StepKeeps
<1>2. CallSerial(q)
  BY DEF SerialInv
<1>3. sessions[q] = None => sessions'[q] = None
  BY OthersIds
<1>4. pc[q] \in Early => sessions'[q] = None
  BY <1>2, <1>3 DEF CallSerial
<1>5. pc[q] = "find" /\ cmd[q].hint \in Requests => sessions'[cmd[q].hint] # None
  BY <1>1, <1>2 DEF CallSerial, TablesGrow, SessionIds
<1>6. ASSUME pc[q] \in Holding
      PROVE  /\ q \in InFlight /\ mem[q] \in Session /\ mem[q].sid \in SessionIds
             /\ mem[q].persisted => sessions[mem[q].sid] # None /\ sessions[mem[q].sid].user = mem[q].user
  <2>1. pc[q] # "new"
    BY <1>6 DEF Holding
  <2>2. q \in InFlight
    BY <1>6 DEF Holding, InFlight
  <2>3. QED
    BY <1>6, <2>1, <2>2, AtWork DEF HeldBy
<1>7. q \in InFlight => cmd[q].user # cmd[r].user
  BY StepKeeps DEF InFlight, OneCallPerCustomer
<1>8. pc[q] \in Holding /\ mem[q].persisted /\ mem[q].user = cmd[q].user =>
          sessions'[mem[q].sid] = sessions[mem[q].sid]
  BY <1>6, <1>7, RowsOfOthers
<1>9. pc[q] \in {"saveClosed", "saveTicket"} /\ NoOpenTicket(mem[q].sid) => NoOpenTicket(mem[q].sid)'
  <2> SUFFICES ASSUME pc[q] \in {"saveClosed", "saveTicket"}, NoOpenTicket(mem[q].sid)
               PROVE  NoOpenTicket(mem[q].sid)'
    OBVIOUS
  <2>1. pc[q] \in Holding /\ pc[q] \in Own /\ pc[q] \in Stored
    BY DEF Holding, Own, Stored, Answering, Labels, Saving, Ended
  <2>2. mem[q].persisted /\ mem[q].user = cmd[q].user
    BY <2>1 DEF IInv, CallInv
  <2>3. PICK id : id = mem[q].sid
    OBVIOUS
  <2>4. NoOpenTicket(id)'
    BY <1>6, <1>7, <2>1, <2>2, <2>3, TicketsOfOthers
  <2>5. mem'[q].sid = id
    BY <1>1, <2>3
  <2>6. QED
    BY <2>4, <2>5 DEF NoOpenTicket, IsOpenTicket
<1>10. pc[q] = "load" /\ ~ByHint(q)' => ~ByHint(q)
  BY <1>1 DEF ByHint
<1>11. QED
  BY <1>1, <1>2, <1>3, <1>4, <1>5, <1>8, <1>9, <1>10 DEF CallSerial, IsActive

\* A call that saves an active session saves it over an active row or none, and
\* only a rotation or a reset saves a closed one.
LEMMA SavedStatus ==
    ASSUME IInv, SerialInv, NEW r \in Requests, pc[r] \in Saving, CanSave(mem[r]), Save(mem[r])
    PROVE  \/ /\ pc[r] = "saveClosed" /\ mem[r].status = "closed"
              /\ faults = 0 => NoOpenTicket(mem[r].sid)
           \/ /\ pc[r] # "saveClosed" /\ mem[r].status = "active"
              /\ sessions[mem[r].sid] = None \/ IsActive(mem[r].sid)
<1>1. CallSerial(r) /\ pc[r] \in Holding
  BY DEF SerialInv, Saving, Holding, Labels, Ended
<1>2. mem[r].user = cmd[r].user
  BY SavedRow
<1>3. pc[r] # "saveClosed" => pc[r] \in Working
  BY DEF Saving, Working, Answering
<1>4. QED
  BY <1>1, <1>2, <1>3 DEF CallSerial, CanSave

\* What ResetSession closed stays closed.
LEMMA RetiredStayClosed ==
    ASSUME IInv, SerialInv, NEW r \in Requests, Step(r) \/ Fault(r)
    PROVE  RetiredAreClosed'
<1>1. TypeOK /\ RetiredAreClosed
  BY DEF IInv, SerialInv
<1>2. ASSUME NEW id \in retired PROVE sessions'[id] # None /\ sessions'[id].status = "closed"
  <2>1. id \in SessionIds /\ sessions[id] # None /\ sessions[id].status = "closed"
    BY <1>1 DEF TypeOK, RetiredAreClosed
  <2>2. CASE pc[r] \in Saving /\ CanSave(mem[r]) /\ Save(mem[r])
    <3>1. CASE id = mem[r].sid
      BY <2>1, <2>2, <3>1, SavedStatus, SavedRow DEF IsActive
    <3>2. CASE id # mem[r].sid
      BY <2>1, <2>2, <3>2, SavedRow
    <3>3. QED
      BY <3>1, <3>2
  <2>3. QED
    BY <2>1, <2>2, StepWrites DEF RowsOf
<1>3. retired' = retired \/ (SaveClosed(r) /\ retired' = retired \cup {mem[r].sid})
  <2>1. CASE SaveClosed(r)
    BY <2>1 DEF SaveClosed
  <2>2. CASE ~SaveClosed(r)
    BY <2>2 DEF Step, Fault, FindSession, LoadMessages, CheckIdle, CloseTickets, SaveOpened,
       EnsureVerified, SaveMarkers, Respond, FindTicket, SaveTicket, SaveReply, VerifyPhone,
       SaveContact, past
  <2>3. QED
    BY <2>1, <2>2
<1>4. CASE retired' = retired
  BY <1>2, <1>4 DEF RetiredAreClosed
<1>5. CASE SaveClosed(r) /\ retired' = retired \cup {mem[r].sid}
  <2>1. pc[r] \in Saving /\ pc[r] = "saveClosed" /\ Save(mem[r])
    BY <1>5 DEF SaveClosed, Saving
  <2>2. CanSave(mem[r])
    BY <2>1 DEF IInv, CallInv, Stored, Answering, CanSave
  <2>3. mem[r].status = "closed"
    BY <2>1, <2>2, SavedStatus
  <2>4. sessions'[mem[r].sid] # None /\ sessions'[mem[r].sid].status = "closed"
    BY <2>1, <2>2, <2>3, SavedRow
  <2>5. QED
    BY <1>2, <1>5, <2>4 DEF RetiredAreClosed
<1>6. QED
  BY <1>3, <1>4, <1>5

\* An open ticket stays the only one of an active session.
LEMMA OpenTicketsStay ==
    ASSUME IInv, SerialInv, NEW r \in Requests, Step(r) \/ Fault(r)
    PROVE  OpenTicketsInv'
<1> SUFFICES ASSUME faults' = 0, NEW t \in Requests,
                    tickets'[t] # None, tickets'[t].status = "open"
             PROVE  /\ IsActive(tickets[t].sid)'
                    /\ \A o \in Requests : IsOpenTicket(o, tickets[t].sid)' => o = t
  BY DEF OpenTicketsInv
<1>1. TypeOK /\ faults = 0
  BY StepKeeps DEF IInv, Fault, TypeOK
<1>2. \A o \in Requests : tickets[o] \in Ticket \cup {None}
  BY <1>1 DEF TypeOK
<1>3. ASSUME tickets[t] # None, tickets[t].status = "open"
      PROVE  /\ IsActive(tickets[t].sid) /\ tickets[t].sid \in SessionIds
             /\ \A o \in Requests : IsOpenTicket(o, tickets[t].sid) => o = t
             /\ IsOpenTicket(t, tickets[t].sid)
             /\ IsActive(tickets[t].sid)'  \/ tickets' # tickets
  <2>1. /\ IsActive(tickets[t].sid) /\ tickets[t].sid \in SessionIds
        /\ \A o \in Requests : IsOpenTicket(o, tickets[t].sid) => o = t
        /\ IsOpenTicket(t, tickets[t].sid)
    BY <1>1, <1>2, <1>3 DEF SerialInv, OpenTicketsInv, Ticket, IsOpenTicket
  <2>2. PICK id \in SessionIds : id = tickets[t].sid
    BY <2>1
  <2>3. sessions'[id] # None /\ sessions'[id].status = "active"
    <3>1. CASE pc[r] \in Saving /\ CanSave(mem[r]) /\ Save(mem[r])
      <4>1. CASE id = mem[r].sid
        <5>1. ~NoOpenTicket(mem[r].sid)
          BY <2>1, <2>2, <4>1 DEF NoOpenTicket
        <5>2. QED
          BY <1>1, <3>1, <4>1, <5>1, SavedStatus, SavedRow
      <4>2. CASE id # mem[r].sid
        BY <2>1, <2>2, <3>1, <4>2, SavedRow DEF IsActive
      <4>3. QED
        BY <4>1, <4>2
    <3>2. QED
      BY <2>1, <2>2, <3>1, StepWrites DEF RowsOf, IsActive
  <2>4. QED
    BY <2>1, <2>2, <2>3 DEF IsActive
<1>4. CASE tickets' = tickets
  BY <1>3, <1>4 DEF IsActive, IsOpenTicket
<1>5. CASE pc[r] = "closeTickets" /\ CloseBySession(mem[r].sid) /\ sessions' = sessions
  <2>1. ASSUME NEW o \in Requests
        PROVE  tickets'[o] = IF IsOpenTicket(o, mem[r].sid) THEN [tickets[o] EXCEPT !.status = "closed"]
                                                            ELSE tickets[o]
    BY <1>5 DEF CloseBySession
  <2>2. \A o \in Requests : tickets'[o] # None /\ tickets'[o].status # "closed" => tickets'[o] = tickets[o]
    BY <1>2, <2>1 DEF IsOpenTicket, Ticket
  <2>3. QED
    BY <1>3, <1>5, <2>2 DEF IsActive, IsOpenTicket
<1>6. CASE pc[r] = "saveTicket" /\ OpenTicket(r) /\ sessions' = sessions
  <2>1. pc[r] \in Holding /\ pc[r] \in Own /\ pc[r] \in Stored /\ pc[r] \in Working
    BY <1>6 DEF Holding, Own, Stored, Working, Answering, Labels, Saving, Ended
  <2>2. IsActive(mem[r].sid) /\ NoOpenTicket(mem[r].sid)
    BY <1>6, <2>1 DEF SerialInv, CallSerial, IInv, CallInv
  <2>3. /\ tickets'[r] = [sid |-> mem[r].sid, user |-> mem[r].user, status |-> "open", at |-> clock]
        /\ \A o \in Requests : o # r => tickets'[o] = tickets[o]
    BY <1>1, <1>6 DEF OpenTicket, TypeOK
  <2>4. CASE t = r
    BY <1>6, <2>2, <2>3, <2>4 DEF NoOpenTicket, IsOpenTicket, IsActive
  <2>5. CASE t # r
    <3>1. tickets[t] # None /\ tickets[t].status = "open" /\ tickets'[t] = tickets[t]
      BY <2>3, <2>5
    <3>2. tickets[t].sid # mem[r].sid
      BY <1>3, <2>2, <3>1 DEF NoOpenTicket
    <3>3. QED
      BY <1>3, <1>6, <2>3, <3>1, <3>2 DEF IsOpenTicket, IsActive
  <2>6. QED
    BY <2>4, <2>5
<1>7. QED
  BY <1>4, <1>5, <1>6, StepWrites DEF TicketsOf

\* A call that ends keeps the session it holds, if any.
LEMMA SerialEnded ==
    ASSUME SerialInv, NEW r \in Requests, Step(r) \/ Fault(r), pc'[r] \in Ended,
           mem[r] = None \/ mem'[r].sid = mem[r].sid, mem[r] = None => mem'[r] = None
    PROVE  CallSerial(r)'
<1>1. CallSerial(r) /\ cmd' = cmd /\ avoid' = avoid /\ retired \subseteq retired'
  BY StepKeeps DEF SerialInv
<1>2. pc'[r] \notin Early \cup Holding \cup Working \cup {"find"}
  BY DEF Early, Holding, Working, Answering, Labels, Saving, Ended
<1>3. avoid'[r] \subseteq retired'
  BY <1>1 DEF CallSerial
<1>4. mem'[r] # None /\ cmd'[r].hint \notin avoid'[r] => mem'[r].sid \notin avoid'[r]
  BY <1>1 DEF CallSerial
<1>5. QED
  BY <1>2, <1>3, <1>4 DEF CallSerial, Early, Working, Answering

\* A call that goes on in the session it holds and writes nothing.
LEMMA SerialMoved ==
    ASSUME IInv, SerialInv, NEW r \in Requests, Step(r) \/ Fault(r), pc[r] \in Holding,
           SameSession(mem'[r], mem[r]), sessions' = sessions, tickets' = tickets,
           pc'[r] \in Working \cup {"activity"},
           pc'[r] = "activity" => pc[r] = "load" /\ cmd[r].op = "reply",
           pc'[r] \in Working => mem[r].status = "active",
           pc'[r] = "saveTicket" => NoOpenTicket(mem[r].sid)
    PROVE  CallSerial(r)'
<1>1. CallSerial(r) /\ cmd' = cmd /\ avoid' = avoid /\ retired \subseteq retired'
  BY StepKeeps DEF SerialInv
<1>2. mem[r] # None /\ mem[r] \in Session
  BY AtWork DEF Holding
<1>3. pc'[r] \notin {"new", "find", "load", "closeTickets", "saveClosed"}
  BY DEF Working, Answering
<1>4. NoOpenTicket(mem[r].sid) /\ pc'[r] = "saveTicket" => NoOpenTicket(mem[r].sid)'
  BY DEF NoOpenTicket, IsOpenTicket, SameSession
<1>5. avoid'[r] \subseteq retired'
  BY <1>1 DEF CallSerial
<1>6. pc'[r] \in Early => sessions[r] = None
  BY <1>1 DEF CallSerial, Early, Working, Answering
<1>7. QED
  BY <1>1, <1>2, <1>3, <1>4, <1>5, <1>6 DEF CallSerial, SameSession, IsActive

\* A call that goes on in a session it has just saved.
LEMMA SerialSaved ==
    ASSUME IInv, SerialInv, NEW r \in Requests, Step(r) \/ Fault(r),
           pc[r] \in Saving \ {"saveClosed"}, CanSave(mem[r]), Save(mem[r]),
           mem'[r] = MarkPersisted(mem[r]), pc'[r] \in {"gate", "respond"} \cup Ended
    PROVE  CallSerial(r)'
<1>1. CallSerial(r) /\ cmd' = cmd /\ avoid' = avoid /\ retired \subseteq retired'
  BY StepKeeps DEF SerialInv
<1>2. pc[r] \in Holding /\ mem[r] # None /\ mem[r] \in Session
  BY AtWork DEF Holding, Labels, Saving, Ended
<1>3. mem[r].status = "active" /\ sessions'[mem[r].sid] # None /\ sessions'[mem[r].sid].status = "active"
  BY SavedStatus, SavedRow
<1>4. /\ mem'[r].sid = mem[r].sid /\ mem'[r].user = mem[r].user
      /\ mem'[r].persisted /\ mem'[r].status = "active"
  BY <1>2, <1>3 DEF MarkPersisted, Session
<1>5. pc'[r] \notin Early \cup {"load", "saveTicket"}
  BY DEF Early, Ended
<1>6. avoid'[r] \subseteq retired'
  BY <1>1 DEF CallSerial
<1>7. QED
  BY <1>1, <1>2, <1>3, <1>4, <1>5, <1>6 DEF CallSerial, IsActive, Early

\* A call that goes on in a session it has just opened.
LEMMA SerialOpened ==
    ASSUME SerialInv, NEW r \in Requests, Step(r) \/ Fault(r),
           pc'[r] \in {"saveOpened", "verify"},
           ~mem'[r].persisted, mem'[r].status = "active",
           mem'[r].sid \in Requests => mem'[r].sid = r /\ sessions'[r] = None,
           cmd[r].hint \notin avoid[r] => mem'[r].sid \notin avoid[r]
    PROVE  CallSerial(r)'
<1>1. CallSerial(r) /\ cmd' = cmd /\ avoid' = avoid /\ retired \subseteq retired'
  BY StepKeeps DEF SerialInv
<1>2. pc'[r] \notin Early \cup {"load", "saveTicket", "closeTickets", "saveClosed"}
  BY DEF Early
<1>3. avoid'[r] \subseteq retired'
  BY <1>1 DEF CallSerial
<1>4. QED
  BY <1>1, <1>2, <1>3 DEF CallSerial, Early

-----------------------------------------------------------------------------

\* A call that arrives finds no session stored under its own id.
LEMMA ArriveSerial ==
    ASSUME IInv, SerialInv, NEW r \in Requests, Arrive(r)
    PROVE  SerialInv'
<1>1. TypeOK /\ CallSerial(r)
  BY DEF IInv, SerialInv
<1>2. /\ UNCHANGED <<sessions, tickets, mem, faults, retired>>
      /\ pc[r] = "new" /\ pc'[r] = "find" /\ avoid'[r] = retired
      /\ cmd'[r].hint \in Requests => sessions[cmd'[r].hint] # None
  BY <1>1 DEF Arrive, tables, Goto, TypeOK
<1>3. mem'[r] = None /\ sessions'[r] = None
  BY <1>1, <1>2 DEF CallSerial, Early
<1>4. CallSerial(r)'
  BY <1>2, <1>3 DEF CallSerial, Holding, Working, Answering, Labels, Saving, Ended
<1>5. ASSUME NEW q \in Requests, q # r PROVE CallSerial(q)'
  <2>1. pc'[q] = pc[q] /\ cmd'[q] = cmd[q] /\ avoid'[q] = avoid[q] /\ CallSerial(q)
    BY <1>1, <1>5 DEF Arrive, Goto, TypeOK, SerialInv
  <2>2. QED
    BY <1>2, <2>1 DEF CallSerial, IsActive, NoOpenTicket, IsOpenTicket, ByHint
<1>6. RetiredAreClosed' /\ OpenTicketsInv'
  BY <1>2 DEF SerialInv, RetiredAreClosed, OpenTicketsInv, IsActive, IsOpenTicket
<1>7. QED
  BY <1>4, <1>5, <1>6 DEF SerialInv

\* The session found is active, or the one the caller named; the one opened has a
\* free id.
LEMMA FindSessionSerial ==
    ASSUME IInv, SerialInv, NEW r \in Requests, FindSession(r)
    PROVE  CallSerial(r)'
<1>1. TypeOK /\ CallSerial(r) /\ Step(r) /\ pc[r] = "find"
  BY DEF IInv, SerialInv, Step, FindSession
<1>2. /\ cmd[r] \in Command /\ cmd[r].user \in Users /\ cmd[r].channel \in Channels
  BY <1>1, AtWork
<1>3. /\ UNCHANGED <<sessions, tickets, cmd, retired, avoid, faults>>
      /\ mem[r] = None /\ sessions[r] = None /\ avoid[r] \subseteq retired
      /\ r \in SessionIds
  BY <1>1 DEF FindSession, tables, past, CallSerial, Early, SessionIds
<1> DEFINE id0 == IF ByHint(r) THEN cmd[r].hint ELSE r
           opened == OpenWithID(id0, cmd[r].user, cmd[r].channel)
<1>4. r \notin avoid[r]
  BY <1>3 DEF SerialInv, RetiredAreClosed
<1>5. CASE \E id \in SessionIds :
              /\ IF ByHint(r) THEN id = cmd[r].hint /\ sessions[id] # None
                              ELSE IsFindActive(cmd[r].user, cmd[r].channel, id)
              /\ Hold(r, Reconstitute(id))
              /\ Goto(r, "load")
              /\ UNCHANGED time
  <2>1. PICK id \in SessionIds :
              /\ IF ByHint(r) THEN id = cmd[r].hint /\ sessions[id] # None
                              ELSE IsFindActive(cmd[r].user, cmd[r].channel, id)
              /\ Hold(r, Reconstitute(id))
              /\ Goto(r, "load")
    BY <1>5
  <2>2. /\ pc'[r] = "load" /\ mem'[r] = Reconstitute(id)
    BY <1>1, <2>1 DEF Goto, Hold, TypeOK
  <2>3. /\ mem'[r].sid = id /\ mem'[r].status = sessions[id].status /\ mem'[r].persisted
    BY <2>2 DEF Reconstitute
  <2>4. sessions[id] # None /\ (~ByHint(r) => sessions[id].status = "active")
    BY <2>1 DEF IsFindActive, ActiveOf
  <2>5. id \in avoid[r] => sessions[id].status = "closed"
    BY <1>3 DEF SerialInv, RetiredAreClosed
  <2>6. cmd[r].hint \notin avoid[r] => id \notin avoid[r]
    BY <2>1, <2>4, <2>5
  <2>7. ByHint(r)' = ByHint(r)
    BY <1>3 DEF ByHint
  <2>8. QED
    BY <1>3, <2>2, <2>3, <2>4, <2>6, <2>7
       DEF CallSerial, IsActive, Early, Holding, Working, Answering, Labels, Saving, Ended
<1>6. /\ opened.sid = id0 /\ opened.status = "active" /\ ~opened.persisted /\ opened \in Session
  <2>1. id0 \in SessionIds
    BY <1>2, <1>3 DEF SessionIds, ByHint, Command
  <2> HIDE DEF id0
  <2>2. QED
    BY <1>1, <1>2, <2>1, OpenedSession DEF OpenWithID
<1>7. ASSUME IF ByHint(r) THEN sessions[cmd[r].hint] = None ELSE ActiveOf(cmd[r].user, cmd[r].channel) = {}
      PROVE  /\ id0 \in Requests => id0 = r
             /\ cmd[r].hint \notin avoid[r] => id0 \notin avoid[r]
  BY <1>1, <1>4, <1>7 DEF CallSerial
<1>8. CASE cmd[r].op = "reply" /\ StartTurn(r, opened)
           /\ IF ByHint(r) THEN sessions[cmd[r].hint] = None ELSE ActiveOf(cmd[r].user, cmd[r].channel) = {}
  <2>1. SameSession(mem'[r], opened) /\ pc'[r] = "saveOpened"
    <3> HIDE DEF opened
    <3>1. QED
      BY <1>1, <1>6, <1>8, StartTurnMoves
  <2>2. QED
    BY <1>1, <1>3, <1>6, <1>7, <1>8, <2>1, SerialOpened DEF SameSession
<1>9. CASE cmd[r].op = "reset" /\ Goto(r, "done") /\ UNCHANGED <<mem, time>>
  <2>1. pc'[r] = "done" /\ mem'[r] = None
    BY <1>1, <1>3, <1>9 DEF Goto, TypeOK
  <2>2. QED
    BY <1>1, <1>3, <2>1, SerialEnded DEF Ended
<1>10. CASE cmd[r].op = "phone" /\ Goto(r, "verify") /\ Hold(r, opened)
           /\ IF ByHint(r) THEN sessions[cmd[r].hint] = None ELSE ActiveOf(cmd[r].user, cmd[r].channel) = {}
  <2>1. mem'[r] = opened /\ pc'[r] = "verify"
    BY <1>1, <1>10 DEF Goto, Hold, TypeOK
  <2>2. QED
    BY <1>1, <1>3, <1>6, <1>7, <1>10, <2>1, SerialOpened
<1>11. QED
  BY <1>5, <1>8, <1>9, <1>10 DEF FindSession

\* Loading its messages does not change what the call believes of its session.
LEMMA LoadMessagesSerial ==
    ASSUME IInv, SerialInv, NEW r \in Requests, LoadMessages(r)
    PROVE  CallSerial(r)'
<1>1. /\ TypeOK /\ CallSerial(r) /\ Step(r) /\ pc[r] = "load"
      /\ pc[r] # "new" /\ pc[r] \in Holding /\ pc[r] \in Early
  BY DEF IInv, SerialInv, Step, LoadMessages, Holding, Early, Labels, Ended
<1>2. mem[r] \in Session /\ mem[r] # None /\ cmd[r] \in Command
  BY <1>1, AtWork
<1>3. UNCHANGED <<sessions, tickets, cmd, faults, avoid, retired>>
  BY DEF LoadMessages, tables, past
<1> DEFINE s == [mem[r] EXCEPT !.known = HasUserMarker(Window(mem[r].sid))]
<1>4. SameSession(s, mem[r])
  <2>1. HasUserMarker(Window(mem[r].sid)) \in BOOLEAN
    BY DEF HasUserMarker
  <2>2. PICK k \in BOOLEAN : k = HasUserMarker(Window(mem[r].sid))
    BY <2>1
  <2>3. [mem[r] EXCEPT !.known = k] \in Session
    BY <1>2 DEF Session
  <2>4. SameSession([mem[r] EXCEPT !.known = k], mem[r])
    BY <1>2, <2>3 DEF SameSession, Session
  <2>5. QED
    BY <2>2, <2>4
<1>5. PICK s1 : s1 = s
  OBVIOUS
<1>6. CASE Goto(r, "failed") /\ Hold(r, s)
  <2>1. pc'[r] = "failed" /\ mem'[r] = s1
    BY <1>1, <1>5, <1>6 DEF Goto, Hold, TypeOK
  <2>2. mem'[r].sid = mem[r].sid
    BY <1>4, <1>5, <2>1 DEF SameSession
  <2>3. QED
    BY <1>1, <1>2, <2>1, <2>2, SerialEnded DEF Ended
<1>7. CASE cmd[r].op = "reply" /\ Goto(r, "activity") /\ Hold(r, s)
  <2>1. pc'[r] = "activity" /\ mem'[r] = s1 /\ cmd[r].op = "reply"
    BY <1>1, <1>5, <1>7 DEF Goto, Hold, TypeOK
  <2>2. SameSession(mem'[r], mem[r])
    BY <1>4, <1>5, <2>1
  <2>3. pc'[r] \notin Working
    BY <2>1 DEF Working, Answering
  <2>4. QED
    BY <1>1, <1>3, <2>1, <2>2, <2>3, SerialMoved
<1>8. CASE cmd[r].op = "reset" /\ Goto(r, "closeTickets") /\ Hold(r, Close(s))
  <2>1. pc'[r] = "closeTickets" /\ mem'[r] = Close(s1)
    BY <1>1, <1>5, <1>8 DEF Goto, Hold, TypeOK
  <2>2. /\ mem'[r].sid = mem[r].sid /\ mem'[r].persisted = mem[r].persisted
        /\ mem'[r].status = "closed"
    BY <1>4, <1>5, <2>1 DEF SameSession, Close, Session
  <2>3. mem[r].persisted
    BY <1>1 DEF IInv, CallInv, Stored
  <2>4. QED
    BY <1>1, <1>2, <1>3, <1>8, <2>1, <2>2, <2>3 DEF CallSerial, Early, Working, Answering
<1>9. CASE cmd[r].op = "phone" /\ Goto(r, "verify") /\ Hold(r, s)
  <2>1. pc'[r] = "verify" /\ mem'[r] = s1
    BY <1>1, <1>5, <1>9 DEF Goto, Hold, TypeOK
  <2>2. SameSession(mem'[r], mem[r])
    BY <1>4, <1>5, <2>1
  <2>3. mem[r].status = "active"
    BY <1>1, <1>9 DEF CallSerial, ByHint
  <2>4. pc'[r] \in Working /\ pc'[r] \notin Early
    BY <2>1 DEF Working, Early
  <2>5. QED
    BY <1>1, <1>3, <2>1, <2>2, <2>3, <2>4, SerialMoved
<1>10. QED
  BY <1>6, <1>7, <1>8, <1>9 DEF LoadMessages

\* A closed session takes no turn; an idle one is about to be closed.
LEMMA CheckIdleSerial ==
    ASSUME IInv, SerialInv, NEW r \in Requests, CheckIdle(r)
    PROVE  CallSerial(r)'
<1>1. /\ TypeOK /\ CallSerial(r) /\ Step(r) /\ pc[r] = "activity"
      /\ pc[r] # "new" /\ pc[r] \in Holding /\ pc[r] \in Early
  BY DEF IInv, SerialInv, Step, CheckIdle, Holding, Early, Labels, Ended
<1>2. mem[r] \in Session /\ mem[r] # None /\ cmd[r] \in Command /\ mem[r].persisted
  BY <1>1, AtWork DEF CallInv, Stored
<1>3. UNCHANGED <<sessions, tickets, cmd, faults, avoid, retired>>
  BY DEF CheckIdle, tables, past
<1>4. CASE Goto(r, "closeTickets") /\ Hold(r, Close(mem[r]))
  <2>1. pc'[r] = "closeTickets" /\ mem'[r] = Close(mem[r])
    BY <1>1, <1>4 DEF Goto, Hold, TypeOK
  <2>2. /\ mem'[r].sid = mem[r].sid /\ mem'[r].persisted
        /\ mem'[r].status = "closed"
    BY <1>2, <2>1 DEF Close, Session
  <2>3. QED
    BY <1>1, <1>2, <1>3, <2>1, <2>2 DEF CallSerial, Early, Working, Answering
<1>5. CASE StartTurn(r, mem[r])
  <2>1. /\ SameSession(mem'[r], mem[r])
        /\ pc'[r] = IF mem[r].status = "closed" THEN "failed" ELSE Gate(r)
    BY <1>1, <1>2, <1>5, StartTurnMoves
  <2>2. CASE mem[r].status = "closed"
    BY <1>1, <1>2, <2>1, <2>2, SerialEnded DEF SameSession, Ended
  <2>3. CASE mem[r].status # "closed"
    <3>1. mem[r].status = "active" /\ pc'[r] \in {"gate", "respond"}
      BY <1>2, <2>1, <2>3 DEF Session, Gate
    <3>2. pc'[r] \in Working /\ pc'[r] \notin Early
      BY <3>1 DEF Working, Answering, Early
    <3>3. QED
      BY <1>1, <1>3, <2>1, <3>1, <3>2, SerialMoved
  <2>4. QED
    BY <2>2, <2>3
<1>6. QED
  BY <1>4, <1>5 DEF CheckIdle

\* The tickets of the session are closed, unless closing them fails.
LEMMA CloseTicketsSerial ==
    ASSUME IInv, SerialInv, NEW r \in Requests, Step(r) \/ Fault(r),
           pc[r] = "closeTickets", pc'[r] = "saveClosed", mem' = mem, sessions' = sessions,
           faults' = 0 => CloseBySession(mem[r].sid)
    PROVE  CallSerial(r)'
<1>1. /\ CallSerial(r) /\ TypeOK /\ cmd' = cmd /\ avoid' = avoid /\ retired \subseteq retired'
      /\ pc[r] \in Holding /\ pc[r] \in Early
  BY StepKeeps DEF IInv, SerialInv, Holding, Early, Labels, Ended, Saving
<1>2. mem[r] # None /\ mem[r].persisted
  BY <1>1 DEF IInv, CallInv, Stored
<1>3. faults' = 0 => NoOpenTicket(mem[r].sid)'
  <2> SUFFICES ASSUME CloseBySession(mem[r].sid), NEW t \in Requests
               PROVE  ~IsOpenTicket(t, mem[r].sid)'
    BY DEF NoOpenTicket
  <2>1. tickets[t] \in Ticket \cup {None}
    BY <1>1 DEF TypeOK
  <2>2. tickets'[t] = IF IsOpenTicket(t, mem[r].sid) THEN [tickets[t] EXCEPT !.status = "closed"]
                                                     ELSE tickets[t]
    BY DEF CloseBySession
  <2>3. QED
    BY <2>1, <2>2 DEF IsOpenTicket, Ticket
<1>4. avoid'[r] \subseteq retired'
  BY <1>1 DEF CallSerial
<1>5. QED
  BY <1>1, <1>2, <1>3, <1>4 DEF CallSerial, Early, Working, Answering

\* A rotated call goes on under its own id.
LEMMA SaveClosedSerial ==
    ASSUME IInv, SerialInv, NEW r \in Requests, SaveClosed(r)
    PROVE  CallSerial(r)'
<1>1. /\ TypeOK /\ CallSerial(r) /\ Step(r) /\ pc[r] = "saveClosed"
      /\ pc[r] # "new" /\ pc[r] \in Holding /\ pc[r] \in Early /\ pc[r] \in Saving
  BY DEF IInv, SerialInv, Step, SaveClosed, Holding, Early, Labels, Saving, Ended
<1>2. /\ mem[r] \in Session /\ mem[r] # None /\ cmd[r].channel \in Channels
      /\ mem[r].persisted /\ CanSave(mem[r]) /\ Save(mem[r])
  BY <1>1, AtWork DEF CallInv, Stored, SaveClosed, CanSave
<1>3. CASE Goto(r, "done") /\ UNCHANGED <<mem, time>>
  <2>1. pc'[r] = "done"
    BY <1>1, <1>3 DEF Goto, TypeOK
  <2>2. QED
    BY <1>1, <1>2, <1>3, <2>1, SerialEnded DEF Ended
<1>4. CASE StartTurn(r, OpenWithID(r, mem[r].user, cmd[r].channel))
  <2>1. r \in SessionIds /\ mem[r].user \in Users
    BY <1>2 DEF Session, SessionIds
  <2>2. PICK s : s = OpenWithID(r, mem[r].user, cmd[r].channel)
    OBVIOUS
  <2>8. s \in Session /\ s.sid = r /\ ~s.persisted /\ s.status = "active"
    <3>1. s.status = "active"
      BY <2>2 DEF OpenWithID
    <3>2. QED
      BY <1>1, <1>2, <2>1, <2>2, <3>1, OpenedSession
  <2>3. SameSession(mem'[r], s) /\ pc'[r] = "saveOpened"
    BY <1>1, <1>4, <2>2, <2>8, StartTurnMoves
  <2>4. sessions[r] = None
    BY <1>1 DEF CallSerial
  <2>5. sessions'[r] = None
    BY <1>1, <1>2, <2>1, <2>4, SavedRow
  <2>6. r \notin avoid[r]
    BY <1>1, <2>4 DEF CallSerial, SerialInv, RetiredAreClosed
  <2>7. QED
    BY <1>1, <2>3, <2>5, <2>6, <2>8, SerialOpened DEF SameSession
<1>5. QED
  BY <1>3, <1>4 DEF SaveClosed

\* Saving an open session: it is stored as active, or its id was taken.
LEMMA SavesSerial ==
    ASSUME IInv, SerialInv, NEW r \in Requests,
           SaveOpened(r) \/ SaveMarkers(r) \/ SaveReply(r) \/ SaveContact(r)
    PROVE  CallSerial(r)'
<1>1. /\ TypeOK /\ Step(r)
      /\ pc[r] \in {"saveOpened", "saveMarkers", "saveReply", "saveContact"}
  BY DEF IInv, Step, SaveOpened, SaveMarkers, SaveReply, SaveContact
<1>2. pc[r] \in Saving \ {"saveClosed"} /\ pc[r] # "new" /\ pc[r] \in Holding
  BY <1>1 DEF Saving, Holding, Labels, Ended
<1>3. mem[r] \in Session
  BY <1>2, AtWork
<1>4. CASE Goto(r, "failed") /\ mem' = mem
  <2>1. pc'[r] = "failed"
    BY <1>1, <1>4 DEF Goto, TypeOK
  <2>2. QED
    BY <1>1, <1>4, <2>1, SerialEnded DEF Ended
<1>5. CASE Save(mem[r]) /\ CanSave(mem[r]) /\ Hold(r, MarkPersisted(mem[r]))
           /\ (Goto(r, Gate(r)) \/ Goto(r, "respond") \/ Goto(r, "done"))
  <2>1. mem'[r] = MarkPersisted(mem[r]) /\ pc'[r] \in {"gate", "respond"} \cup Ended
    BY <1>1, <1>5 DEF Goto, Hold, TypeOK, Gate, Ended
  <2>2. QED
    BY <1>1, <1>2, <1>5, <2>1, SerialSaved
<1>6. pc[r] \in {"saveMarkers", "saveReply"} => CanSave(mem[r])
  BY DEF IInv, CallInv, Stored, Answering, CanSave
<1>7. QED
  BY <1>1, <1>4, <1>5, <1>6 DEF SaveOpened, SaveMarkers, SaveReply, SaveContact

\* The gate, the responder, the ticket desk and a shared contact.
LEMMA WorkingSerial ==
    ASSUME IInv, SerialInv, NEW r \in Requests,
           EnsureVerified(r) \/ Respond(r) \/ FindTicket(r) \/ VerifyPhone(r)
    PROVE  CallSerial(r)'
<1>1. /\ TypeOK /\ CallSerial(r) /\ Step(r)
      /\ pc[r] \in {"gate", "respond", "findTicket", "verify"}
  BY DEF IInv, SerialInv, Step, EnsureVerified, Respond, FindTicket, VerifyPhone
<1>2. pc[r] \in Holding /\ pc[r] # "new" /\ pc[r] \in Working
  BY <1>1 DEF Holding, Working, Answering, Labels, Saving, Ended
<1>3. mem[r] \in Session /\ mem[r] # None /\ mem[r].status = "active"
  BY <1>1, <1>2, AtWork DEF CallSerial
<1>4. sessions' = sessions /\ tickets' = tickets
  BY DEF EnsureVerified, Respond, FindTicket, VerifyPhone, tables
<1>5. ASSUME SameSession(mem'[r], mem[r]),
             pc'[r] \in {"respond", "saveMarkers", "saveReply", "findTicket", "saveTicket", "saveContact"},
             pc'[r] = "saveTicket" => NoOpenTicket(mem[r].sid)
      PROVE  CallSerial(r)'
  <2>1. pc'[r] \in Working /\ pc'[r] \notin Early
    BY <1>5 DEF Working, Answering, Early
  <2>2. QED
    BY <1>1, <1>2, <1>3, <1>4, <1>5, <2>1, SerialMoved
<1>6. SameSession(mem[r], mem[r]) /\ SameSession(Marked(r), mem[r])
  BY <1>1, <1>3, MarkedSame DEF SameSession
<1>7. ASSUME NEW n \in Nat, NEW s, s \in {mem[r], Marked(r)}, Answer(r, s, n)
      PROVE  CallSerial(r)'
  <2>1. s \in Session /\ SameSession(s, mem[r])
    BY <1>6, <1>7 DEF SameSession
  <2>2. SameSession(mem'[r], s) /\ pc'[r] = "saveReply"
    BY <1>1, <1>7, <2>1, AnswerMoves
  <2>3. SameSession(mem'[r], mem[r])
    BY <2>1, <2>2 DEF SameSession
  <2>4. QED
    BY <1>5, <2>2, <2>3
<1>8. ASSUME NEW s, s \in {mem[r], Marked(r)}, PassGate(r, s)
      PROVE  CallSerial(r)'
  <2>1. mem'[r] = s /\ pc'[r] \in {"respond", "saveMarkers"}
    BY <1>1, <1>8 DEF PassGate, Goto, Hold, TypeOK
  <2>2. QED
    BY <1>5, <1>6, <1>8, <2>1
<1>9. CASE EnsureVerified(r)
  BY <1>7, <1>8, <1>9 DEF EnsureVerified
<1>10. CASE Respond(r)
  <2>1. CASE Goto(r, "findTicket") /\ UNCHANGED <<mem, time>>
    BY <1>1, <1>5, <1>6, <2>1 DEF Goto, TypeOK
  <2>2. QED
    BY <1>7, <1>10, <2>1 DEF Respond
<1>11. CASE FindTicket(r)
  <2>1. CASE Goto(r, "saveTicket") /\ mem' = mem /\ NoOpenTicket(mem[r].sid)
    BY <1>1, <1>5, <1>6, <2>1 DEF Goto, TypeOK
  <2>2. QED
    BY <1>7, <1>11, <2>1 DEF FindTicket, NoOpenTicket
<1>12. CASE VerifyPhone(r)
  <2>1. CASE Goto(r, "done") /\ UNCHANGED <<mem, time>>
    <3>1. pc'[r] = "done" /\ mem' = mem
      BY <1>1, <2>1 DEF Goto, TypeOK
    <3>2. QED
      BY <1>1, <1>3, <3>1, SerialEnded DEF Ended
  <2>2. CASE Goto(r, "saveContact") /\ Hold(r, Marked(r))
    BY <1>1, <1>5, <1>6, <2>2 DEF Goto, Hold, TypeOK
  <2>3. QED
    BY <1>12, <2>1, <2>2 DEF VerifyPhone
<1>13. QED
  BY <1>9, <1>10, <1>11, <1>12

\* The ticket is opened for the session the call works in.
LEMMA SaveTicketSerial ==
    ASSUME IInv, SerialInv, NEW r \in Requests, SaveTicket(r)
    PROVE  CallSerial(r)'
<1>1. /\ TypeOK /\ CallSerial(r) /\ Step(r) /\ pc[r] = "saveTicket"
  BY DEF IInv, SerialInv, Step, SaveTicket
<1>2. pc[r] \in Holding /\ pc[r] # "new" /\ pc[r] \in Working
  BY <1>1 DEF Holding, Working, Answering, Labels, Saving, Ended
<1>3. mem[r] \in Session /\ mem[r] # None /\ mem[r].status = "active"
  BY <1>1, <1>2, AtWork DEF CallSerial
<1>4. CASE Goto(r, "failed") /\ mem' = mem
  <2>1. pc'[r] = "failed"
    BY <1>1, <1>4 DEF Goto, TypeOK
  <2>2. QED
    BY <1>1, <1>3, <1>4, <2>1, SerialEnded DEF Ended
<1>5. CASE Answer(r, mem[r], 1)
  <2>1. SameSession(mem'[r], mem[r]) /\ pc'[r] = "saveReply"
    BY <1>1, <1>3, <1>5, AnswerMoves
  <2>2. cmd' = cmd /\ avoid' = avoid /\ retired \subseteq retired' /\ sessions' = sessions
    BY <1>1, StepKeeps DEF SaveTicket
  <2>3. avoid'[r] \subseteq retired'
    BY <1>1, <2>2 DEF CallSerial
  <2>4. QED
    BY <1>1, <1>2, <1>3, <2>1, <2>2, <2>3 DEF CallSerial, SameSession, IsActive, Early, Working, Answering
<1>6. QED
  BY <1>4, <1>5 DEF SaveTicket

\* A failure ends the call, or lets it close its session with tickets open.
LEMMA FaultSerial ==
    ASSUME IInv, SerialInv, NEW r \in Requests, Fault(r)
    PROVE  CallSerial(r)'
<1>1. TypeOK /\ faults' = faults + 1 /\ mem' = mem /\ faults \in Nat
  BY DEF IInv, TypeOK, Fault
<1>2. CASE Goto(r, "failed")
  <2>1. pc'[r] = "failed"
    BY <1>1, <1>2 DEF Goto, TypeOK
  <2>2. QED
    BY <1>1, <2>1, SerialEnded DEF Ended
<1>3. CASE pc[r] = "closeTickets" /\ Goto(r, "saveClosed") /\ UNCHANGED <<tables, time>>
  <2>1. pc'[r] = "saveClosed" /\ sessions' = sessions
    BY <1>1, <1>3 DEF Goto, TypeOK, tables
  <2>2. faults' # 0
    BY <1>1
  <2>3. QED
    BY <1>1, <1>3, <2>1, <2>2, CloseTicketsSerial
<1>4. QED
  BY <1>2, <1>3 DEF Fault

\* Every step of a call keeps what holds of it.
LEMMA StepSerial ==
    ASSUME IInv, SerialInv, NEW r \in Requests, Step(r) \/ Fault(r)
    PROVE  CallSerial(r)'
<1>1. CASE CloseTickets(r)
  <2>1. /\ pc[r] = "closeTickets" /\ pc'[r] = "saveClosed" /\ mem' = mem
        /\ sessions' = sessions /\ CloseBySession(mem[r].sid)
    BY <1>1 DEF CloseTickets, Goto, IInv, TypeOK
  <2>2. QED
    BY <1>1, <2>1, CloseTicketsSerial DEF Step
<1>2. QED
  BY <1>1, FindSessionSerial, LoadMessagesSerial, CheckIdleSerial, SaveClosedSerial, SavesSerial,
     WorkingSerial, SaveTicketSerial, FaultSerial DEF Step

\* It holds before any call.
LEMMA InitSerial == Init => SerialInv
<1> SUFFICES ASSUME Init PROVE SerialInv
  OBVIOUS
<1>1. RetiredAreClosed /\ OpenTicketsInv
  BY DEF Init, RetiredAreClosed, OpenTicketsInv
<1>2. ASSUME NEW r \in Requests PROVE CallSerial(r)
  <2>1. pc[r] = "new" /\ mem[r] = None /\ sessions[r] = None /\ avoid[r] = {}
    BY DEF Init, SessionIds
  <2>2. QED
    BY <2>1 DEF CallSerial, Holding, Working, Answering
<1>3. QED
  BY <1>1, <1>2 DEF SerialInv

\* It is preserved by every step, as long as no customer has two calls at once.
LEMMA NextSerial ==
    ASSUME IInv, SerialInv, OneCallPerCustomer, [Next]_vars
    PROVE  SerialInv'
<1>1. ASSUME NEW r \in Requests, Step(r) \/ Fault(r) PROVE SerialInv'
  BY <1>1, StepSerial, SerialUndisturbed, RetiredStayClosed, OpenTicketsStay DEF SerialInv
<1>2. CASE TimePasses \/ UNCHANGED vars
  <2>1. UNCHANGED <<sessions, tickets, pc, mem, faults, cmd, retired, avoid>>
    BY <1>2 DEF TimePasses, vars, tables, time, past
  <2>2. QED
    BY <2>1 DEF SerialInv, RetiredAreClosed, OpenTicketsInv, CallSerial, IsOpenTicket, IsActive,
       NoOpenTicket, ByHint
<1>3. QED
  BY <1>1, <1>2, ArriveSerial DEF Next, Drained

\* As long as no customer has two calls at once, a call's session is stored as the
\* call believes it to be, whatever other customers do and whatever fails.
THEOREM SerialInvariance == Spec /\ []OneCallPerCustomer => []SerialInv
<1>1. Init => SerialInv
  BY InitSerial
<1>2. IInv /\ SerialInv /\ OneCallPerCustomer /\ [Next]_vars => SerialInv'
  BY NextSerial
<1>3. QED
  BY <1>1, <1>2, Invariance, PTL DEF Spec

\* A session that a ResetSession has closed is never written to again by a call
\* that comes later and names no session: the next message of the customer opens
\* a fresh conversation.
THEOREM ResetIsFinal == Spec /\ []OneCallPerCustomer => []ResetStartsFresh
<1>1. IInv /\ SerialInv => ResetStartsFresh
  <2> SUFFICES ASSUME IInv, SerialInv, NEW r \in Requests, mem[r] # None, cmd[r].hint = None
               PROVE  mem[r].sid \notin avoid[r]
    BY DEF ResetStartsFresh
  <2>1. avoid[r] \subseteq SessionIds /\ CallSerial(r)
    BY DEF IInv, TypeOK, SerialInv
  <2>2. QED
    BY <2>1, ConstantsAssumption DEF CallSerial
<1>2. QED
  BY <1>1, Invariance, SerialInvariance, PTL

\* Until a step fails, an open ticket is the only one of its session, and its
\* session is active: neither a rotation nor a reset leaves a ticket behind.
THEOREM TicketsFollow == Spec /\ []OneCallPerCustomer => []TicketsFollowTheirSession
<1>1. SerialInv => TicketsFollowTheirSession
  BY DEF SerialInv, OpenTicketsInv, TicketsFollowTheirSession, IsActive
<1>2. QED
  BY <1>1, SerialInvariance, PTL

\* When one call runs at a time, no customer has two.
THEOREM OneCallAtATime ==
    ASSUME MaxInFlight <= 1
    PROVE  Spec => []OneCallPerCustomer
<1> DEFINE Alone == \A q, r \in InFlight : q = r
<1>1. Init => Alone
  BY DEF Init, InFlight
<1>2. ASSUME IInv, Alone, [Next]_vars PROVE Alone'
  <2>1. TypeOK
    BY <1>2 DEF IInv
  <2>2. CASE \E r \in Requests : Arrive(r)
    <3>1. PICK r \in Requests : Arrive(r)
      BY <2>2
    <3>2. InFlight = {}
      <4>1. ASSUME NEW q \in InFlight PROVE FALSE
        <5>1. InFlight = {q}
          BY <1>2, <4>1
        <5>2. Cardinality(InFlight) = 1
          BY <5>1, FS_Singleton
        <5>3. QED
          BY <3>1, <5>2, ConstantsAssumption DEF Arrive
      <4>2. QED
        BY <4>1
    <3>3. InFlight' \subseteq {r}
      BY <2>1, <3>1, <3>2 DEF InFlight, Arrive, Goto, TypeOK
    <3>4. QED
      BY <3>3
  <2>3. CASE \E r \in Requests : Step(r) \/ Fault(r)
    <3>1. PICK r \in Requests : Step(r) \/ Fault(r)
      BY <2>3
    <3>2. r \in InFlight
      BY <3>1, StepKeeps DEF InFlight
    <3>3. \A q \in Requests : q # r => pc'[q] = pc[q]
      BY <1>2, <3>1, StepGood DEF GoodStep, Frame
    <3>4. InFlight' \subseteq {r}
      BY <1>2, <3>2, <3>3 DEF InFlight
    <3>5. QED
      BY <3>4
  <2>4. CASE TimePasses \/ UNCHANGED vars
    BY <1>2, <2>4 DEF InFlight, TimePasses, vars
  <2>5. QED
    BY <1>2, <2>2, <2>3, <2>4 DEF Next, Drained
<1>3. Alone => OneCallPerCustomer
  BY DEF OneCallPerCustomer
<1> HIDE DEF Alone
<1>4. QED
  BY <1>1, <1>2, <1>3, Invariance, PTL DEF Spec

\* The call names no session, or an active one of its customer and channel.
KnownCall(r) ==
    cmd[r].hint # None => cmd[r].hint \in ActiveOf(cmd[r].user, cmd[r].channel)

CallsNameLiveSessions == \A r \in Requests : pc[r] = "find" => KnownCall(r)

\* What a call that names a live session, if any, knows of the active sessions of
\* its customer.
CallOne(r) ==
    /\ pc[r] = "find" => KnownCall(r)
    /\ pc[r] \in {"load", "activity"} => mem[r].status = "active"
    /\ pc[r] \in {"load", "activity", "closeTickets", "saveClosed"} =>
           mem[r].sid \in ActiveOf(cmd[r].user, cmd[r].channel)
    /\ pc[r] \in Holding /\ ~mem[r].persisted =>
           /\ mem[r].sid = r
           /\ mem[r].channel = cmd[r].channel
           /\ ActiveOf(cmd[r].user, cmd[r].channel) = {}

OneActive == \A u \in Users, ch \in Channels : \A s, o \in ActiveOf(u, ch) : s = o

OneInv == OneActive /\ \A r \in Requests : CallOne(r)

\* A step adds an active session only where its customer has none.
LEMMA ActiveSessionsOf ==
    ASSUME IInv, SerialInv, NEW r \in Requests, CallOne(r), Step(r) \/ Fault(r),
           NEW u \in Users, NEW ch \in Channels
    PROVE  \/ ActiveOf(u, ch)' \subseteq ActiveOf(u, ch)
           \/ /\ u = cmd[r].user /\ ActiveOf(u, ch) = {}
              /\ ActiveOf(u, ch)' \subseteq {mem[r].sid}
<1>1. CASE sessions' = sessions
  BY <1>1 DEF ActiveOf
<1>2. CASE pc[r] \in Saving /\ CanSave(mem[r]) /\ Save(mem[r])
  <2>1. pc[r] \in Holding /\ TablesGrow
    BY <1>2, StepGood DEF Saving, Holding, Labels, Ended, GoodStep
  <2>2. \A s \in ActiveOf(u, ch)' : s # mem[r].sid => s \in ActiveOf(u, ch)
    BY <1>2, SavedRow DEF ActiveOf
  <2>3. CASE mem[r].persisted \/ mem[r].status = "closed"
    <3>1. mem[r].sid \in ActiveOf(u, ch)' => mem[r].sid \in ActiveOf(u, ch)
      <4> SUFFICES ASSUME mem[r].sid \in ActiveOf(u, ch)' PROVE mem[r].sid \in ActiveOf(u, ch)
        OBVIOUS
      <4>1. mem[r].sid \in SessionIds /\ mem[r].status = "active"
        BY <1>2, SavedRow DEF ActiveOf
      <4>2. mem[r].persisted /\ sessions[mem[r].sid] # None
        BY <1>2, <2>3, <4>1, SavedRow
      <4>3. sessions[mem[r].sid].status = "active"
        BY <1>2, <4>1, <4>2, SavedStatus DEF IsActive
      <4>4. QED
        BY <2>1, <4>1, <4>2, <4>3 DEF ActiveOf, TablesGrow
    <3>2. QED
      BY <2>2, <3>1
  <2>4. CASE ~mem[r].persisted /\ mem[r].status # "closed"
    <3>1. ActiveOf(cmd[r].user, cmd[r].channel) = {} /\ mem[r].channel = cmd[r].channel
      BY <2>1, <2>4 DEF CallOne
    <3>2. mem[r].sid \in ActiveOf(u, ch)' => u = cmd[r].user /\ ch = cmd[r].channel
      BY <1>2, <2>4, <3>1, SavedRow DEF ActiveOf
    <3>3. QED
      BY <2>2, <3>1, <3>2
  <2>5. QED
    BY <2>3, <2>4
<1>3. QED
  BY <1>1, <1>2, StepWrites DEF RowsOf

\* No step leaves a customer with two.
LEMMA OneActiveStays ==
    ASSUME IInv, SerialInv, OneInv, NEW r \in Requests, Step(r) \/ Fault(r)
    PROVE  OneActive'
<1> SUFFICES ASSUME NEW u \in Users, NEW ch \in Channels,
                    NEW s \in ActiveOf(u, ch)', NEW o \in ActiveOf(u, ch)'
             PROVE  s = o
  BY DEF OneActive
<1>1. CallOne(r) /\ \A s1, o1 \in ActiveOf(u, ch) : s1 = o1
  BY DEF OneInv, OneActive
<1>2. QED
  BY <1>1, ActiveSessionsOf

\* Other customers' sessions are not a call's business.
LEMMA OneUndisturbed ==
    ASSUME IInv, SerialInv, OneInv, OneCallPerCustomer, NEW r \in Requests, Step(r) \/ Fault(r),
           NEW q \in Requests, q # r
    PROVE  CallOne(q)'
<1>1. pc'[q] = pc[q] /\ mem'[q] = mem[q] /\ cmd' = cmd /\ TypeOK /\ TablesGrow
  BY StepGood, StepKeeps DEF GoodStep, Frame, IInv
<1>2. CallOne(q) /\ CallOne(r) /\ r \in InFlight
  BY StepKeeps DEF OneInv, InFlight
<1>3. ASSUME q \in InFlight
      PROVE  /\ cmd[q].user \in Users /\ cmd[q].channel \in Channels /\ cmd[q].user # cmd[r].user
             /\ cmd[q] \in Command
  BY <1>2, <1>3, AtWork DEF InFlight, OneCallPerCustomer
<1>4. ASSUME q \in InFlight, NEW id \in ActiveOf(cmd[q].user, cmd[q].channel)
      PROVE  id \in ActiveOf(cmd[q].user, cmd[q].channel)'
  <2>1. id \in SessionIds /\ sessions[id] # None /\ sessions[id].user = cmd[q].user
    BY <1>4 DEF ActiveOf
  <2>2. sessions'[id] = sessions[id]
    BY <1>3, <1>4, <2>1, RowsOfOthers
  <2>3. QED
    BY <1>1, <1>4, <2>2 DEF ActiveOf
<1>5. ASSUME q \in InFlight, ActiveOf(cmd[q].user, cmd[q].channel) = {}
      PROVE  ActiveOf(cmd[q].user, cmd[q].channel)' = {}
  <2>1. PICK u \in Users, ch \in Channels : u = cmd[q].user /\ ch = cmd[q].channel
    BY <1>3, <1>5
  <2>2. ActiveOf(u, ch)' \subseteq ActiveOf(u, ch)
    BY <1>2, <1>3, <1>5, <2>1, ActiveSessionsOf
  <2>3. QED
    BY <1>1, <1>5, <2>1, <2>2 DEF ActiveOf
<1>6. pc[q] \in Holding \cup {"find"} => q \in InFlight
  BY DEF InFlight, Holding, Ended
<1>7. pc[q] = "find" => KnownCall(q)'
  BY <1>1, <1>2, <1>4, <1>6 DEF CallOne, KnownCall
<1>8. pc[q] \in {"load", "activity", "closeTickets", "saveClosed"} =>
          mem[q].sid \in ActiveOf(cmd[q].user, cmd[q].channel)'
  <2>1. {"load", "activity", "closeTickets", "saveClosed"} \subseteq Holding
    BY DEF Holding, Labels, Saving, Ended
  <2>2. QED
    BY <1>2, <1>4, <1>6, <2>1 DEF CallOne
<1>9. QED
  BY <1>1, <1>2, <1>5, <1>6, <1>7, <1>8 DEF CallOne

-----------------------------------------------------------------------------
\* A call that has ended, or works in a stored session.
LEMMA OneSettled ==
    ASSUME NEW r \in Requests,
           pc'[r] \notin {"find", "load", "activity", "closeTickets", "saveClosed"},
           pc'[r] \in Ended \/ mem'[r].persisted
    PROVE  CallOne(r)'
BY DEF CallOne, Holding

\* The session found is the customer's only active one; one is opened only for a
\* customer who has none.
LEMMA FindSessionOne ==
    ASSUME IInv, SerialInv, CallsNameLiveSessions, NEW r \in Requests, FindSession(r)
    PROVE  CallOne(r)' /\ pc'[r] # "failed"
<1>1. TypeOK /\ CallSerial(r) /\ pc[r] = "find" /\ KnownCall(r)
  BY DEF IInv, SerialInv, FindSession, CallsNameLiveSessions
<1>2. /\ cmd[r] \in Command /\ cmd[r].user \in Users /\ cmd[r].channel \in Channels
  BY <1>1, AtWork
<1>3. /\ UNCHANGED <<sessions, cmd>> /\ r \in SessionIds
  BY <1>1 DEF FindSession, tables, past, SessionIds
<1>4. CASE \E id \in SessionIds :
              /\ IF ByHint(r) THEN id = cmd[r].hint /\ sessions[id] # None
                              ELSE IsFindActive(cmd[r].user, cmd[r].channel, id)
              /\ Hold(r, Reconstitute(id))
              /\ Goto(r, "load")
              /\ UNCHANGED time
  <2>1. PICK id \in SessionIds :
              /\ IF ByHint(r) THEN id = cmd[r].hint /\ sessions[id] # None
                              ELSE IsFindActive(cmd[r].user, cmd[r].channel, id)
              /\ Hold(r, Reconstitute(id))
              /\ Goto(r, "load")
    BY <1>4
  <2>2. pc'[r] = "load" /\ mem'[r] = Reconstitute(id)
    BY <1>1, <2>1 DEF Goto, Hold, TypeOK
  <2>3. mem'[r].sid = id /\ mem'[r].status = sessions[id].status /\ mem'[r].persisted
    BY <2>2 DEF Reconstitute
  <2>4. id \in ActiveOf(cmd[r].user, cmd[r].channel)
    BY <1>1, <2>1 DEF KnownCall, ByHint, IsFindActive
  <2>5. QED
    BY <1>3, <2>2, <2>3, <2>4 DEF CallOne, ActiveOf
<1> DEFINE opened == OpenWithID(IF ByHint(r) THEN cmd[r].hint ELSE r, cmd[r].user, cmd[r].channel)
<1>5. CASE /\ IF ByHint(r) THEN sessions[cmd[r].hint] = None ELSE ActiveOf(cmd[r].user, cmd[r].channel) = {}
           /\ \/ cmd[r].op = "reply" /\ StartTurn(r, opened)
              \/ cmd[r].op = "reset" /\ Goto(r, "done") /\ UNCHANGED <<mem, time>>
              \/ cmd[r].op = "phone" /\ Goto(r, "verify") /\ Hold(r, opened) /\ Tick(1)
  <2>1. ~ByHint(r) /\ ActiveOf(cmd[r].user, cmd[r].channel) = {}
    BY <1>1, <1>5 DEF ByHint, KnownCall, ActiveOf
  <2>2. PICK s : s = OpenWithID(r, cmd[r].user, cmd[r].channel)
    OBVIOUS
  <2>3. s \in Session /\ s.sid = r /\ ~s.persisted
    BY <1>1, <1>2, <1>3, <2>2, OpenedSession
  <2>4. s.status = "active" /\ s.channel = cmd[r].channel
    BY <2>2 DEF OpenWithID
  <2>5. CASE StartTurn(r, s)
    <3>1. SameSession(mem'[r], s) /\ pc'[r] = "saveOpened"
      BY <1>1, <2>3, <2>4, <2>5, StartTurnMoves
    <3>2. QED
      BY <1>3, <2>1, <2>3, <2>4, <3>1 DEF CallOne, SameSession, ActiveOf
  <2>6. CASE Goto(r, "done")
    <3>1. pc'[r] = "done"
      BY <1>1, <2>6 DEF Goto, TypeOK
    <3>2. QED
      BY <3>1, OneSettled DEF Ended
  <2>7. CASE Goto(r, "verify") /\ Hold(r, s)
    <3>1. mem'[r] = s /\ pc'[r] = "verify"
      BY <1>1, <2>7 DEF Goto, Hold, TypeOK
    <3>2. QED
      BY <1>3, <2>1, <2>3, <2>4, <3>1 DEF CallOne, ActiveOf
  <2>8. QED
    BY <1>5, <2>1, <2>2, <2>5, <2>6, <2>7
<1>6. QED
  BY <1>4, <1>5 DEF FindSession

\* It belongs to the customer.
LEMMA LoadMessagesOne ==
    ASSUME IInv, NEW r \in Requests, CallOne(r), LoadMessages(r)
    PROVE  CallOne(r)' /\ pc'[r] # "failed"
<1>1. TypeOK /\ pc[r] = "load" /\ pc[r] # "new" /\ pc[r] \in Holding
  BY DEF IInv, LoadMessages, Holding, Labels, Ended
<1>2. mem[r] \in Session /\ mem[r].persisted
  BY <1>1, AtWork DEF CallInv, Stored
<1>3. UNCHANGED <<sessions, cmd>>
  BY DEF LoadMessages, tables, past
<1>4. mem[r].status = "active" /\ mem[r].sid \in ActiveOf(cmd[r].user, cmd[r].channel)
  BY <1>1 DEF CallOne
<1> DEFINE s == [mem[r] EXCEPT !.known = HasUserMarker(Window(mem[r].sid))]
<1>5. PICK s1 : s1 = s
  OBVIOUS
<1>6. s1.sid = mem[r].sid /\ s1.status = "active" /\ s1.persisted /\ Close(s1).persisted
      /\ Close(s1).sid = mem[r].sid
  BY <1>2, <1>4, <1>5 DEF Session, Close
<1>7. BelongsTo(s1.sid, cmd[r].user)
  BY <1>4, <1>6 DEF ActiveOf, BelongsTo
<1>8. \/ pc'[r] = "activity" /\ mem'[r] = s1
      \/ pc'[r] = "closeTickets" /\ mem'[r] = Close(s1)
      \/ pc'[r] = "verify" /\ mem'[r] = s1
  <2>1. \/ ~BelongsTo(s1.sid, cmd[r].user)
        \/ Goto(r, "activity") /\ Hold(r, s1)
        \/ Goto(r, "closeTickets") /\ Hold(r, Close(s1))
        \/ Goto(r, "verify") /\ Hold(r, s1)
    BY <1>5 DEF LoadMessages
  <2>2. QED
    BY <1>1, <1>7, <2>1 DEF Goto, Hold, TypeOK
<1>9. QED
  BY <1>3, <1>4, <1>6, <1>8 DEF CallOne, ActiveOf

\* It is active, so the turn starts in it or it is rotated.
LEMMA CheckIdleOne ==
    ASSUME IInv, NEW r \in Requests, CallOne(r), CheckIdle(r)
    PROVE  CallOne(r)' /\ pc'[r] # "failed"
<1>1. TypeOK /\ pc[r] = "activity" /\ pc[r] # "new" /\ pc[r] \in Holding
  BY DEF IInv, CheckIdle, Holding, Labels, Ended
<1>2. mem[r] \in Session /\ mem[r].persisted
  BY <1>1, AtWork DEF CallInv, Stored
<1>3. UNCHANGED <<sessions, cmd>>
  BY DEF CheckIdle, tables, past
<1>4. mem[r].status = "active" /\ mem[r].sid \in ActiveOf(cmd[r].user, cmd[r].channel)
  BY <1>1 DEF CallOne
<1>5. CASE Goto(r, "closeTickets") /\ Hold(r, Close(mem[r]))
  <2>1. pc'[r] = "closeTickets" /\ mem'[r].sid = mem[r].sid /\ mem'[r].persisted
    BY <1>1, <1>2, <1>5 DEF Goto, Hold, TypeOK, Close, Session
  <2>2. QED
    BY <1>3, <1>4, <2>1 DEF CallOne, ActiveOf
<1>6. CASE StartTurn(r, mem[r])
  <2>1. SameSession(mem'[r], mem[r]) /\ pc'[r] \in {"gate", "respond"}
    BY <1>1, <1>2, <1>4, <1>6, StartTurnMoves DEF Gate
  <2>2. QED
    BY <1>2, <2>1, OneSettled DEF SameSession
<1>7. QED
  BY <1>5, <1>6 DEF CheckIdle

\* Going on to save the closed session, with or without its tickets closed.
LEMMA CloseTicketsOne ==
    ASSUME IInv, NEW r \in Requests, CallOne(r),
           pc[r] = "closeTickets", pc'[r] = "saveClosed", mem' = mem, UNCHANGED <<sessions, cmd>>
    PROVE  CallOne(r)'
<1>1. mem[r].persisted
  BY DEF IInv, CallInv, Stored
<1>2. QED
  BY <1>1 DEF CallOne, ActiveOf

\* The rotated session was the customer's only active one.
LEMMA SaveClosedOne ==
    ASSUME IInv, SerialInv, OneInv, NEW r \in Requests, SaveClosed(r)
    PROVE  CallOne(r)' /\ pc'[r] # "failed"
<1>1. /\ TypeOK /\ CallOne(r) /\ pc[r] = "saveClosed" /\ cmd' = cmd
      /\ pc[r] # "new" /\ pc[r] \in Holding /\ pc[r] \in Saving
  BY DEF IInv, OneInv, SaveClosed, Holding, Labels, Saving, Ended
<1>2. /\ mem[r] \in Session /\ mem[r] # None
      /\ cmd[r].user \in Users /\ cmd[r].channel \in Channels
      /\ mem[r].persisted /\ CanSave(mem[r]) /\ Save(mem[r])
      /\ mem[r].user = cmd[r].user
  BY <1>1, AtWork DEF CallInv, Stored, SaveClosed, CanSave, Own, Holding
<1>3. CASE Goto(r, "done")
  <2>1. pc'[r] = "done"
    BY <1>1, <1>3 DEF Goto, TypeOK
  <2>2. QED
    BY <2>1, OneSettled DEF Ended
<1>4. CASE StartTurn(r, OpenWithID(r, mem[r].user, cmd[r].channel))
  <2>1. PICK s : s = OpenWithID(r, mem[r].user, cmd[r].channel)
    OBVIOUS
  <2>2. s \in Session /\ s.sid = r /\ ~s.persisted
    BY <1>1, <1>2, <2>1, OpenedSession DEF SessionIds
  <2>3. s.status = "active" /\ s.channel = cmd[r].channel
    BY <2>1 DEF OpenWithID
  <2>4. SameSession(mem'[r], s) /\ pc'[r] = "saveOpened"
    BY <1>1, <1>4, <2>1, <2>2, <2>3, StartTurnMoves
  <2>5. \A id \in ActiveOf(cmd[r].user, cmd[r].channel) : id = mem[r].sid
    BY <1>1, <1>2 DEF OneInv, OneActive, CallOne
  <2>6. mem[r].status = "closed"
    BY <1>1, <1>2, SavedStatus
  <2>7. \A id \in SessionIds : id \notin ActiveOf(cmd[r].user, cmd[r].channel)'
    <3>1. \A id \in SessionIds : id # mem[r].sid => sessions'[id] = sessions[id]
      BY <1>1, <1>2, SavedRow
    <3>2. sessions'[mem[r].sid].status = "closed"
      BY <1>1, <1>2, <2>6, SavedRow
    <3>3. QED
      BY <1>1, <2>5, <3>1, <3>2 DEF ActiveOf
  <2>8. ActiveOf(cmd[r].user, cmd[r].channel)' = {}
    BY <2>7 DEF ActiveOf
  <2>9. QED
    BY <1>1, <2>2, <2>3, <2>4, <2>8 DEF CallOne, SameSession
<1>5. QED
  BY <1>3, <1>4 DEF SaveClosed

\* The id of a session just opened is not taken.
LEMMA SavesOne ==
    ASSUME IInv, SerialInv, NEW r \in Requests, CallOne(r),
           SaveOpened(r) \/ SaveMarkers(r) \/ SaveReply(r) \/ SaveContact(r)
    PROVE  CallOne(r)' /\ pc'[r] # "failed"
<1>1. TypeOK /\ CallSerial(r) /\ pc[r] \in {"saveOpened", "saveMarkers", "saveReply", "saveContact"}
  BY DEF IInv, SerialInv, SaveOpened, SaveMarkers, SaveReply, SaveContact
<1>2. pc[r] # "new" /\ pc[r] \in Holding
  BY <1>1 DEF Saving, Holding, Labels, Ended
<1>3. mem[r] \in Session
  BY <1>2, AtWork
<1>4. CanSave(mem[r])
  BY <1>1, <1>2 DEF CallOne, CallSerial, CanSave
<1>5. mem'[r] = MarkPersisted(mem[r]) /\ pc'[r] \in {"gate", "respond", "done"}
  BY <1>1, <1>4 DEF SaveOpened, SaveMarkers, SaveReply, SaveContact, Goto, Hold, TypeOK, Gate
<1>6. mem'[r].persisted
  BY <1>3, <1>5, MarkPersistedEffect
<1>7. QED
  BY <1>5, <1>6, OneSettled

\* The session a call answers in is stored.
LEMMA WorkingOne ==
    ASSUME IInv, NEW r \in Requests,
           EnsureVerified(r) \/ Respond(r) \/ FindTicket(r) \/ SaveTicket(r)
    PROVE  CallOne(r)' /\ pc'[r] # "failed"
<1>1. TypeOK /\ pc[r] \in {"gate", "respond", "findTicket", "saveTicket"}
  BY DEF IInv, EnsureVerified, Respond, FindTicket, SaveTicket
<1>2. pc[r] \in Holding /\ pc[r] # "new" /\ pc[r] \in Stored
  BY <1>1 DEF Holding, Stored, Answering, Labels, Saving, Ended
<1>3. mem[r] \in Session /\ mem[r].persisted /\ sessions[mem[r].sid] # None
  BY <1>2, AtWork DEF CallInv, HeldBy
<1>4. SameSession(mem[r], mem[r]) /\ SameSession(Marked(r), mem[r])
  BY <1>1, <1>3, MarkedSame DEF SameSession
<1>5. ASSUME NEW n \in Nat, NEW s, s \in {mem[r], Marked(r)}, Answer(r, s, n)
      PROVE  mem'[r].persisted /\ pc'[r] = "saveReply"
  <2>1. s \in Session /\ s.persisted
    BY <1>3, <1>4, <1>5 DEF SameSession
  <2>2. QED
    BY <1>1, <1>5, <2>1, AnswerMoves DEF SameSession
<1>6. ASSUME NEW s, s \in {mem[r], Marked(r)}, PassGate(r, s)
      PROVE  mem'[r].persisted /\ pc'[r] \in {"respond", "saveMarkers"}
  BY <1>1, <1>3, <1>4, <1>6 DEF PassGate, Goto, Hold, TypeOK, SameSession
<1>7. ASSUME mem' = mem, Goto(r, "findTicket") \/ Goto(r, "saveTicket")
      PROVE  mem'[r].persisted /\ pc'[r] \in {"findTicket", "saveTicket"}
  BY <1>1, <1>3, <1>7 DEF Goto, TypeOK
<1>8. mem'[r].persisted /\ pc'[r] \in {"respond", "saveMarkers", "saveReply", "findTicket", "saveTicket"}
  <2>1. CASE EnsureVerified(r)
    BY <1>5, <1>6, <2>1 DEF EnsureVerified
  <2>2. CASE Respond(r)
    BY <1>5, <1>7, <2>2 DEF Respond
  <2>3. CASE FindTicket(r)
    BY <1>5, <1>7, <2>3 DEF FindTicket
  <2>4. CASE SaveTicket(r)
    BY <1>3, <1>5, <2>4 DEF SaveTicket
  <2>5. QED
    BY <2>1, <2>2, <2>3, <2>4
<1>9. QED
  BY <1>8, OneSettled

\* A shared contact goes into the session found or opened.
LEMMA VerifyPhoneOne ==
    ASSUME IInv, NEW r \in Requests, CallOne(r), VerifyPhone(r)
    PROVE  CallOne(r)' /\ pc'[r] # "failed"
<1>1. TypeOK /\ pc[r] = "verify" /\ pc[r] \in Holding /\ pc[r] # "new"
  BY DEF IInv, VerifyPhone, Holding, Labels, Saving, Ended
<1>2. mem[r] \in Session /\ UNCHANGED <<sessions, cmd>>
  BY <1>1, AtWork DEF VerifyPhone, tables, past
<1>3. CASE Goto(r, "done")
  <2>1. pc'[r] = "done"
    BY <1>1, <1>3 DEF Goto, TypeOK
  <2>2. QED
    BY <2>1, OneSettled DEF Ended
<1>4. CASE Goto(r, "saveContact") /\ Hold(r, Marked(r))
  <2>1. SameSession(mem'[r], mem[r]) /\ pc'[r] = "saveContact"
    BY <1>1, <1>2, <1>4, MarkedSame DEF Goto, Hold, TypeOK
  <2>2. QED
    BY <1>1, <1>2, <2>1 DEF CallOne, SameSession, ActiveOf
<1>5. QED
  BY <1>3, <1>4 DEF VerifyPhone

\* A failure ends the call, or leaves its session to be closed.
LEMMA FaultOne ==
    ASSUME IInv, NEW r \in Requests, CallOne(r), Fault(r)
    PROVE  CallOne(r)'
<1>1. TypeOK /\ mem' = mem /\ cmd' = cmd
  BY DEF IInv, Fault, past
<1>2. CASE Goto(r, "failed")
  <2>1. pc'[r] = "failed"
    BY <1>1, <1>2 DEF Goto, TypeOK
  <2>2. QED
    BY <2>1, OneSettled DEF Ended
<1>3. CASE pc[r] = "closeTickets" /\ Goto(r, "saveClosed") /\ UNCHANGED <<tables, time>>
  <2>1. pc'[r] = "saveClosed" /\ sessions' = sessions
    BY <1>1, <1>3 DEF Goto, TypeOK, tables
  <2>2. QED
    BY <1>1, <1>3, <2>1, CloseTicketsOne
<1>4. QED
  BY <1>2, <1>3 DEF Fault

\* A call that names a live session, if any, goes on unless something fails.
LEMMA StepOne ==
    ASSUME IInv, SerialInv, OneInv, NEW r \in Requests, Step(r)
    PROVE  CallOne(r)' /\ pc'[r] # "failed"
<1>1. CallOne(r) /\ CallsNameLiveSessions
  BY DEF OneInv, CallOne, CallsNameLiveSessions
<1>2. CASE CloseTickets(r)
  <2>1. /\ pc[r] = "closeTickets" /\ pc'[r] = "saveClosed" /\ mem' = mem
        /\ UNCHANGED <<sessions, cmd>>
    BY <1>2 DEF CloseTickets, Goto, IInv, TypeOK, past
  <2>2. QED
    BY <1>1, <2>1, CloseTicketsOne
<1>3. QED
  BY <1>1, <1>2, FindSessionOne, LoadMessagesOne, CheckIdleOne, SaveClosedOne, SavesOne, WorkingOne,
     VerifyPhoneOne DEF Step

\* Before any call nobody has a session.
LEMMA InitOne == Init => OneInv
<1> SUFFICES ASSUME Init PROVE OneInv
  OBVIOUS
<1>1. \A u \in Users, ch \in Channels : ActiveOf(u, ch) = {}
  BY DEF Init, ActiveOf
<1>2. ASSUME NEW r \in Requests PROVE CallOne(r)
  BY DEF Init, CallOne, Holding
<1>3. QED
  BY <1>1, <1>2 DEF OneInv, OneActive

\* A running call keeps what holds of active sessions.
LEMMA OneAfterStep ==
    ASSUME IInv, SerialInv, OneInv, OneCallPerCustomer, NEW r \in Requests, Step(r) \/ Fault(r)
    PROVE  OneInv'
<1>1. CallOne(r)'
  BY StepOne, FaultOne DEF OneInv
<1>2. QED
  BY <1>1, OneActiveStays, OneUndisturbed DEF OneInv

\* So does an arriving one that names a live session, if any.
LEMMA OneAfterArrival ==
    ASSUME IInv, OneInv, NEW r \in Requests, Arrive(r), KnownCall(r)'
    PROVE  OneInv'
<1>1. TypeOK /\ UNCHANGED <<sessions, mem>> /\ pc'[r] = "find"
  BY DEF IInv, TypeOK, Arrive, tables, Goto
<1>2. CallOne(r)'
  BY <1>1 DEF CallOne, Holding
<1>3. ASSUME NEW q \in Requests, q # r PROVE CallOne(q)'
  <2>1. pc'[q] = pc[q] /\ cmd'[q] = cmd[q] /\ CallOne(q)
    BY <1>1, <1>3 DEF Arrive, Goto, TypeOK, OneInv
  <2>2. QED
    BY <1>1, <2>1 DEF CallOne, KnownCall, ActiveOf
<1>4. QED
  BY <1>1, <1>2, <1>3 DEF OneInv, OneActive, ActiveOf

\* So do time and stuttering.
LEMMA OneAtRest ==
    ASSUME OneInv, TimePasses \/ UNCHANGED vars
    PROVE  OneInv'
<1>1. UNCHANGED <<sessions, pc, mem, cmd>>
  BY DEF TimePasses, vars, tables, time, past
<1>2. QED
  BY <1>1 DEF OneInv, OneActive, CallOne, KnownCall, ActiveOf

\* One active session for each customer and channel, as AtMostOneActiveSession
\* says it.
LEMMA OneIsAtMostOne ==
    ASSUME OneActive, NEW u \in Users, NEW ch \in Channels
    PROVE  Cardinality(ActiveOf(u, ch)) <= 1
<1>1. CASE ActiveOf(u, ch) = {}
  BY <1>1, FS_EmptySet
<1>2. CASE ActiveOf(u, ch) # {}
  <2>1. PICK s : s \in ActiveOf(u, ch)
    BY <1>2
  <2>2. ActiveOf(u, ch) = {s}
    BY <2>1 DEF OneActive
  <2>3. Cardinality(ActiveOf(u, ch)) = 1
    BY <2>2, FS_Singleton
  <2>4. QED
    BY <2>3
<1>3. QED
  BY <1>1, <1>2

\* Calls that name no session, or an active one of their customer and channel, and
\* do not overlap for one customer: whatever fails, a customer never has two
\* active sessions on a channel, so that FindActive's ORDER BY never has to choose.
THEOREM OneSessionAtATime ==
    Spec /\ []OneCallPerCustomer /\ []CallsNameLiveSessions => []AtMostOneActiveSession
<1>1. Init => OneInv
  BY InitOne
<1>2. /\ IInv /\ SerialInv /\ OneInv /\ OneCallPerCustomer /\ CallsNameLiveSessions'
      /\ [Next]_vars
      => OneInv'
  <2> SUFFICES ASSUME IInv, SerialInv, OneInv, OneCallPerCustomer, CallsNameLiveSessions', [Next]_vars
               PROVE  OneInv'
    OBVIOUS
  <2>1. ASSUME NEW r \in Requests, Arrive(r) PROVE KnownCall(r)'
    <3>1. pc'[r] = "find"
      BY <2>1 DEF Arrive, Goto, IInv, TypeOK
    <3>2. QED
      BY <3>1 DEF CallsNameLiveSessions
  <2>2. QED
    BY <2>1, OneAfterStep, OneAfterArrival, OneAtRest DEF Next, Drained
<1>3. OneInv => AtMostOneActiveSession
  BY OneIsAtMostOne DEF OneInv, AtMostOneActiveSession
<1>4. QED
  BY <1>1, <1>2, <1>3, Invariance, SerialInvariance, PTL DEF Spec

\* No such call is refused: it fails only where a statement, a transaction or the
\* responder fails.  No id is taken, no named session is closed or another's.
THEOREM LiveCallsAreServed ==
    Spec /\ []OneCallPerCustomer /\ []CallsNameLiveSessions =>
        [][\A r \in Requests : pc'[r] = "failed" => pc[r] = "failed" \/ faults' > faults]_vars
<1> DEFINE Served == \A r \in Requests : pc'[r] = "failed" => pc[r] = "failed" \/ faults' > faults
<1>1. Init => OneInv
  BY InitOne
<1>2. /\ IInv /\ SerialInv /\ OneInv /\ OneCallPerCustomer /\ CallsNameLiveSessions'
      /\ [Next]_vars
      => OneInv' /\ [Served]_vars
  <2> SUFFICES ASSUME IInv, SerialInv, OneInv, OneCallPerCustomer, CallsNameLiveSessions', [Next]_vars
               PROVE  OneInv' /\ [Served]_vars
    OBVIOUS
  <2>1. ASSUME NEW r \in Requests, Arrive(r) PROVE KnownCall(r)' /\ pc'[r] = "find"
    <3>1. pc'[r] = "find"
      BY <2>1 DEF Arrive, Goto, IInv, TypeOK
    <3>2. QED
      BY <3>1 DEF CallsNameLiveSessions
  <2>2. ASSUME NEW r \in Requests, Arrive(r) \/ Step(r) \/ Fault(r) PROVE Served
    <3>1. \A q \in Requests : q # r => pc'[q] = pc[q]
      BY <2>2, StepGood DEF GoodStep, Frame
    <3>2. pc'[r] = "failed" => faults' > faults
      <4>1. CASE Fault(r)
        BY <4>1 DEF Fault, IInv, TypeOK
      <4>2. QED
        BY <2>1, <2>2, <4>1, StepOne
    <3>3. QED
      BY <3>1, <3>2
  <2>3. ASSUME TimePasses \/ UNCHANGED vars PROVE OneInv' /\ Served
    <3>1. UNCHANGED pc
      BY <2>3 DEF TimePasses, vars
    <3>2. Served
      BY <3>1
    <3>3. QED
      BY <2>3, <3>2, OneAtRest
  <2>4. ASSUME NEW r \in Requests, Arrive(r) \/ Step(r) \/ Fault(r) PROVE OneInv'
    BY <2>1, <2>4, OneAfterStep, OneAfterArrival
  <2> HIDE DEF Served
  <2>5. QED
    BY <2>2, <2>3, <2>4 DEF Next, Drained
<1> HIDE DEF Served
<1>3. QED
  BY <1>1, <1>2, Invariance, SerialInvariance, PTL DEF Spec, Served

-----------------------------------------------------------------------------
(* The tables, as Conversations sees them.                                 *)

\* A call opens its ticket as the last thing before its answer.
TicketsInv == \A r \in Requests : tickets[r] # None => pc[r] \in {"saveReply"} \cup Ended

ConversationsInv == IInv /\ TurnsInv /\ TicketsInv

\* A step of a call is one transaction: it saves the session it holds, closes its
\* tickets, opens one, or reads.
Transaction(r) ==
    \/ UNCHANGED tables
    \/ pc[r] \in Saving /\ CanSave(mem[r]) /\ Save(mem[r]) /\ UNCHANGED tickets
    \/ /\ pc[r] = "closeTickets" /\ CloseBySession(mem[r].sid)
       /\ UNCHANGED <<sessions, messages>>
    \/ /\ pc[r] = "saveTicket" /\ sessions[mem[r].sid] # None /\ OpenTicket(r)
       /\ pc'[r] \in {"saveReply"} \cup Ended
       /\ UNCHANGED <<sessions, messages>>

\* Every step of a running call is a transaction.
LEMMA StepIsTransaction ==
    ASSUME IInv, NEW r \in Requests, Step(r) \/ Fault(r)
    PROVE  Transaction(r)
<1>1. ASSUME pc[r] \in {"saveClosed", "saveMarkers", "saveReply"} PROVE CanSave(mem[r])
  BY <1>1 DEF IInv, CallInv, Stored, Answering, CanSave
<1>2. CASE FindSession(r) \/ LoadMessages(r) \/ CheckIdle(r) \/ EnsureVerified(r)
           \/ Respond(r) \/ FindTicket(r) \/ VerifyPhone(r)
  BY <1>2 DEF FindSession, LoadMessages, CheckIdle, EnsureVerified, Respond, FindTicket,
              VerifyPhone, Transaction
<1>3. CASE SaveClosed(r) \/ SaveOpened(r) \/ SaveMarkers(r) \/ SaveReply(r) \/ SaveContact(r)
  BY <1>1, <1>3 DEF SaveClosed, SaveOpened, SaveMarkers, SaveReply, SaveContact, Saving,
                    Transaction, tables
<1>4. CASE CloseTickets(r)
  BY <1>4 DEF CloseTickets, Transaction
<1>5. CASE SaveTicket(r)
  <2>1. pc \in [Requests -> Labels]
    BY DEF IInv, TypeOK
  <2>2. QED
    BY <1>5, <2>1 DEF SaveTicket, Transaction, Answer, Goto, tables, Ended
<1>6. CASE Fault(r)
  <2>1. pc \in [Requests -> Labels]
    BY DEF IInv, TypeOK
  <2>2. QED
    BY <1>6, <2>1 DEF Fault, Transaction, Goto, Ended
<1>7. QED
  BY <1>2, <1>3, <1>4, <1>5, <1>6 DEF Step

\* A call that has begun has begun for good, and one that has its answer or has
\* ended goes on to its end.
LEMMA StaysBegun ==
    ASSUME IInv, NEW r \in Requests, Step(r) \/ Fault(r)
    PROVE  pc'[r] \in Labels \ {"new"} /\ (pc[r] = "saveReply" => pc'[r] \in Ended)
<1>1. pc \in [Requests -> Labels]
  BY DEF IInv, TypeOK
<1>2. QED
  BY <1>1 DEF Goto, Step, Fault, FindSession, LoadMessages, CheckIdle, CloseTickets, SaveClosed,
     SaveOpened, EnsureVerified, SaveMarkers, Respond, FindTicket, SaveTicket, SaveReply,
     VerifyPhone, SaveContact, StartTurn, Answer, PassGate, Gate, Labels, Saving, Ended

\* No step breaks the order of a ticket and its answer.
LEMMA NextTickets ==
    ASSUME IInv, TicketsInv, [Next]_vars
    PROVE  TicketsInv'
<1>1. ASSUME NEW r \in Requests, Step(r) \/ Fault(r) PROVE TicketsInv'
  <2>1. Transaction(r) /\ Frame(r) /\ TypeOK
    BY <1>1, StepIsTransaction, StepGood DEF GoodStep, IInv
  <2>2. pc[r] \notin Ended /\ (pc[r] = "saveReply" => pc'[r] \in Ended)
    BY <1>1, StepKeeps, StaysBegun
  <2>3. CASE tickets' = tickets
    BY <2>1, <2>2, <2>3 DEF TicketsInv, Frame
  <2>4. CASE CloseBySession(mem[r].sid)
    <3>1. \A t \in Requests : tickets'[t] # None => tickets[t] # None
      BY <2>4 DEF CloseBySession, IsOpenTicket
    <3>2. QED
      BY <2>1, <2>2, <3>1 DEF TicketsInv, Frame
  <2>5. CASE OpenTicket(r) /\ pc'[r] \in {"saveReply"} \cup Ended
    BY <2>1, <2>5 DEF OpenTicket, TicketsInv, Frame, TypeOK
  <2>6. QED
    BY <2>1, <2>3, <2>4, <2>5 DEF Transaction, tables
<1>2. ASSUME NEW r \in Requests, Arrive(r) PROVE TicketsInv'
  <2>1. Frame(r) /\ tickets' = tickets /\ pc[r] = "new"
    BY <1>2, StepGood DEF GoodStep, Arrive, tables
  <2>2. QED
    BY <2>1 DEF TicketsInv, Frame, Ended
<1>3. CASE TimePasses \/ UNCHANGED vars
  BY <1>3 DEF TimePasses, vars, tables, TicketsInv
<1>4. QED
  BY <1>1, <1>2, <1>3 DEF Next, Drained

\* A saved session stores part of the turn of the call.
LEMMA SaveStores ==
    ASSUME ConversationsInv, NEW r \in Requests, Step(r) \/ Fault(r), pc[r] \in Saving,
           CanSave(mem[r]), Save(mem[r]), UNCHANGED tickets,
           NEW id \in SessionIds, id = mem[r].sid
    PROVE  Conversation!Store(r, id)
<1>1. IInv /\ TurnInv(r) /\ cmd' = cmd /\ TypeOK
  BY StepKeeps DEF ConversationsInv, TurnsInv, IInv
<1>2. /\ mem[r] \in Session /\ mem[r].user = cmd[r].user
      /\ mem[r].persisted => sessions[id] # None /\ sessions[id].user = cmd[r].user
      /\ ~mem[r].persisted => sessions[id] = None
      /\ sessions'[id] # None /\ sessions'[id].user = mem[r].user
  BY <1>1, SavedRow
<1>3. Conversation!IsOwn(r, id)' /\ (sessions[id] = None \/ Conversation!IsOwn(r, id))
  BY <1>1, <1>2 DEF Conversation!IsOwn
<1>4. /\ sessions' = [sessions EXCEPT ![id] = sessions'[id]]
      /\ \/ sessions[id] = None
         \/ \E st \in {"active", "closed"} : sessions'[id] = [sessions[id] EXCEPT !.status = st]
  <2> DEFINE row == IF mem[r].persisted THEN [sessions[id] EXCEPT !.status = mem[r].status]
                    ELSE [user |-> mem[r].user, channel |-> mem[r].channel,
                          status |-> mem[r].status, at |-> mem[r].at]
  <2>1. sessions' = [sessions EXCEPT ![id] = row]
    BY DEF Save
  <2>2. mem[r].status \in {"active", "closed"} /\ sessions \in [SessionIds -> Row \cup {None}]
    BY <1>1, <1>2 DEF Session, TypeOK
  <2>3. sessions[id] = None \/ row = [sessions[id] EXCEPT !.status = mem[r].status]
    BY <1>2
  <2> HIDE DEF row
  <2>4. sessions'[id] = row
    BY <1>2, <2>1, <2>2
  <2>5. sessions' = [sessions EXCEPT ![id] = sessions'[id]]
    BY <2>1, <2>4
  <2>6. sessions[id] = None \/ sessions'[id] = [sessions[id] EXCEPT !.status = mem[r].status]
    BY <2>3, <2>4
  <2>7. QED
    BY <2>2, <2>5, <2>6
<1>5. mem[r] # None /\ Draft(r) = mem[r].pending /\ \A m \in mem[r].pending : m.from = r
  <2>1. pc[r] \in Holding
    BY DEF Saving, Holding, Labels, Ended
  <2>2. mem[r] # None /\ Held(r)
    BY <1>1, <2>1 DEF IInv, CallInv
  <2>3. QED
    BY <2>2 DEF Held, HeldBy, Draft
<1>6. messages' = messages \cup mem[r].pending
  BY DEF Save
<1>7. Conversation!Said(r)' = Turn(r)
  BY <1>5, <1>6 DEF Conversation!Said, Turn, Sent
<1>8. Conversation!IsTurn(Turn(r), id)
  BY <1>1 DEF TurnInv, Laid, Replied, Conversation!IsTurn
<1>9. messages \subseteq messages' /\ \A m \in messages' : m \in messages \/ m.from = r
  BY <1>5, <1>6
<1>10. Conversation!IsTurn(Conversation!Said(r)', id)
  BY <1>7, <1>8
<1>11. QED
  BY <1>3, <1>4, <1>9, <1>10 DEF Conversation!Store

\* Tickets are opened and closed in the customer's own session.
LEMMA TicketsOwn ==
    ASSUME ConversationsInv, NEW r \in Requests, Step(r) \/ Fault(r), Transaction(r),
           pc[r] \in {"closeTickets", "saveTicket"}
    PROVE  \/ UNCHANGED tables
           \/ \E id \in SessionIds :
                 Conversation!OpenTicket(r, id) \/ Conversation!CloseTickets(r, id)
<1>1. IInv /\ TypeOK /\ cmd' = cmd
  BY StepKeeps DEF ConversationsInv, IInv
<1>2. pc[r] \in Holding /\ pc[r] \in Own /\ pc[r] \in Stored
  BY DEF Holding, Own, Stored, Answering, Labels, Saving, Ended
<1> DEFINE id == mem[r].sid
<1>3. CallInv(r) /\ HeldBy(r, mem[r]) /\ id \in SessionIds
  BY <1>1, <1>2, AtWork DEF Holding, Labels
<1>4. Conversation!IsOwn(r, id) /\ mem[r].user = cmd[r].user
  BY <1>2, <1>3 DEF CallInv, HeldBy, Conversation!IsOwn
<1>5. CASE CloseBySession(id) /\ UNCHANGED <<sessions, messages>>
  <2>1. \A t \in Requests : tickets[t] # None /\ tickets[t].status = "closed" =>
            tickets[t] = [tickets[t] EXCEPT !.status = "closed"]
    BY <1>1 DEF TypeOK, Ticket
  <2>2. \A t \in Requests :
            (IF IsOpenTicket(t, id) THEN [tickets[t] EXCEPT !.status = "closed"] ELSE tickets[t])
            = (IF tickets[t] # None /\ tickets[t].sid = id
               THEN [tickets[t] EXCEPT !.status = "closed"] ELSE tickets[t])
    BY <2>1 DEF IsOpenTicket
  <2>3. Conversation!CloseTickets(r, id)
    BY <1>4, <1>5, <2>2 DEF CloseBySession, Conversation!CloseTickets
  <2>4. QED
    BY <1>3, <2>3
<1>6. CASE pc[r] = "saveTicket" /\ OpenTicket(r) /\ UNCHANGED <<sessions, messages>>
  <2> DEFINE ticket == [sid |-> id, user |-> mem[r].user, status |-> "open", at |-> clock]
  <2>1. tickets[r] = None
    BY <1>6 DEF ConversationsInv, TicketsInv, Ended
  <2>2. tickets' = [tickets EXCEPT ![r] = ticket]
    BY <1>6 DEF OpenTicket
  <2>3. tickets'[r] = ticket
    BY <1>1, <2>2 DEF TypeOK
  <2>4. ticket \in Ticket
    BY <1>1, <1>2, <1>3, AtWork DEF TypeOK, Ticket, Session, Holding, Labels
  <2>5. ticket # None /\ ticket.sid = id /\ ticket.user = mem[r].user /\ ticket.status = "open"
    BY <2>4, ConstantsAssumption
  <2> HIDE DEF ticket, id
  <2>6. Conversation!OpenTicket(r, id)
    BY <1>4, <1>6, <2>1, <2>2, <2>3, <2>5 DEF Conversation!OpenTicket
  <2>7. QED
    BY <1>3, <2>6
<1>7. QED
  BY <1>5, <1>6 DEF Transaction, Saving

\* Every step of a running call is one of the abstract call.
LEMMA StepConverses ==
    ASSUME ConversationsInv, TurnsInv', NEW r \in Requests, Step(r) \/ Fault(r)
    PROVE  Conversation!Run(r)
<1> DEFINE state == [q \in Requests |-> IF pc[q] \in {"new"} \cup Ended THEN pc[q] ELSE "running"]
<1>1. IInv /\ TypeOK /\ cmd' = cmd /\ pc[r] \notin {"new"} \cup Ended /\ Frame(r)
  BY StepKeeps, StepGood DEF ConversationsInv, IInv, GoodStep
<1>2. state[r] = "running"
  BY <1>1
<1>3. state'[r] \in {"running", "done", "failed"} /\ state' = [state EXCEPT ![r] = state'[r]]
  <2>1. pc'[r] # "new"
    BY <1>1, StaysBegun
  <2>2. QED
    BY <1>1, <2>1 DEF Frame, Ended
<1>4. \/ UNCHANGED tables
      \/ \E id \in SessionIds : \/ Conversation!Store(r, id) \/ Conversation!OpenTicket(r, id)
                                \/ Conversation!CloseTickets(r, id)
  <2>1. Transaction(r)
    BY <1>1, StepIsTransaction
  <2>2. CASE pc[r] \in {"closeTickets", "saveTicket"}
    BY <2>1, <2>2, TicketsOwn
  <2>3. CASE pc[r] \notin {"closeTickets", "saveTicket"}
    <3>1. pc[r] \in Saving => mem[r].sid \in SessionIds
      BY <1>1, AtWork DEF Saving, Holding, Labels, Ended
    <3>2. QED
      BY <2>1, <2>3, <3>1, SaveStores DEF Transaction
  <2>4. QED
    BY <2>2, <2>3
<1>5. ASSUME state'[r] = "done", cmd[r].op = "reply"
      PROVE  \E a \in messages' : a.body = "answer" /\ a.from = r
  <2>1. pc'[r] = "done"
    BY <1>5
  <2>2. TurnInv(r)'
    BY DEF TurnsInv
  <2>3. QED
    BY <1>1, <1>5, <2>1, <2>2 DEF TurnInv, Has, Sent
<1> HIDE DEF state
<1>6. QED
  BY <1>1, <1>2, <1>3, <1>4, <1>5 DEF Conversation!Run, Conversation!tables, tables, state

\* So is its arrival; time is not seen.
LEMMA NextConverses ==
    ASSUME ConversationsInv, TurnsInv', [Next]_vars
    PROVE  [Conversation!Next]_Conversation!vars
<1>1. ASSUME NEW r \in Requests, Step(r) \/ Fault(r) PROVE Conversation!Next
  BY <1>1, StepConverses DEF Conversation!Next
<1>2. ASSUME NEW r \in Requests, Arrive(r) PROVE Conversation!Next
  <2> DEFINE state == [q \in Requests |-> IF pc[q] \in {"new"} \cup Ended THEN pc[q] ELSE "running"]
  <2>1. TypeOK
    BY DEF ConversationsInv, IInv
  <2>2. pc[r] = "new" /\ pc' = [pc EXCEPT ![r] = "find"] /\ UNCHANGED tables
        /\ \E c \in Commands : cmd' = [cmd EXCEPT ![r] = c]
    BY <1>2 DEF Arrive, Goto
  <2>3. state[r] = "new" /\ state' = [state EXCEPT ![r] = "running"]
    BY <2>1, <2>2 DEF TypeOK, Ended
  <2> HIDE DEF state
  <2>4. Conversation!Begin(r)
    BY <2>2, <2>3 DEF Conversation!Begin, Conversation!tables, tables, state
  <2>5. QED
    BY <2>4 DEF Conversation!Next
<1>3. CASE TimePasses \/ UNCHANGED vars
  BY <1>3 DEF TimePasses, vars, tables, past, Conversation!vars, Conversation!tables
<1>4. QED
  BY <1>1, <1>2, <1>3 DEF Next, Drained

\* Before any call the tables are empty and every call is new.
LEMMA InitConverses == Init => ConversationsInv /\ Conversation!Init
<1>1. Init => IInv /\ TurnsInv
  BY InitIInv, InitTurns
<1>2. Init => TicketsInv
  BY DEF Init, TicketsInv
<1>3. Init => Conversation!Init
  BY DEF Init, Conversation!Init
<1>4. QED
  BY <1>1, <1>2, <1>3 DEF ConversationsInv

\* The chat use case implements Conversations: whatever overlaps, rotates, fails or
\* loses its acknowledgement, the tables change by turns told in order, each in
\* sessions of its own customer.
THEOREM ConversationsAreKept == Spec => KeepsConversations
<1>1. ConversationsInv /\ [Next]_vars => ConversationsInv'
  BY NextIInv, NextTurns, NextTickets DEF ConversationsInv
<1>2. ConversationsInv /\ ConversationsInv' /\ [Next]_vars => [Conversation!Next]_Conversation!vars
  BY NextConverses DEF ConversationsInv
<1>3. QED
  BY <1>1, <1>2, InitConverses, PTL DEF Spec, KeepsConversations, Conversation!Spec

-----------------------------------------------------------------------------
(* How long a call can take                                                *)

\* How many steps a call has still to take, at most, where it stands at l.
StepsFrom(l) ==
    CASE l = "new"          -> 13
      [] l = "find"         -> 12
      [] l = "load"         -> 11
      [] l = "activity"     -> 10
      [] l = "closeTickets" -> 9
      [] l = "saveClosed"   -> 8
      [] l = "saveOpened"   -> 7
      [] l = "gate"         -> 6
      [] l = "saveMarkers"  -> 5
      [] l = "respond"      -> 4
      [] l = "findTicket"   -> 3
      [] l \in {"saveTicket", "verify"}     -> 2
      [] l \in {"saveReply", "saveContact"} -> 1
      [] l \in Ended        -> 0

\* Calls advance only; each step of a call, failed or not, is one step less.
CallsDescend ==
    \A r \in Requests : /\ StepsFrom(pc'[r]) <= StepsFrom(pc[r])
                        /\ Step(r) \/ Fault(r) => StepsFrom(pc'[r]) < StepsFrom(pc[r])

\* The same, label by label.
LEMMA StepsFromLabels ==
    /\ StepsFrom("new") = 13 /\ StepsFrom("find") = 12 /\ StepsFrom("load") = 11
    /\ StepsFrom("activity") = 10 /\ StepsFrom("closeTickets") = 9 /\ StepsFrom("saveClosed") = 8
    /\ StepsFrom("saveOpened") = 7 /\ StepsFrom("gate") = 6 /\ StepsFrom("saveMarkers") = 5
    /\ StepsFrom("respond") = 4 /\ StepsFrom("findTicket") = 3
    /\ StepsFrom("saveTicket") = 2 /\ StepsFrom("verify") = 2
    /\ StepsFrom("saveReply") = 1 /\ StepsFrom("saveContact") = 1
    /\ StepsFrom("done") = 0 /\ StepsFrom("failed") = 0
  BY DEF StepsFrom, Ended

\* Where a turn and an answer lead.
LEMMA TurnsLead ==
    ASSUME NEW r \in Requests, TypeOK, NEW s
    PROVE  /\ StartTurn(r, s) => pc'[r] \in {"failed", "saveOpened", "gate", "respond"}
           /\ \A n : Answer(r, s, n) => pc'[r] = "saveReply"
           /\ PassGate(r, s) => pc'[r] \in {"respond", "saveMarkers"}
  BY DEF StartTurn, Answer, PassGate, Goto, Gate, TypeOK

\* No call goes round in circles: whatever overlaps, rotates or fails, a call
\* ends within twelve steps.
THEOREM CallsRunOut == Spec => [][CallsDescend]_vars
<1>1. IInv /\ [Next]_vars => [CallsDescend]_vars
  <2> SUFFICES ASSUME IInv, Next, NEW r \in Requests
               PROVE  /\ StepsFrom(pc'[r]) <= StepsFrom(pc[r])
                      /\ Step(r) \/ Fault(r) => StepsFrom(pc'[r]) < StepsFrom(pc[r])
    BY DEF CallsDescend
  <2>1. TypeOK
    BY DEF IInv
  <2>2. CASE Step(r) \/ Fault(r)
    <3>1. CASE FindSession(r)
      BY <2>1, <3>1, TurnsLead, StepsFromLabels DEF FindSession, Goto, TypeOK, Ended
    <3>2. CASE LoadMessages(r)
      BY <2>1, <3>2, StepsFromLabels DEF LoadMessages, Goto, TypeOK, Ended
    <3>3. CASE CheckIdle(r)
      BY <2>1, <3>3, TurnsLead, StepsFromLabels DEF CheckIdle, Goto, TypeOK, Ended
    <3>4. CASE CloseTickets(r)
      BY <2>1, <3>4, StepsFromLabels DEF CloseTickets, Goto, TypeOK, Ended
    <3>5. CASE SaveClosed(r)
      BY <2>1, <3>5, TurnsLead, StepsFromLabels DEF SaveClosed, Goto, TypeOK, Ended
    <3>6. CASE SaveOpened(r)
      BY <2>1, <3>6, StepsFromLabels DEF SaveOpened, Goto, Gate, TypeOK, Ended
    <3>7. CASE EnsureVerified(r)
      BY <2>1, <3>7, TurnsLead, StepsFromLabels DEF EnsureVerified, Ended
    <3>8. CASE SaveMarkers(r)
      BY <2>1, <3>8, StepsFromLabels DEF SaveMarkers, Goto, TypeOK, Ended
    <3>9. CASE Respond(r)
      BY <2>1, <3>9, TurnsLead, StepsFromLabels DEF Respond, Goto, TypeOK, Ended
    <3>10. CASE FindTicket(r)
      BY <2>1, <3>10, TurnsLead, StepsFromLabels DEF FindTicket, Goto, TypeOK, Ended
    <3>11. CASE SaveTicket(r)
      BY <2>1, <3>11, TurnsLead, StepsFromLabels DEF SaveTicket, Goto, TypeOK, Ended
    <3>12. CASE SaveReply(r) \/ SaveContact(r)
      BY <2>1, <3>12, StepsFromLabels DEF SaveReply, SaveContact, Goto, TypeOK, Ended
    <3>13. CASE VerifyPhone(r)
      BY <2>1, <3>13, StepsFromLabels DEF VerifyPhone, Goto, TypeOK, Ended
    <3>14. CASE Fault(r)
      BY <2>1, <3>14, StepsFromLabels DEF Fault, Goto, TypeOK, Ended, Saving
    <3> QED
      BY <2>2, <3>1, <3>2, <3>3, <3>4, <3>5, <3>6, <3>7, <3>8, <3>9, <3>10, <3>11, <3>12, <3>13, <3>14
      DEF Step
  <2>3. CASE ~(Step(r) \/ Fault(r))
    <3>1. CASE Arrive(r)
      BY <2>1, <2>3, <3>1, StepsFromLabels DEF Arrive, Goto, TypeOK, Ended
    <3>2. CASE ~Arrive(r)
      <4>1. pc'[r] = pc[r]
        <5>1. ASSUME NEW q \in Requests, q # r, Arrive(q) \/ Step(q) \/ Fault(q)
              PROVE  pc'[r] = pc[r]
          BY <2>1, <5>1, StepGood DEF GoodStep, Frame, TypeOK
        <5> QED BY <2>3, <3>2, <5>1 DEF Next, TimePasses, Drained, vars
      <4>2. pc[r] \in Labels
        BY <2>1 DEF TypeOK
      <4> QED BY <2>3, <4>1, <4>2, StepsFromLabels DEF Labels, Saving, Ended
    <3> QED BY <3>1, <3>2
  <2> QED BY <2>2, <2>3
<1> QED
  BY <1>1, Invariance, PTL DEF Spec

=============================================================================
