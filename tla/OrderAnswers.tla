---------------------------- MODULE OrderAnswers ----------------------------
(***************************************************************************)
(* What a lookup of orders promises: one answer, in one step, that depends *)
(* on the request, on what Sahiy holds and on which requests to it failed, *)
(* and on nothing else: not on the order in which the sources answered.    *)
(***************************************************************************)
EXTENDS SahiyRows

CONSTANTS Requests, Worlds, NoRequest, NoResult

VARIABLES sahiy, asked, failed, result

vars == <<sahiy, asked, failed, result>>

Init ==
    /\ sahiy = NoWorld
    /\ asked = NoRequest
    /\ failed = {}
    /\ result = NoResult

Ask ==
    /\ asked = NoRequest
    /\ asked' \in Requests
    /\ sahiy' \in Worlds
    /\ UNCHANGED <<failed, result>>

\* Whose orders they are, when the requests in lost failed.
Owner(lost) ==
    LET known == IF Names(asked.msg)
                 THEN \/ sahiy.tracking /\ "owner" \notin lost
                      \/ Searchable(sahiy) /\ sahiy.search \notin lost
                 ELSE IF ByPhone(asked) THEN sahiy.phone
                 ELSE Searchable(sahiy) /\ sahiy.search \notin lost
    IN  IF asked.user # Nobody THEN asked.user
        ELSE IF known THEN Customer ELSE Nobody

\* Only a verified customer's question narrows the list.
Intent ==
    IF asked.user # Nobody /\ ~Names(asked.msg)
    THEN ParseListIntent(asked.msg) ELSE DefaultListIntent

\* The number to be looked for, if the request is about one parcel: a search
\* for a text asks for the parcel the text may name.
Term ==
    IF Names(asked.msg) THEN asked.msg.track
    ELSE IF asked.user # Nobody \/ ByPhone(asked) THEN NoTrack
    ELSE FreeText

\* The purchases a list has: those of the second endpoint if the first failed.
Purchases(lost) ==
    IF "custom" \notin lost THEN CustomDaigou(sahiy)
    ELSE IF "analytics" \notin lost THEN RowsOf(sahiy, "daigou")
    ELSE {}

ReadRows(lost) ==
    {o \in (UNION {RowsOf(sahiy, s) : s \in Sources \ (lost \cup {"daigou"})})
              \cup FirstPage(Purchases(lost)) :
        WantsSource(Intent, o.source)}

\* The number is looked for among the deliveries, then on the pages of purchases.
Delivered == Wanted(RowsOf(sahiy, "delivery"), Term)
Purchased == Wanted(UNION {Page(RowsOf(sahiy, "daigou"), n) : n \in 1..FindPages}, Term)

AnswerTo(lost) ==
    LET user == Owner(lost)
    IN  IF /\ asked.user = Nobody /\ ~Names(asked.msg) /\ ByPhone(asked)
           /\ "phone" \in lost
        THEN LookupError
        ELSE IF user = Nobody \/ "delivery" \in lost
        THEN NewCustomerSnapshot(user, {})
        ELSE IF Term # NoTrack /\ Delivered # {}
        THEN NewCustomerSnapshot(user, {First(Delivered)})
        ELSE IF Term # NoTrack /\ "find" \notin lost /\ Purchased # {}
        THEN OneDaigou(user, First(Purchased))
        ELSE ListAnswer(user, Intent, ReadRows(lost),
                        DaigouTotal(sahiy, Purchases(lost)))

Answer ==
    /\ asked # NoRequest /\ result = NoResult
    /\ failed' \in SUBSET Calls
    /\ result' = AnswerTo(failed')
    /\ UNCHANGED <<sahiy, asked>>

Next == Ask \/ Answer

Spec == Init /\ [][Next]_vars

=============================================================================
