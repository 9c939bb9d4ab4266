---------------------------- MODULE OrderLookup -----------------------------
(***************************************************************************)
(* One lookup of a customer's orders (src/internal/infra/sahiy): whose     *)
(* orders they are, the parcel that was named, or the list put together    *)
(* from five sources of which four are read concurrently.  A request that  *)
(* fails costs its source; every request of SahiyClient comes back.        *)
(* Line items are left out (their requests are in SahiyReads).             *)
(***************************************************************************)
EXTENDS SahiyRows

CONSTANTS
    Requests,       \* the lookups that may be asked for
    Worlds,         \* what Sahiy may hold
    NoRequest, NoResult, \* before a lookup, before its answer
    MaxFaults       \* bound: requests that fail

ASSUME LookupAssumption ==
    /\ NoRequest \notin Requests
    /\ MaxFaults \in Nat
    /\ \A req \in Requests : req.user \in {Customer, Nobody}

\* A list of an endpoint has finitely many rows, each at a place of its own.
ASSUME WorldsAssumption ==
    \A world \in Worlds :
        /\ IsFiniteSet(world.rows)
        /\ \A r \in world.rows : r.source \in Sources /\ r.pos \in Nat /\ r.code \in Int
        /\ \A r, s \in world.rows : r.source = s.source /\ r.pos = s.pos => r = s

VARIABLES
    sahiy,   \* rows of the endpoints, and how the customer can be found, during the lookup
    asked,   \* the LookupRequest
    pc,      \* the step the lookup is at
    step,    \* the search field, or the page, it is at
    plan,    \* arguments of buildSnapshotWithIntent
    rows,    \* the delivery rows
    fetch,   \* state of the concurrent fetches
    got,     \* their rows
    total,   \* the daigou total
    failed,  \* requests that failed
    faults,  \* how many more may fail
    result

build      == <<plan, rows, fetch, got, total>>
failures   == <<failed, faults>>
lookupVars == <<sahiy, asked, pc, step, build, failures, result>>

\* The endpoints that are read concurrently.
Fetched == Sources \ {"delivery"}

NoPlan == [user |-> Nobody, wanted |-> NoTrack, intent |-> DefaultListIntent]

LookupInit ==
    /\ sahiy = NoWorld
    /\ asked = NoRequest
    /\ pc = "idle"
    /\ step = 1
    /\ plan = NoPlan
    /\ rows = {} /\ got = {} /\ total = 0
    /\ fetch = [s \in Fetched |-> "off"]
    /\ failed = {} /\ faults = MaxFaults
    /\ result = NoResult

-----------------------------------------------------------------------------
(* Requests and steps                                                      *)

Fails(call) ==
    /\ faults > 0
    /\ faults' = faults - 1
    /\ failed' = failed \cup {call}
Works == UNCHANGED failures

GoTo(where) == pc' = where
Reply(answer) == GoTo("done") /\ result' = answer

-----------------------------------------------------------------------------
(* Whose orders                                                            *)

\* buildSnapshotWithIntent begins with the delivery list, if it is wanted.
Build(user, wanted, intent) ==
    /\ plan' = [user |-> user, wanted |-> wanted, intent |-> intent]
    /\ GoTo(IF WantsSource(intent, "delivery") THEN "delivery" ELSE "list")

Lookup(req) ==
    /\ pc = "idle"
    /\ asked' = req
    /\ sahiy' \in Worlds
    /\ \/ /\ Names(req.msg) /\ req.user # Nobody
          /\ Build(req.user, req.msg.track, DefaultListIntent)
       \/ /\ Names(req.msg) /\ req.user = Nobody
          /\ GoTo("tracking") /\ UNCHANGED plan
       \/ /\ ~Names(req.msg) /\ req.user # Nobody
          /\ Build(req.user, NoTrack, ParseListIntent(req.msg))
       \/ /\ ~Names(req.msg) /\ req.user = Nobody /\ ByPhone(req)
          /\ GoTo("phone") /\ UNCHANGED plan
       \/ /\ ~Names(req.msg) /\ req.user = Nobody /\ ~ByPhone(req)
          /\ GoTo("search") /\ UNCHANGED plan
    /\ UNCHANGED <<step, rows, fetch, got, total, failures, result>>

\* The tracking endpoint names the owner, or the search is tried.
LookupByTrack ==
    /\ pc = "tracking"
    /\ \/ /\ Works /\ sahiy.tracking
          /\ Build(Customer, asked.msg.track, DefaultListIntent)
       \/ /\ Works /\ ~sahiy.tracking
          /\ GoTo("search") /\ UNCHANGED plan
       \/ /\ Fails("owner")
          /\ GoTo("search") /\ UNCHANGED plan
    /\ UNCHANGED <<sahiy, asked, step, rows, fetch, got, total, result>>

\* Mutant: after the last field comes the first again.
SearchAgain ==
    /\ step' = (step % Len(SearchFields)) + 1
    /\ UNCHANGED <<pc, result, plan>>

SearchNextField ==
    /\ IF step < Len(SearchFields)
       THEN step' = step + 1 /\ UNCHANGED <<pc, result>>
       ELSE Reply(NewCustomerSnapshot(Nobody, {})) /\ UNCHANGED step
    /\ UNCHANGED plan

LookupBySearch ==
    /\ pc = "search"
    /\ \/ /\ Works /\ sahiy.search = SearchFields[step]
          /\ Build(Customer, SearchTerm(asked), DefaultListIntent)
          /\ UNCHANGED <<step, result>>
       \/ Works /\ sahiy.search # SearchFields[step] /\ SearchNextField
       \/ Fails(SearchFields[step]) /\ SearchNextField
    /\ UNCHANGED <<sahiy, asked, rows, fetch, got, total>>

LookupByPhone ==
    /\ pc = "phone"
    /\ \/ /\ Fails("phone")
          /\ Reply(LookupError) /\ UNCHANGED plan
       \/ /\ Works /\ ~sahiy.phone
          /\ Reply(NewCustomerSnapshot(Nobody, {})) /\ UNCHANGED plan
       \/ /\ Works /\ sahiy.phone
          /\ Build(Customer, NoTrack, DefaultListIntent) /\ UNCHANGED result
    /\ UNCHANGED <<sahiy, asked, step, rows, fetch, got, total>>

-----------------------------------------------------------------------------
(* The parcel that was named                                               *)

\* Without the delivery list the lookup ends: the user is there, no order is.
FetchDelivery ==
    /\ pc = "delivery"
    /\ \/ /\ Fails("delivery")
          /\ Reply(NewCustomerSnapshot(plan.user, {})) /\ UNCHANGED rows
       \/ /\ Works
          /\ rows' = RowsOf(sahiy, "delivery")
          /\ GoTo(IF plan.wanted = NoTrack THEN "list" ELSE "find") /\ UNCHANGED result
    /\ UNCHANGED <<sahiy, asked, step, plan, fetch, got, total>>

FindRequested ==
    /\ pc = "find"
    /\ IF Wanted(rows, plan.wanted) # {}
       THEN Reply(NewCustomerSnapshot(plan.user, {First(Wanted(rows, plan.wanted))})) /\ UNCHANGED step
       ELSE GoTo("pages") /\ step' = 1 /\ UNCHANGED result
    /\ UNCHANGED <<sahiy, asked, build, failures>>

\* findDaigouBySN: a page of purchases in every status; a failed page ends the search.
FindDaigouPage ==
    /\ pc = "pages"
    /\ LET list == RowsOf(sahiy, "daigou")
           hits == Wanted(Page(list, step), plan.wanted)
       IN  \/ Works /\ hits # {} /\ Reply(OneDaigou(plan.user, First(hits))) /\ UNCHANGED step
           \/ Works /\ hits = {} /\ IsLastPage(list, step) /\ GoTo("list") /\ UNCHANGED <<step, result>>
           \/ Works /\ hits = {} /\ ~IsLastPage(list, step) /\ step' = step + 1 /\ UNCHANGED <<pc, result>>
           \/ Fails("find") /\ GoTo("list") /\ UNCHANGED <<step, result>>
    /\ UNCHANGED <<sahiy, asked, build>>

-----------------------------------------------------------------------------
(* The list                                                                *)

StartFetches ==
    /\ pc = "list"
    /\ fetch' = [s \in Fetched |-> IF WantsSource(plan.intent, s) THEN "running" ELSE "off"]
    /\ GoTo("waiting")
    /\ UNCHANGED <<sahiy, asked, step, plan, rows, got, total, failures, result>>

Done(s) == fetch' = [fetch EXCEPT ![s] = "done"]

Fetch(s) ==
    /\ s # "daigou" /\ fetch[s] = "running"
    /\ Done(s)
    /\ \/ Works /\ got' = got \cup RowsOf(sahiy, s)
       \/ Fails(s) /\ UNCHANGED got
    /\ UNCHANGED <<sahiy, asked, pc, step, plan, rows, total, result>>

\* What fetchDaigou brings, of the list an endpoint answers from.
TakeDaigou(list) ==
    /\ Done("daigou")
    /\ got' = got \cup FirstPage(list)
    /\ total' = DaigouTotal(sahiy, list)

FetchCustom ==
    /\ fetch["daigou"] = "running"
    /\ \/ Works /\ TakeDaigou(CustomDaigou(sahiy))
       \/ /\ Fails("custom")
          /\ fetch' = [fetch EXCEPT !["daigou"] = "fallback"] /\ UNCHANGED <<got, total>>
    /\ UNCHANGED <<sahiy, asked, pc, step, plan, rows, result>>

\* The endpoint behind it knows no statuses: it sends purchases in all of them.
FetchAnalytics ==
    /\ fetch["daigou"] = "fallback"
    /\ \/ Works /\ TakeDaigou(RowsOf(sahiy, "daigou"))
       \/ Fails("analytics") /\ Done("daigou") /\ UNCHANGED <<got, total>>
    /\ UNCHANGED <<sahiy, asked, pc, step, plan, rows, result>>

\* Mutant: the answer is made when the purchases are there.
JoinEarly ==
    /\ pc = "waiting"
    /\ fetch["daigou"] \in {"off", "done"}
    /\ Reply(ListAnswer(plan.user, plan.intent, rows \cup got, total))
    /\ UNCHANGED <<sahiy, asked, step, build, failures>>

\* wg.Wait: the last fetch is done.
Join ==
    /\ pc = "waiting"
    /\ \A s \in Fetched : fetch[s] \in {"off", "done"}
    /\ Reply(ListAnswer(plan.user, plan.intent, rows \cup got, total))
    /\ UNCHANGED <<sahiy, asked, step, build, failures>>

LookupStep ==
    \/ LookupByTrack \/ LookupBySearch \/ LookupByPhone
    \/ FetchDelivery \/ FindRequested \/ FindDaigouPage
    \/ StartFetches \/ (\E s \in Fetched : Fetch(s)) \/ FetchCustom \/ FetchAnalytics
    \/ Join

LookupNext == (\E req \in Requests : Lookup(req)) \/ LookupStep

LookupSpec == LookupInit /\ [][LookupNext]_lookupVars

-----------------------------------------------------------------------------
(* Properties                                                              *)

Orders  == UNION {RowsOf(sahiy, s) : s \in Sources}
Intents == [sources : SUBSET Sources, filter : Filters, all : BOOLEAN]
Scopes  == {NoScope} \cup (Filters \X SUBSET Sources)

TypeOK ==
    /\ sahiy \in Worlds \cup {NoWorld}
    /\ asked \in Requests \cup {NoRequest}
    /\ pc \in {"idle", "tracking", "search", "phone", "delivery", "find", "pages",
               "list", "waiting", "done"}
    /\ step \in Nat \ {0}
    /\ plan.user \in {Customer, Nobody} /\ plan.intent \in Intents
    /\ rows \subseteq RowsOf(sahiy, "delivery")
    /\ fetch \in [Fetched -> {"off", "running", "fallback", "done"}]
    /\ got \subseteq Orders
    /\ total \in Nat
    /\ failed \subseteq Calls
    /\ faults \in 0..MaxFaults
    /\ result \in {NoResult, LookupError}
        \/ result \in [user : {Customer, Nobody}, rows : SUBSET Orders,
                       daigouTotal : Nat, scope : Scopes]

Listed == result.rows
Answered == result \notin {NoResult, LookupError}

\* No two rows of an answer, whatever the endpoints they come from, answer to a
\* common number: what one endpoint says of a number is not counted twice.
ParcelsAreListedOnce ==
    Answered => \A o, p \in Listed : SameParcel(o, p) => o = p

\* A row that was read is missing from an answer to a question that narrows
\* nothing only if its parcel is there, or if it is a purchase that has gone on
\* to logistics; a parcel without any number is never taken for another one.
NothingVanishes ==
    /\ Answered /\ pc = "done" /\ fetch["jiyun"] = "done"
    /\ IsDefault(plan.intent)
    => \A o \in rows \cup got :
          \/ o \in Listed
          \/ o.source = "daigou" /\ o.code > DaigouPurchaseMaxStatus
          \/ \E p \in Listed : SameParcel(o, p)

\* The lists and the estimates read the codes alike, but for one: of an active
\* list exactly the parcels that await their pickup under code 7, which the
\* filter keeps with every other of that endpoint, are told to have been
\* delivered; none of a completed list is told to be days away.
FiltersAgreeWithEstimates ==
    Answered => \A o \in Listed :
        /\ plan.intent.filter \in {"active", "pending_arrival"} =>
               (EstimateETA(o) = 0 <=> o.source = "unpicked" /\ o.code = 7)
        /\ plan.intent.filter = "completed" => EstimateETA(o) \in {0, NoETA}

\* The concurrent reads show as one: an answer is what the request, Sahiy's
\* rows and the requests that failed determine.
Promise == INSTANCE OrderAnswers WITH
    failed <- IF pc = "done" THEN failed ELSE {}
KeepsItsPromise == Promise!Spec

\* "'show my cancelled orders' wants daigou status 10/11".
CancelledOrdersAreListed ==
    /\ Answered /\ failed = {}
    /\ plan.intent.filter = "cancelled"
    /\ \E r \in sahiy.rows : r.source = "daigou" /\ r.code \in {10, 11}
    => \E o \in Listed : o.code \in {10, 11}

=============================================================================
