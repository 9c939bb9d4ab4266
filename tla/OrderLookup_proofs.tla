------------------------- MODULE OrderLookup_proofs --------------------------
(***************************************************************************)
(* A lookup of orders, with its requests one after the other and four at a *)
(* time, answers as OrderAnswers says it would in one step: for every set  *)
(* of requests, whatever Sahiy holds, and whichever requests fail.  The    *)
(* rules that put an answer together are the same on both sides; what is   *)
(* proved first is that they are applied to the same rows, then what they  *)
(* leave of these rows.                                                    *)
(***************************************************************************)
EXTENDS OrderLookup, FiniteSetTheorems, WellFoundedInduction, TLAPS

-----------------------------------------------------------------------------
(* The two modules share their rules                                       *)

LEMMA SameCardinality == ASSUME NEW list PROVE Promise!Cardinality(list) = Cardinality(list)
  BY DEF Promise!Cardinality, Cardinality

LEMMA SameUnclaimed ==
    ASSUME NEW list PROVE Promise!KeepUnclaimed(list) = KeepUnclaimed(list)
  BY DEF Promise!KeepUnclaimed, KeepUnclaimed, Promise!ComesBefore, ComesBefore,
     Promise!DedupePriority, DedupePriority, Promise!SameParcel, SameParcel,
     Promise!TrackKeys, TrackKeys, Promise!NormalizeTrackKey, NormalizeTrackKey

LEMMA SameRecount ==
    ASSUME NEW snap, NEW list PROVE Promise!Recount(snap, list) = Recount(snap, list)
  BY SameCardinality DEF Promise!Recount, Recount, Promise!Of, Of

LEMMA SameMatch ==
    ASSUME NEW o, NEW filter PROVE Promise!MatchesFilter(o, filter) = MatchesFilter(o, filter)
  BY DEF Promise!MatchesFilter, MatchesFilter, Promise!IsUnpickedDashboard, IsUnpickedDashboard

LEMMA SameDeduplicate ==
    ASSUME NEW snap, NEW intent
    PROVE  Promise!Deduplicate(snap, intent) = Deduplicate(snap, intent)
  BY SameUnclaimed, SameRecount
  DEF Promise!Deduplicate, Deduplicate, Promise!ShouldChain, ShouldChain,
      Promise!KeepPurchasePhase, KeepPurchasePhase, Promise!Sources, Sources,
      Promise!DaigouPurchaseMaxStatus, DaigouPurchaseMaxStatus

LEMMA SameApply ==
    ASSUME NEW snap, NEW intent
    PROVE  Promise!ApplyListIntent(snap, intent) = ApplyListIntent(snap, intent)
  BY SameMatch, SameRecount
  DEF Promise!ApplyListIntent, ApplyListIntent, Promise!WantsSource, WantsSource,
      Promise!ScopeDescription, ScopeDescription, Promise!NoScope, NoScope,
      Promise!Sources, Sources

LEMMA SameListAnswer ==
    ASSUME NEW user, NEW intent, NEW list, NEW n
    PROVE  Promise!ListAnswer(user, intent, list, n) = ListAnswer(user, intent, list, n)
  BY SameDeduplicate, SameApply
  DEF Promise!ListAnswer, ListAnswer, Promise!NewCustomerSnapshot, NewCustomerSnapshot,
      Promise!NoScope, NoScope, Promise!Of, Of

LEMMA SameRowsOf ==
    ASSUME NEW world, NEW s PROVE Promise!RowsOf(world, s) = RowsOf(world, s)
  BY DEF Promise!RowsOf, RowsOf, Promise!MapRow, MapRow, Promise!Of, Of,
     Promise!NewPricing, NewPricing

LEMMA SamePages ==
    ASSUME NEW list, NEW n, NEW number
    PROVE  /\ Promise!FirstPage(list) = FirstPage(list)
           /\ Promise!Page(list, n) = Page(list, n)
           /\ Promise!Wanted(list, number) = Wanted(list, number)
           /\ Promise!First(list) = First(list)
  BY SameCardinality
  DEF Promise!FirstPage, FirstPage, Promise!Page, Page, Promise!Place, Place,
      Promise!Wanted, Wanted, Promise!First, First, Promise!Foremost, Foremost

LEMMA SameTotal ==
    ASSUME NEW world, NEW list PROVE Promise!DaigouTotal(world, list) = DaigouTotal(world, list)
  BY SameCardinality, SamePages DEF Promise!DaigouTotal, DaigouTotal

LEMMA SameIntent ==
    ASSUME NEW m PROVE Promise!ParseListIntent(m) = ParseListIntent(m)
  BY DEF Promise!ParseListIntent, ParseListIntent, Promise!RowFilterOf, RowFilterOf,
     Promise!NamedSources, NamedSources, Promise!ImpliedSources, ImpliedSources,
     Promise!Says, Says, Promise!Blank, Blank, Promise!Sources, Sources,
     Promise!DefaultListIntent, DefaultListIntent,
     Promise!IsPendingArrivalQuestion, IsPendingArrivalQuestion,
     Promise!IsWhereOrdersQuestion, IsWhereOrdersQuestion,
     Promise!IsCompletedOrdersQuestion, IsCompletedOrdersQuestion

-----------------------------------------------------------------------------
(* What the promise says, in the words of OrderLookup                      *)

Searched(lost) == \E i \in 1..5 : sahiy.search = SearchFields[i] /\ SearchFields[i] \notin lost

LEMMA OwnerIs ==
    ASSUME NEW lost
    PROVE  Promise!Owner(lost) =
             IF asked.user # Nobody THEN asked.user
             ELSE IF (IF Names(asked.msg)
                      THEN (sahiy.tracking /\ "owner" \notin lost) \/ Searched(lost)
                      ELSE IF ByPhone(asked) THEN sahiy.phone ELSE Searched(lost))
             THEN Customer ELSE Nobody
  <1>1. DOMAIN SearchFields = 1..5
    BY DEF SearchFields
  <1>2. (Promise!Searchable(sahiy) /\ sahiy.search \notin lost) <=> Searched(lost)
    BY <1>1 DEF Promise!Searchable, Promise!SearchFields, SearchFields, Searched
  <1> QED BY <1>2 DEF Promise!Owner, Promise!Names, Names, Promise!ByPhone, ByPhone

LEMMA IntentIs ==
    Promise!Intent = IF asked.user # Nobody /\ ~Names(asked.msg)
                     THEN ParseListIntent(asked.msg) ELSE DefaultListIntent
  BY SameIntent
  DEF Promise!Intent, Promise!Names, Names, Promise!DefaultListIntent, DefaultListIntent,
      Promise!Sources, Sources

LEMMA TermIs ==
    Promise!Term = IF Names(asked.msg) THEN asked.msg.track
                   ELSE IF asked.user # Nobody \/ ByPhone(asked) THEN NoTrack ELSE FreeText
  BY DEF Promise!Term, Promise!Names, Names, Promise!ByPhone, ByPhone

LEMMA PurchasesAre ==
    ASSUME NEW lost
    PROVE  Promise!Purchases(lost) = IF "custom" \notin lost THEN CustomDaigou(sahiy)
                                     ELSE IF "analytics" \notin lost THEN RowsOf(sahiy, "daigou")
                                     ELSE {}
  BY SameRowsOf DEF Promise!Purchases, Promise!CustomDaigou, CustomDaigou,
     Promise!IntentStatusCodes, IntentStatusCodes

LEMMA FoundAre ==
    /\ Promise!Delivered = Wanted(RowsOf(sahiy, "delivery"), Promise!Term)
    /\ Promise!Purchased = Wanted(UNION {Page(RowsOf(sahiy, "daigou"), n) : n \in 1..FindPages},
                                  Promise!Term)
  BY SameRowsOf, SamePages DEF Promise!Delivered, Promise!Purchased

LEMMA AnswerIs ==
    ASSUME NEW lost
    PROVE  Promise!AnswerTo(lost) =
             IF asked.user = Nobody /\ ~Names(asked.msg) /\ ByPhone(asked) /\ "phone" \in lost
             THEN LookupError
             ELSE IF Promise!Owner(lost) = Nobody \/ "delivery" \in lost
             THEN NewCustomerSnapshot(Promise!Owner(lost), {})
             ELSE IF Promise!Term # NoTrack /\ Promise!Delivered # {}
             THEN NewCustomerSnapshot(Promise!Owner(lost), {First(Promise!Delivered)})
             ELSE IF Promise!Term # NoTrack /\ "find" \notin lost /\ Promise!Purchased # {}
             THEN OneDaigou(Promise!Owner(lost), First(Promise!Purchased))
             ELSE ListAnswer(Promise!Owner(lost), Promise!Intent, Promise!ReadRows(lost),
                             DaigouTotal(sahiy, Promise!Purchases(lost)))
  <1>1. \A user, o : Promise!OneDaigou(user, o) = OneDaigou(user, o)
    BY DEF Promise!OneDaigou, OneDaigou, Promise!NewCustomerSnapshot, NewCustomerSnapshot,
       Promise!NoScope, NoScope
  <1>2. \A user, list : Promise!NewCustomerSnapshot(user, list) = NewCustomerSnapshot(user, list)
    BY DEF Promise!NewCustomerSnapshot, NewCustomerSnapshot, Promise!NoScope, NoScope
  <1> QED BY <1>1, <1>2, SameListAnswer, SameTotal, SamePages
      DEF Promise!AnswerTo, Promise!Names, Names, Promise!ByPhone, ByPhone

\* The number of one parcel is looked for in every list.
LEMMA TermWantsAll == Promise!Term # NoTrack => Promise!Intent = DefaultListIntent
  BY TermIs, IntentIs DEF Names

LEMMA DefaultWantsAll == \A s \in Sources : WantsSource(DefaultListIntent, s)
  BY DEF DefaultListIntent, WantsSource

-----------------------------------------------------------------------------
(* Pages                                                                   *)

LEMMA TimesGrows ==
    ASSUME NEW a \in Nat, NEW b \in Nat, a <= b, NEW size \in Nat
    PROVE  a * size \in Nat /\ b * size \in Nat /\ a * size <= b * size
  <1>1. (b - a) * size >= 0 /\ (b - a) * size = b * size - a * size
    BY SMT
  <1> QED BY <1>1

LEMMA RowsAre ==
    ASSUME NEW world \in Worlds, NEW s \in Sources
    PROVE  /\ IsFiniteSet(RowsOf(world, s))
           /\ \A o \in RowsOf(world, s) : o.source = s /\ o.pos \in Nat
  <1>1. IsFiniteSet(Of(world.rows, s))
    BY WorldsAssumption, FS_Subset DEF Of
  <1> DEFINE map == [r \in Of(world.rows, s) |-> MapRow(r)]
  <1>2. map \in Surjection(Of(world.rows, s), RowsOf(world, s))
    BY DEF Surjection, RowsOf
  <1>3. IsFiniteSet(RowsOf(world, s))
    BY <1>1, <1>2, FS_Surjection
  <1> QED BY <1>3, WorldsAssumption DEF RowsOf, Of, MapRow

\* A row further down a list has the later place.
LEMMA PlaceGrows ==
    ASSUME NEW list, IsFiniteSet(list), \A q \in list : q.pos \in Nat,
           NEW o \in list, NEW p \in list
    PROVE  /\ Place(o, list) \in Nat /\ Place(o, list) <= Cardinality(list)
           /\ Cardinality(list) \in Nat
           /\ o.pos <= p.pos => Place(o, list) <= Place(p, list)
  <1> DEFINE upTo(r) == {q \in list : q.pos <= r.pos}
  <1>1. upTo(o) \in SUBSET list /\ upTo(p) \in SUBSET list
    OBVIOUS
  <1>2. IsFiniteSet(upTo(o)) /\ IsFiniteSet(upTo(p))
        /\ Cardinality(upTo(o)) <= Cardinality(list)
    BY <1>1, FS_Subset
  <1>3. Cardinality(list) \in Nat /\ Cardinality(upTo(o)) \in Nat
    BY <1>2, FS_CardinalityType
  <1>4. ASSUME o.pos <= p.pos PROVE Cardinality(upTo(o)) <= Cardinality(upTo(p))
    <2>1. upTo(o) \in SUBSET upTo(p)
      BY <1>4
    <2> QED BY <1>2, <2>1, FS_Subset
  <1> QED BY <1>2, <1>3, <1>4 DEF Place

\* The rows of all pages that are looked for.
AllWanted(list, number) == Wanted(UNION {Page(list, m) : m \in 1..FindPages}, number)

\* The first page with a row that is looked for has the foremost of all; when
\* the last page has been read without one there is none.
LEMMA PagesFound ==
    ASSUME NEW list, IsFiniteSet(list), \A q \in list : q.pos \in Nat, NEW number,
           NEW n \in 1..FindPages,
           \A m \in 1..(n - 1) : Wanted(Page(list, m), number) = {},
           Wanted(Page(list, n), number) = {} => IsLastPage(list, n)
    PROVE  /\ Wanted(Page(list, n), number) = {} => AllWanted(list, number) = {}
           /\ Wanted(Page(list, n), number) # {} =>
                 /\ AllWanted(list, number) # {}
                 /\ First(AllWanted(list, number)) = First(Wanted(Page(list, n), number))
  <1> USE RowsAssumption
  <1> DEFINE hits == Wanted(Page(list, n), number)
             all  == AllWanted(list, number)
  <1>1. hits \subseteq all /\ all \subseteq list
    BY DEF Wanted, Page, AllWanted
  <1>2. ASSUME NEW o \in all, o \notin hits
        PROVE  Place(o, list) > n * FindPageSize /\ \E m \in 1..FindPages : m > n
    <2>1. PICK m \in 1..FindPages : o \in Page(list, m) /\ o.track = number
      BY <1>2 DEF Wanted, AllWanted
    <2>2. m > n
      BY <1>2, <2>1 DEF Wanted
    <2>3. n * FindPageSize <= (m - 1) * FindPageSize
      BY <2>2, TimesGrows
    <2>4. Place(o, list) >= (m - 1) * FindPageSize + 1
      BY <2>1 DEF Page
    <2>5. Place(o, list) \in Nat /\ n * FindPageSize \in Nat /\ (m - 1) * FindPageSize \in Nat
      BY <1>1, <1>2, <2>2, PlaceGrows, TimesGrows
    <2> QED BY <2>2, <2>3, <2>4, <2>5
  <1>3. ASSUME hits = {}, IsLastPage(list, n) PROVE all = {}
    <2> SUFFICES ASSUME NEW o \in all PROVE FALSE
      OBVIOUS
    <2>1. Place(o, list) > n * FindPageSize /\ n # FindPages
      BY <1>2, <1>3
    <2>2. Cardinality(list) <= n * FindPageSize
      BY <1>3, <2>1 DEF IsLastPage
    <2>3. Place(o, list) <= Cardinality(list) /\ Place(o, list) \in Nat
          /\ Cardinality(list) \in Nat /\ n * FindPageSize \in Nat
      BY <1>1, PlaceGrows, TimesGrows
    <2> QED BY <2>1, <2>2, <2>3
  <1>4. ASSUME NEW h \in hits, NEW o \in all, o \notin hits PROVE h.pos < o.pos
    <2>1. Place(h, list) <= n * FindPageSize /\ Place(o, list) > n * FindPageSize
      BY <1>2, <1>4 DEF Wanted, Page
    <2>2. Place(h, list) \in Nat /\ Place(o, list) \in Nat /\ n * FindPageSize \in Nat
          /\ (o.pos <= h.pos => Place(o, list) <= Place(h, list))
      BY <1>1, PlaceGrows, TimesGrows
    <2>3. h.pos \in Nat /\ o.pos \in Nat
      BY <1>1
    <2> QED BY <2>1, <2>2, <2>3
  <1>5. ASSUME hits # {} PROVE Foremost(all) = Foremost(hits)
    <2>1. PICK h \in hits : TRUE
      BY <1>5
    <2>2. \A o \in all : o.pos \in Nat
      BY <1>1
    <2>3. Foremost(all) \subseteq Foremost(hits)
      BY <1>1, <1>4, <2>1, <2>2 DEF Foremost
    <2>4. Foremost(hits) \subseteq Foremost(all)
      <3> SUFFICES ASSUME NEW o \in Foremost(hits), NEW q \in all PROVE o.pos <= q.pos
        BY <1>1 DEF Foremost
      <3>1. o \in hits
        BY DEF Foremost
      <3> QED BY <1>1, <1>4, <2>2, <3>1 DEF Foremost
    <2> QED BY <2>3, <2>4
  <1> QED BY <1>1, <1>3, <1>5 DEF First

-----------------------------------------------------------------------------
(* The lookup while it is under way                                        *)

Finding == {"find", "pages"}
Listing == {"list", "waiting"}
Planned == {"delivery"} \cup Finding \cup Listing
Fetches == {"custom", "analytics", "jiyun", "dashboard", "unpicked"}

\* A lookup knows what it was asked; it has no answer yet, or the promised one.
Asking ==
    /\ failed \subseteq Calls
    /\ pc \in {"idle", "tracking", "search", "phone", "done"} \cup Planned
    /\ pc # "done" => result = NoResult
    /\ pc = "done" => result = Promise!AnswerTo(failed)
    /\ pc = "idle" => asked = NoRequest
    /\ pc # "idle" => asked \in Requests /\ sahiy \in Worlds
    /\ pc \notin {"waiting", "done"} => got = {} /\ total = 0

\* Whose orders they are has not been found out so far.
Identifying ==
    /\ pc \in {"idle", "tracking"} => step = 1
    /\ pc \in {"idle", "tracking", "phone"} => failed = {}
    /\ pc \in {"tracking", "phone", "search"} => asked.user = Nobody
    /\ pc \in {"idle", "tracking", "phone", "search", "delivery"} => rows = {}
    /\ pc = "tracking" => Names(asked.msg)
    /\ pc = "phone" => ~Names(asked.msg) /\ ByPhone(asked)
    /\ pc = "search" =>
          /\ step \in 1..5
          /\ Names(asked.msg) => ~sahiy.tracking \/ "owner" \in failed
          /\ ~Names(asked.msg) => ~ByPhone(asked)
          /\ failed \subseteq {"owner"} \cup {SearchFields[i] : i \in 1..(step - 1)}
          /\ \A i \in 1..(step - 1) :
                sahiy.search = SearchFields[i] => SearchFields[i] \in failed

\* They are the owner's; the parcel that was named has not been found so far.
Planning ==
    pc \in Planned =>
        /\ plan.user = Promise!Owner(failed) /\ plan.user # Nobody
        /\ plan.wanted = Promise!Term /\ plan.intent = Promise!Intent
        /\ "phone" \notin failed /\ "delivery" \notin failed
        /\ pc # "waiting" => failed \cap Fetches = {}
        /\ pc \in {"delivery"} \cup Finding => "find" \notin failed
        /\ pc \in Finding => plan.wanted # NoTrack
        /\ pc = "delivery" => WantsSource(plan.intent, "delivery")
        /\ pc \in Finding \cup Listing =>
              rows = {o \in RowsOf(sahiy, "delivery") : WantsSource(plan.intent, "delivery")}
        /\ pc \in {"pages"} \cup Listing /\ plan.wanted # NoTrack => Promise!Delivered = {}
        /\ pc = "pages" =>
              /\ step \in 1..FindPages
              /\ \A n \in 1..(step - 1) : Wanted(Page(RowsOf(sahiy, "daigou"), n), plan.wanted) = {}
        /\ pc \in Listing /\ plan.wanted # NoTrack => "find" \in failed \/ Promise!Purchased = {}

\* The rows that are there are those of the requests that are done.
Brought(s) ==
    IF s = "daigou" THEN FirstPage(Promise!Purchases(failed)) ELSE RowsOf(sahiy, s)

Arrived == {s \in Fetched : fetch[s] = "done" /\ s \notin failed}

Fetching ==
    pc = "waiting" =>
        /\ fetch \in [Fetched -> {"off", "running", "fallback", "done"}]
        /\ \A s \in Fetched :
              /\ fetch[s] = "off" <=> ~WantsSource(plan.intent, s)
              /\ s # "daigou" => fetch[s] # "fallback"
              /\ s \in failed => fetch[s] = "done"
        /\ fetch["daigou"] \in {"off", "running"} => "custom" \notin failed
        /\ fetch["daigou"] = "fallback" => "custom" \in failed
        /\ fetch["daigou"] # "done" => "analytics" \notin failed
        /\ got = UNION {Brought(s) : s \in Arrived}
        /\ total = IF fetch["daigou"] = "done"
                   THEN DaigouTotal(sahiy, Promise!Purchases(failed)) ELSE 0

LInv == Asking /\ Identifying /\ Planning /\ Fetching

-----------------------------------------------------------------------------
(* Steps of the promise                                                    *)

\* A step of the promise, or none.
Kept == [Promise!Next]_(Promise!vars)

\* Before there is an answer nothing shows.
LEMMA Quiet ==
    ASSUME UNCHANGED <<sahiy, asked, result>>, pc # "done", pc' # "done"
    PROVE  Kept
  BY DEF Kept, Promise!vars

\* The promise speaks of the question and of Sahiy's rows, which stay.
LEMMA SameQuestion ==
    ASSUME UNCHANGED <<sahiy, asked>>
    PROVE  /\ Promise!Term' = Promise!Term
           /\ Promise!Intent' = Promise!Intent
           /\ Promise!Delivered' = Promise!Delivered
           /\ Promise!Purchased' = Promise!Purchased
           /\ Promise!Owner(failed)' = Promise!Owner(failed')
           /\ Promise!Purchases(failed)' = Promise!Purchases(failed')
           /\ Promise!AnswerTo(failed)' = Promise!AnswerTo(failed')
  <1>1. Promise!Term' = Promise!Term
    BY DEF Promise!Term
  <1>2. Promise!Intent' = Promise!Intent
    BY DEF Promise!Intent
  <1>3. Promise!Delivered' = Promise!Delivered /\ Promise!Purchased' = Promise!Purchased
    BY <1>1 DEF Promise!Delivered, Promise!Purchased
  <1>4. Promise!Owner(failed)' = Promise!Owner(failed')
    BY DEF Promise!Owner
  <1>5. Promise!Purchases(failed)' = Promise!Purchases(failed')
    BY DEF Promise!Purchases
  <1>6. Promise!ReadRows(failed)' = Promise!ReadRows(failed')
    BY <1>2, <1>5 DEF Promise!ReadRows
  <1>7. Promise!AnswerTo(failed)' = Promise!AnswerTo(failed')
    BY <1>1, <1>2, <1>3, <1>4, <1>5, <1>6 DEF Promise!AnswerTo
  <1> QED BY <1>1, <1>2, <1>3, <1>4, <1>5, <1>7

LEMMA AnswerGiven ==
    ASSUME LInv, pc \notin {"idle", "done"}, UNCHANGED <<sahiy, asked>>,
           pc' = "done", failed' \subseteq Calls,
           NEW lost, lost = failed', result' = Promise!AnswerTo(lost)
    PROVE  LInv' /\ Kept
  <1>1. LInv'
    BY SameQuestion DEF LInv, Asking, Identifying, Planning, Fetching, Planned, Finding, Listing
  <1>2. asked # NoRequest /\ result = NoResult
    BY LookupAssumption DEF LInv, Asking
  <1>3. Calls = Promise!Calls
    BY DEF Calls, Promise!Calls, SearchFields, Promise!SearchFields
  <1>4. Promise!Answer
    BY <1>2, <1>3 DEF Promise!Answer
  <1> QED BY <1>1, <1>4 DEF Kept, Promise!Next

\* What a failure is recorded as.
LEMMA CallsAre ==
    /\ {"owner", "phone", "delivery", "find"} \cup Fetches \subseteq Calls
    /\ \A i \in 1..5 : SearchFields[i] \in Calls
    /\ \A i, j \in 1..5 : SearchFields[i] = SearchFields[j] => i = j
    /\ \A i \in 1..5 : SearchFields[i] \notin
          {"owner", "phone", "delivery", "find", "daigou"} \cup Fetches
    /\ "daigou" \notin Calls
    /\ Fetched = {"daigou", "dashboard", "jiyun", "unpicked"}
    /\ Sources = Fetched \cup {"delivery"} /\ "delivery" \notin Fetched
  <1>1. /\ \A i, j \in 1..5 : SearchFields[i] = SearchFields[j] => i = j
        /\ \A i \in 1..5 : SearchFields[i] \notin
              {"owner", "phone", "delivery", "find", "daigou"} \cup Fetches
    BY DEF SearchFields, Fetches
  <1>2. \A i \in 1..5 : SearchFields[i] \in Calls
    BY DEF Calls
  <1>3. "daigou" \notin Calls
    BY <1>1 DEF Calls
  <1>4. {"owner", "phone", "delivery", "find"} \cup Fetches \subseteq Calls
    BY DEF Calls, Fetches
  <1> QED BY <1>1, <1>2, <1>3, <1>4 DEF Fetched, Sources

\* Once the owner is known, later failures do not matter.
LEMMA OwnerKeeps ==
    ASSUME NEW lost, NEW call \in {"delivery", "find"} \cup Fetches
    PROVE  Promise!Owner(lost \cup {call}) = Promise!Owner(lost)
  <1>1. Searched(lost \cup {call}) <=> Searched(lost)
    BY CallsAre DEF Searched, Fetches
  <1>2. "owner" \in lost \cup {call} <=> "owner" \in lost
    BY DEF Fetches
  <1> QED BY <1>1, <1>2, OwnerIs

-----------------------------------------------------------------------------
(* Whose orders                                                            *)

\* The list is built for whom it should be, of what was asked for.
LEMMA BuildStarts ==
    ASSUME LInv, NEW user, NEW wanted, NEW intent, Build(user, wanted, intent),
           pc \in {"idle", "tracking", "search", "phone"},
           UNCHANGED <<rows, got, total, result>>,
           failed' \subseteq Calls,
           failed' \cap ({"phone", "delivery", "find"} \cup Fetches) = {},
           asked' \in Requests, sahiy' \in Worlds,
           user = Promise!Owner(failed)', user # Nobody,
           wanted = Promise!Term', intent = Promise!Intent',
           wanted # NoTrack => intent = DefaultListIntent
    PROVE  LInv' /\ pc' # "done"
  <1>1. /\ plan' = [user |-> user, wanted |-> wanted, intent |-> intent]
        /\ pc' = IF WantsSource(intent, "delivery") THEN "delivery" ELSE "list"
    BY DEF Build, GoTo
  <1>2. pc' = "list" => wanted = NoTrack /\ ~WantsSource(intent, "delivery")
    <2>1. intent = DefaultListIntent => WantsSource(intent, "delivery")
      BY DefaultWantsAll, CallsAre
    <2>2. pc' = "list" => ~WantsSource(intent, "delivery")
      BY <1>1
    <2> QED BY <2>1, <2>2
  <1>3. rows = {} /\ got = {} /\ total = 0 /\ result = NoResult
    BY DEF LInv, Asking, Identifying
  <1>4. Asking'
    BY <1>1, <1>3 DEF Asking, Planned, Listing
  <1>5. Identifying'
    BY <1>1, <1>3 DEF Identifying
  <1>6. Planning'
    BY <1>1, <1>2, <1>3 DEF Planning, Planned, Finding, Listing
  <1>7. Fetching'
    BY <1>1 DEF Fetching
  <1> QED BY <1>1, <1>4, <1>5, <1>6, <1>7 DEF LInv

LEMMA AskStep ==
    ASSUME LInv, NEW req \in Requests, Lookup(req)
    PROVE  LInv' /\ Kept
  <1>1. /\ pc = "idle" /\ asked = NoRequest /\ failed = {} /\ step = 1
        /\ rows = {} /\ got = {} /\ total = 0 /\ result = NoResult
        /\ asked' = req /\ sahiy' \in Worlds
        /\ UNCHANGED <<step, rows, fetch, got, total, failures, result>>
    BY DEF LInv, Asking, Identifying, Lookup
  <1>2. failed' = {} /\ req.user \in {Customer, Nobody}
    BY <1>1, LookupAssumption DEF failures
  <1>3. Promise!Ask /\ pc' # "done" => Kept
    BY DEF Kept, Promise!Next
  <1>4. pc' # "done" => Promise!Ask
    BY <1>1 DEF Promise!Ask
  <1>5. CASE req.user # Nobody
    <2>1. Promise!Owner(failed)' = req.user
      BY <1>1, <1>5 DEF Promise!Owner
    <2>2. CASE Names(req.msg)
      <3>1. Build(req.user, req.msg.track, DefaultListIntent)
        BY <1>5, <2>2 DEF Lookup
      <3>2. Promise!Term' = req.msg.track /\ Promise!Intent' = DefaultListIntent
        BY <1>1, <2>2
        DEF Promise!Term, Promise!Intent, Promise!Names, Names, Promise!DefaultListIntent,
            DefaultListIntent, Promise!Sources, Sources
      <3> QED BY <1>1, <1>2, <1>3, <1>4, <1>5, <2>1, <3>1, <3>2, BuildStarts
    <2>3. CASE ~Names(req.msg)
      <3>1. Build(req.user, NoTrack, ParseListIntent(req.msg))
        BY <1>5, <2>3 DEF Lookup
      <3>2. Promise!Term' = NoTrack /\ Promise!Intent' = ParseListIntent(req.msg)
        BY <1>1, <1>5, <2>3, SameIntent
        DEF Promise!Term, Promise!Intent, Promise!Names, Names
      <3> QED BY <1>1, <1>2, <1>3, <1>4, <1>5, <2>1, <3>1, <3>2, BuildStarts
    <2> QED BY <2>2, <2>3
  <1>6. CASE req.user = Nobody
    <2>1. \/ pc' = "tracking" /\ Names(req.msg)
          \/ pc' = "phone" /\ ~Names(req.msg) /\ ByPhone(req)
          \/ pc' = "search" /\ ~Names(req.msg) /\ ~ByPhone(req)
      BY <1>6 DEF Lookup, GoTo
    <2>2. step' = 1 /\ UNCHANGED <<rows, got, total, result>>
      BY <1>1
    <2>3. Asking'
      BY <1>1, <1>2, <2>1, <2>2 DEF Asking
    <2>4. Identifying'
      BY <1>1, <1>2, <1>6, <2>1, <2>2 DEF Identifying
    <2>5. Planning' /\ Fetching' /\ pc' # "done"
      BY <2>1 DEF Planning, Fetching, Planned, Finding, Listing
    <2> QED BY <1>3, <1>4, <2>3, <2>4, <2>5 DEF LInv
  <1> QED BY <1>5, <1>6

\* An unidentified customer gets an empty answer.
LEMMA NobodyIsAnswered ==
    ASSUME LInv, UNCHANGED <<sahiy, asked>>, pc \in {"search", "phone"},
           failed' \subseteq Calls, pc = "search" \/ "phone" \notin failed',
           Promise!Owner(failed') = Nobody, Reply(NewCustomerSnapshot(Nobody, {}))
    PROVE  LInv' /\ Kept
  <1> DEFINE lost == failed'
  <1>1. ~(asked.user = Nobody /\ ~Names(asked.msg) /\ ByPhone(asked) /\ "phone" \in lost)
    BY DEF LInv, Identifying
  <1> HIDE DEF lost
  <1>2. Promise!Owner(lost) = Nobody
    BY DEF lost
  <1>3. Promise!AnswerTo(lost) = NewCustomerSnapshot(Nobody, {})
    BY <1>1, <1>2, AnswerIs
  <1> QED BY <1>3, AnswerGiven DEF Reply, GoTo, lost

LEMMA TrackStep ==
    ASSUME LInv, LookupByTrack
    PROVE  LInv' /\ Kept
  <1>1. /\ pc = "tracking" /\ asked.user = Nobody /\ Names(asked.msg) /\ failed = {} /\ step = 1
        /\ asked \in Requests /\ sahiy \in Worlds
        /\ rows = {} /\ got = {} /\ total = 0 /\ result = NoResult
        /\ UNCHANGED <<sahiy, asked, step, rows, fetch, got, total, result>>
    BY DEF LInv, Asking, Identifying, LookupByTrack
  <1>2. CASE Works /\ sahiy.tracking /\ Build(Customer, asked.msg.track, DefaultListIntent)
    <2>1. failed' = {}
      BY <1>1, <1>2 DEF Works, failures
    <2>2. Promise!Owner(failed') = Customer /\ Customer # Nobody
      BY <1>1, <1>2, <2>1, OwnerIs, RowsAssumption
    <2>3. Promise!Term = asked.msg.track /\ Promise!Intent = DefaultListIntent
      BY <1>1, TermIs, IntentIs
    <2>4. LInv' /\ pc' # "done"
      BY <1>1, <1>2, <2>1, <2>2, <2>3, SameQuestion, BuildStarts
    <2> QED BY <1>1, <2>4, Quiet
  <1>3. CASE GoTo("search") /\ ((Works /\ ~sahiy.tracking) \/ Fails("owner"))
    <2>1. pc' = "search" /\ failed' \subseteq {"owner"} /\ (~sahiy.tracking \/ "owner" \in failed')
      BY <1>1, <1>3 DEF GoTo, Works, Fails, failures
    <2>2. Asking'
      BY <1>1, <2>1, CallsAre DEF Asking
    <2>3. Identifying'
      BY <1>1, <2>1 DEF Identifying
    <2>4. Planning' /\ Fetching'
      BY <2>1 DEF Planning, Fetching, Planned, Finding, Listing
    <2> QED BY <1>1, <2>1, <2>2, <2>3, <2>4, Quiet DEF LInv
  <1> QED BY <1>2, <1>3 DEF LookupByTrack

\* The search has gone through the fields before step.
LEMMA SearchFacts ==
    ASSUME LInv, pc = "search"
    PROVE  /\ asked.user = Nobody /\ asked \in Requests /\ sahiy \in Worlds
           /\ step \in 1..5 /\ SearchFields[step] \notin failed /\ SearchFields[step] \in Calls
           /\ Names(asked.msg) => ~(sahiy.tracking /\ "owner" \notin failed)
           /\ ~Names(asked.msg) => ~ByPhone(asked)
           /\ rows = {} /\ got = {} /\ total = 0 /\ result = NoResult
           /\ failed \subseteq Calls
           /\ failed \cap ({"phone", "delivery", "find"} \cup Fetches) = {}
  <1>1. /\ asked.user = Nobody /\ asked \in Requests /\ sahiy \in Worlds /\ step \in 1..5
        /\ Names(asked.msg) => ~(sahiy.tracking /\ "owner" \notin failed)
        /\ ~Names(asked.msg) => ~ByPhone(asked)
        /\ rows = {} /\ got = {} /\ total = 0 /\ result = NoResult
        /\ failed \subseteq {"owner"} \cup {SearchFields[j] : j \in 1..(step - 1)}
    BY DEF LInv, Asking, Identifying
  <1>2. SearchFields[step] \notin failed
    <2> SUFFICES ASSUME SearchFields[step] \in failed PROVE FALSE
      OBVIOUS
    <2>1. SearchFields[step] # "owner"
      BY <1>1, CallsAre
    <2>2. PICK j \in 1..(step - 1) : SearchFields[step] = SearchFields[j]
      BY <1>1, <2>1
    <2>3. j \in 1..5 /\ j # step
      BY <1>1
    <2> QED BY <1>1, <2>2, <2>3, CallsAre
  <1>3. failed \subseteq Calls /\ SearchFields[step] \in Calls
    BY <1>1, CallsAre DEF LInv, Asking
  <1>4. failed \cap ({"phone", "delivery", "find"} \cup Fetches) = {}
    <2> SUFFICES ASSUME NEW c \in failed, c \in {"phone", "delivery", "find"} \cup Fetches
                 PROVE  FALSE
      OBVIOUS
    <2>1. c # "owner"
      BY DEF Fetches
    <2>2. PICK j \in 1..(step - 1) : c = SearchFields[j]
      BY <1>1, <2>1
    <2>3. j \in 1..5
      BY <1>1
    <2> QED BY <2>2, <2>3, CallsAre
  <1> QED BY <1>1, <1>2, <1>3, <1>4

LEMMA SearchStep ==
    ASSUME LInv, LookupBySearch
    PROVE  LInv' /\ Kept
  <1>1. pc = "search" /\ UNCHANGED <<sahiy, asked, rows, fetch, got, total>>
    BY DEF LookupBySearch
  <1>2. CASE /\ Works /\ sahiy.search = SearchFields[step]
             /\ Build(Customer, SearchTerm(asked), DefaultListIntent) /\ UNCHANGED <<step, result>>
    <2>1. failed' = failed
      BY <1>2 DEF Works, failures
    <2>2. Searched(failed)
      BY <1>1, <1>2, SearchFacts DEF Searched
    <2>3. Promise!Owner(failed') = Customer /\ Customer # Nobody
      BY <1>1, <2>1, <2>2, SearchFacts, OwnerIs, RowsAssumption
    <2>4. Promise!Term = SearchTerm(asked) /\ Promise!Intent = DefaultListIntent
      BY <1>1, SearchFacts, TermIs, IntentIs DEF SearchTerm
    <2>5. LInv' /\ pc' # "done"
      BY <1>1, <1>2, <2>1, <2>3, <2>4, SearchFacts, SameQuestion, BuildStarts
    <2> QED BY <1>1, <1>2, <2>5, Quiet
  <1>3. CASE /\ SearchNextField
             /\ \/ Works /\ sahiy.search # SearchFields[step]
                \/ Fails(SearchFields[step])
    <2>1. /\ failed' \subseteq failed \cup {SearchFields[step]} /\ failed \subseteq failed'
          /\ sahiy.search = SearchFields[step] => SearchFields[step] \in failed'
      BY <1>3 DEF Works, Fails, failures
    <2>2. failed' \subseteq Calls /\ "phone" \notin failed'
      BY <1>1, <2>1, SearchFacts, CallsAre
    <2>3. \A i \in 1..step : sahiy.search = SearchFields[i] => SearchFields[i] \in failed'
      <3> SUFFICES ASSUME NEW i \in 1..step, sahiy.search = SearchFields[i]
                   PROVE  SearchFields[i] \in failed'
        OBVIOUS
      <3>1. CASE i = step
        BY <2>1, <3>1
      <3>2. CASE i # step
        <4>1. i \in 1..(step - 1)
          BY <1>1, <3>2, SearchFacts
        <4> QED BY <1>1, <2>1, <4>1 DEF LInv, Identifying
      <3> QED BY <3>1, <3>2
    <2>4. Len(SearchFields) = 5
      BY DEF SearchFields
    <2>5. CASE step < 5
      <3>1. step' = step + 1 /\ pc' = "search" /\ result' = result
        BY <1>1, <1>3, <2>4, <2>5 DEF SearchNextField
      <3>2. step' \in 1..5 /\ step' - 1 = step
        BY <1>1, <2>5, <3>1, SearchFacts
      <3>3. failed' \subseteq {"owner"} \cup {SearchFields[j] : j \in 1..step}
        <4>1. failed \subseteq {"owner"} \cup {SearchFields[j] : j \in 1..(step - 1)}
          BY <1>1 DEF LInv, Identifying
        <4>2. step \in 1..step /\ 1..(step - 1) \subseteq 1..step
          BY <1>1, SearchFacts
        <4> QED BY <2>1, <4>1, <4>2
      <3>4. Names(asked.msg) => ~sahiy.tracking \/ "owner" \in failed'
        BY <1>1, <2>1, SearchFacts
      <3>5. Asking'
        BY <1>1, <2>2, <3>1, SearchFacts DEF Asking
      <3>6. Identifying'
        BY <1>1, <2>3, <3>1, <3>2, <3>3, <3>4, SearchFacts DEF Identifying
      <3>7. Planning' /\ Fetching'
        BY <3>1 DEF Planning, Fetching, Planned, Finding, Listing
      <3> QED BY <1>1, <3>1, <3>5, <3>6, <3>7, Quiet DEF LInv
    <2>6. CASE ~(step < 5)
      <3>1. Reply(NewCustomerSnapshot(Nobody, {}))
        BY <1>3, <2>4, <2>6 DEF SearchNextField
      <3>2. step = 5
        BY <1>1, <2>6, SearchFacts
      <3>3. ~Searched(failed')
        BY <2>3, <3>2 DEF Searched
      <3>4. Names(asked.msg) => ~(sahiy.tracking /\ "owner" \notin failed')
        BY <1>1, <2>1, SearchFacts
      <3>5. Promise!Owner(failed') = Nobody
        BY <1>1, <3>3, <3>4, SearchFacts, OwnerIs
      <3> QED BY <1>1, <2>2, <3>1, <3>5, NobodyIsAnswered
    <2> QED BY <2>5, <2>6
  <1> QED BY <1>2, <1>3 DEF LookupBySearch

LEMMA PhoneStep ==
    ASSUME LInv, LookupByPhone
    PROVE  LInv' /\ Kept
  <1>1. /\ pc = "phone" /\ asked.user = Nobody /\ ~Names(asked.msg) /\ ByPhone(asked)
        /\ failed = {} /\ asked \in Requests /\ sahiy \in Worlds
        /\ UNCHANGED <<sahiy, asked, step, rows, fetch, got, total>>
    BY DEF LInv, Asking, Identifying, LookupByPhone
  <1>2. CASE Fails("phone") /\ Reply(LookupError)
    <2> DEFINE lost == failed'
    <2>1. lost = {"phone"} /\ lost \subseteq Calls
      BY <1>1, <1>2, CallsAre DEF Fails
    <2> HIDE DEF lost
    <2>2. Promise!AnswerTo(lost) = LookupError
      BY <1>1, <2>1, AnswerIs
    <2> QED BY <1>1, <1>2, <2>1, <2>2, AnswerGiven DEF Reply, GoTo, lost
  <1>3. CASE Works /\ ~sahiy.phone /\ Reply(NewCustomerSnapshot(Nobody, {}))
    <2>1. failed' = {}
      BY <1>1, <1>3 DEF Works, failures
    <2>2. Promise!Owner(failed') = Nobody
      BY <1>1, <1>3, OwnerIs
    <2> QED BY <1>1, <1>3, <2>1, <2>2, NobodyIsAnswered
  <1>4. CASE Works /\ sahiy.phone /\ Build(Customer, NoTrack, DefaultListIntent) /\ UNCHANGED result
    <2>1. failed' = {}
      BY <1>1, <1>4 DEF Works, failures
    <2>2. Promise!Owner(failed') = Customer /\ Customer # Nobody
      BY <1>1, <1>4, OwnerIs, RowsAssumption
    <2>3. Promise!Term = NoTrack /\ Promise!Intent = DefaultListIntent
      BY <1>1, TermIs, IntentIs
    <2>4. LInv' /\ pc' # "done"
      BY <1>1, <1>4, <2>1, <2>2, <2>3, SameQuestion, BuildStarts
    <2> QED BY <1>1, <1>4, <2>4, Quiet
  <1> QED BY <1>2, <1>3, <1>4 DEF LookupByPhone

-----------------------------------------------------------------------------
(* The parcel that was named                                               *)

\* What holds while the list is built.
LEMMA PlanFacts ==
    ASSUME LInv, pc \in Planned
    PROVE  /\ plan.user = Promise!Owner(failed) /\ plan.user # Nobody
           /\ plan.wanted = Promise!Term /\ plan.intent = Promise!Intent
           /\ "phone" \notin failed /\ "delivery" \notin failed
           /\ asked \in Requests /\ sahiy \in Worlds /\ failed \subseteq Calls
           /\ pc \notin {"idle", "done"} /\ result = NoResult
  BY DEF LInv, Asking, Planning, Planned, Finding, Listing

LEMMA DeliveryStep ==
    ASSUME LInv, FetchDelivery
    PROVE  LInv' /\ Kept
  <1>1. pc = "delivery" /\ UNCHANGED <<sahiy, asked, step, plan, fetch, got, total>>
    BY DEF FetchDelivery
  <1>2. pc \in Planned
    BY <1>1 DEF Planned
  <1>3. /\ got = {} /\ total = 0 /\ rows = {} /\ WantsSource(plan.intent, "delivery")
        /\ "find" \notin failed /\ failed \cap Fetches = {}
    BY <1>1, <1>2 DEF LInv, Asking, Identifying, Planning
  <1>4. CASE Fails("delivery") /\ Reply(NewCustomerSnapshot(plan.user, {}))
    <2> DEFINE lost == failed'
    <2>1. lost = failed \cup {"delivery"} /\ lost \subseteq Calls /\ "phone" \notin lost
      BY <1>2, <1>4, PlanFacts, CallsAre DEF Fails
    <2> HIDE DEF lost
    <2>2. Promise!Owner(lost) = plan.user
      BY <1>2, <2>1, PlanFacts, OwnerKeeps
    <2>3. Promise!AnswerTo(lost) = NewCustomerSnapshot(plan.user, {})
      BY <2>1, <2>2, AnswerIs
    <2> QED BY <1>1, <1>4, <2>1, <2>3, AnswerGiven DEF Reply, GoTo, lost
  <1>5. CASE /\ Works /\ rows' = RowsOf(sahiy, "delivery") /\ UNCHANGED result
             /\ GoTo(IF plan.wanted = NoTrack THEN "list" ELSE "find")
    <2>1. failed' = failed /\ pc' = IF plan.wanted = NoTrack THEN "list" ELSE "find"
      BY <1>5 DEF Works, failures, GoTo
    <2>2. Asking' /\ Identifying' /\ Fetching'
      BY <1>1, <1>2, <1>3, <1>5, <2>1, PlanFacts
      DEF Asking, Identifying, Fetching, Planned, Finding, Listing
    <2>3. rows' = {o \in RowsOf(sahiy, "delivery") : WantsSource(plan.intent, "delivery")}
      BY <1>3, <1>5
    <2>4. Planning'
      BY <1>1, <1>2, <1>3, <2>1, <2>3, PlanFacts, SameQuestion DEF Planning, Finding, Listing
    <2> QED BY <1>1, <1>5, <2>1, <2>2, <2>4, Quiet DEF LInv
  <1> QED BY <1>4, <1>5 DEF FetchDelivery

LEMMA FindStep ==
    ASSUME LInv, FindRequested
    PROVE  LInv' /\ Kept
  <1>1. pc = "find" /\ UNCHANGED <<sahiy, asked, build, failures>>
    BY DEF FindRequested
  <1>2. pc \in Planned
    BY <1>1 DEF Planned, Finding
  <1>3. /\ got = {} /\ total = 0 /\ plan.wanted # NoTrack
        /\ "find" \notin failed /\ failed \cap Fetches = {}
        /\ rows = {o \in RowsOf(sahiy, "delivery") : WantsSource(plan.intent, "delivery")}
    BY <1>1, <1>2 DEF LInv, Asking, Planning, Finding
  <1>4. rows = RowsOf(sahiy, "delivery")
    BY <1>2, <1>3, PlanFacts, TermWantsAll, DefaultWantsAll, CallsAre
  <1>5. Wanted(rows, plan.wanted) = Promise!Delivered
    BY <1>2, <1>4, PlanFacts, FoundAre
  <1>6. CASE /\ Wanted(rows, plan.wanted) # {}
             /\ Reply(NewCustomerSnapshot(plan.user, {First(Wanted(rows, plan.wanted))}))
    <2> DEFINE lost == failed'
    <2>1. lost = failed
      BY <1>1 DEF failures
    <2> HIDE DEF lost
    <2>2. Promise!AnswerTo(lost) = NewCustomerSnapshot(plan.user, {First(Promise!Delivered)})
      BY <1>2, <1>3, <1>5, <1>6, <2>1, PlanFacts, AnswerIs
    <2> QED BY <1>1, <1>2, <1>5, <1>6, <2>1, <2>2, PlanFacts, AnswerGiven DEF Reply, GoTo, lost
  <1>7. CASE /\ Wanted(rows, plan.wanted) = {}
             /\ GoTo("pages") /\ step' = 1 /\ UNCHANGED result
    <2>1. pc' = "pages" /\ step' = 1 /\ UNCHANGED <<plan, rows, fetch, got, total, failed, result>>
      BY <1>1, <1>7 DEF GoTo, build, failures
    <2>2. Asking' /\ Identifying' /\ Fetching'
      BY <1>1, <1>2, <1>3, <2>1, PlanFacts
      DEF Asking, Identifying, Fetching, Planned, Finding, Listing
    <2>3. 1 \in 1..FindPages /\ 1..(1 - 1) = {}
      BY RowsAssumption
    <2>4. Promise!Delivered = {}
      BY <1>5, <1>7
    <2>5. Planning'
      BY <1>1, <1>2, <1>3, <2>1, <2>3, <2>4, PlanFacts, SameQuestion DEF Planning, Finding, Listing
    <2> QED BY <1>1, <2>1, <2>2, <2>5, Quiet DEF LInv
  <1> QED BY <1>6, <1>7 DEF FindRequested

LEMMA PageStep ==
    ASSUME LInv, FindDaigouPage
    PROVE  LInv' /\ Kept
  <1> DEFINE list == RowsOf(sahiy, "daigou")
             hits == Wanted(Page(list, step), plan.wanted)
             all  == AllWanted(list, plan.wanted)
  <1>1. pc = "pages" /\ UNCHANGED <<sahiy, asked, build>>
    BY DEF FindDaigouPage
  <1>2. pc \in Planned
    BY <1>1 DEF Planned, Finding
  <1>3. /\ got = {} /\ total = 0 /\ plan.wanted # NoTrack /\ step \in 1..FindPages
        /\ "find" \notin failed /\ failed \cap Fetches = {} /\ Promise!Delivered = {}
        /\ rows = {o \in RowsOf(sahiy, "delivery") : WantsSource(plan.intent, "delivery")}
        /\ \A n \in 1..(step - 1) : Wanted(Page(list, n), plan.wanted) = {}
    BY <1>1, <1>2 DEF LInv, Asking, Planning, Finding
  <1>4. all = Promise!Purchased
    BY <1>2, PlanFacts, FoundAre DEF AllWanted
  <1>5. (hits = {} => IsLastPage(list, step)) =>
           /\ hits = {} => all = {}
           /\ hits # {} => all # {} /\ First(all) = First(hits)
    <2>1. IsFiniteSet(list) /\ \A o \in list : o.pos \in Nat
      BY <1>2, PlanFacts, RowsAre, CallsAre
    <2> HIDE DEF list
    <2>2. \A n \in 1..(step - 1) : Wanted(Page(list, n), plan.wanted) = {}
      BY <1>3
    <2>3. step \in 1..FindPages
      BY <1>3
    <2> QED BY <2>1, <2>2, <2>3, PagesFound
  <1> HIDE DEF list, hits, all
  <1>6. CASE Works /\ hits # {} /\ Reply(OneDaigou(plan.user, First(hits)))
    <2> DEFINE lost == failed'
    <2>1. lost = failed
      BY <1>6 DEF Works, failures
    <2> HIDE DEF lost
    <2>2. Promise!AnswerTo(lost) = OneDaigou(plan.user, First(hits))
      BY <1>2, <1>3, <1>4, <1>5, <1>6, <2>1, PlanFacts, AnswerIs
    <2> QED BY <1>1, <1>2, <1>6, <2>1, <2>2, PlanFacts, AnswerGiven DEF Reply, GoTo, lost
  <1>7. CASE /\ GoTo("list") /\ UNCHANGED <<step, result>>
             /\ \/ Works /\ hits = {} /\ IsLastPage(list, step)
                \/ Fails("find")
    <2>1. pc' = "list" /\ UNCHANGED <<plan, rows, fetch, got, total, step, result>>
      BY <1>1, <1>7 DEF GoTo, build
    <2>2. /\ failed' \subseteq failed \cup {"find"} /\ failed' \subseteq Calls
          /\ "find" \in failed' \/ all = {}
      BY <1>2, <1>5, <1>7, PlanFacts, CallsAre DEF Works, Fails, failures
    <2>3. /\ Promise!Owner(failed') = plan.user
          /\ "phone" \notin failed' /\ "delivery" \notin failed' /\ failed' \cap Fetches = {}
      <3>1. failed' = failed \/ failed' = failed \cup {"find"}
        BY <1>7 DEF Works, Fails, failures
      <3>2. Promise!Owner(failed') = plan.user
        BY <1>2, <3>1, PlanFacts, OwnerKeeps
      <3>3. failed' \cap ({"phone", "delivery"} \cup Fetches) = {}
        BY <1>2, <1>3, <3>1, PlanFacts DEF Fetches
      <3> QED BY <3>2, <3>3
    <2>4. Asking' /\ Identifying' /\ Fetching'
      BY <1>1, <1>2, <1>3, <2>1, <2>2, PlanFacts
      DEF Asking, Identifying, Fetching, Planned, Finding, Listing
    <2>5. Planning'
      BY <1>1, <1>2, <1>3, <1>4, <2>1, <2>2, <2>3, PlanFacts, SameQuestion
      DEF Planning, Finding, Listing
    <2> QED BY <1>1, <2>1, <2>4, <2>5, Quiet DEF LInv
  <1>8. CASE Works /\ hits = {} /\ ~IsLastPage(list, step) /\ step' = step + 1 /\ UNCHANGED <<pc, result>>
    <2>1. UNCHANGED <<pc, plan, rows, fetch, got, total, failed, result>> /\ step' = step + 1
      BY <1>1, <1>8 DEF Works, build, failures
    <2>2. step' \in 1..FindPages /\ step' - 1 = step
      BY <1>3, <1>8, RowsAssumption DEF IsLastPage
    <2>3. \A n \in 1..step : Wanted(Page(list, n), plan.wanted) = {}
      <3> SUFFICES ASSUME NEW n \in 1..step PROVE Wanted(Page(list, n), plan.wanted) = {}
        OBVIOUS
      <3>1. n = step \/ n \in 1..(step - 1)
        BY <1>3
      <3> QED BY <1>3, <1>8, <3>1 DEF hits, list
    <2>4. Asking' /\ Identifying' /\ Fetching'
      BY <1>1, <1>2, <1>3, <2>1, PlanFacts
      DEF Asking, Identifying, Fetching, Planned, Finding, Listing
    <2>5. Planning'
      BY <1>1, <1>2, <1>3, <2>1, <2>2, <2>3, PlanFacts, SameQuestion
      DEF Planning, Finding, Listing, list
    <2> QED BY <1>1, <2>1, <2>4, <2>5, Quiet DEF LInv
  <1> QED BY <1>6, <1>7, <1>8 DEF FindDaigouPage, hits, list

-----------------------------------------------------------------------------
(* The list                                                                *)

\* What holds while the fetches run.
LEMMA WaitingFacts ==
    ASSUME LInv, pc = "waiting"
    PROVE  /\ fetch \in [Fetched -> {"off", "running", "fallback", "done"}]
           /\ \A s \in Fetched :
                 /\ fetch[s] = "off" <=> ~WantsSource(plan.intent, s)
                 /\ s # "daigou" => fetch[s] # "fallback"
                 /\ s \in failed => fetch[s] = "done"
           /\ fetch["daigou"] \in {"off", "running"} => "custom" \notin failed
           /\ fetch["daigou"] = "fallback" => "custom" \in failed
           /\ fetch["daigou"] # "done" => "analytics" \notin failed
           /\ got = UNION {Brought(s) : s \in Arrived}
           /\ total = IF fetch["daigou"] = "done"
                      THEN DaigouTotal(sahiy, Promise!Purchases(failed)) ELSE 0
           /\ rows = {o \in RowsOf(sahiy, "delivery") : WantsSource(plan.intent, "delivery")}
           /\ plan.wanted # NoTrack =>
                 Promise!Delivered = {} /\ ("find" \in failed \/ Promise!Purchased = {})
           /\ pc \in Planned
  BY DEF LInv, Fetching, Planning, Planned, Listing

\* A fetch changes nothing but its own state, what it brings and its failure.
LEMMA FetchKeeps ==
    ASSUME LInv, pc = "waiting", UNCHANGED <<sahiy, asked, pc, step, plan, rows, result>>,
           \/ failed' = failed
           \/ \E call \in Fetches : failed' = failed \cup {call},
           Fetching'
    PROVE  LInv' /\ Kept
  <1>1. pc \in Planned /\ pc \in Listing
    BY DEF Planned, Listing
  <1>2. /\ failed' \subseteq Calls /\ Promise!Owner(failed') = Promise!Owner(failed)
        /\ "phone" \notin failed' /\ "delivery" \notin failed' /\ failed \subseteq failed'
    <2>1. CASE failed' = failed
      BY <1>1, <2>1, PlanFacts
    <2>2. ASSUME NEW call \in Fetches, failed' = failed \cup {call}
          PROVE  /\ failed' \subseteq Calls /\ Promise!Owner(failed') = Promise!Owner(failed)
                 /\ "phone" \notin failed' /\ "delivery" \notin failed' /\ failed \subseteq failed'
      <3>1. call \notin {"phone", "delivery"}
        BY DEF Fetches
      <3> QED BY <1>1, <2>2, <3>1, PlanFacts, OwnerKeeps, CallsAre
    <2> QED BY <2>1, <2>2
  <1>3. Asking' /\ Identifying'
    BY <1>1, <1>2, PlanFacts DEF Asking, Identifying
  <1>4. Planning'
    BY <1>1, <1>2, PlanFacts, WaitingFacts, SameQuestion DEF Planning, Finding, Listing
  <1> QED BY <1>3, <1>4, Quiet DEF LInv

LEMMA StartStep ==
    ASSUME LInv, StartFetches
    PROVE  LInv' /\ Kept
  <1>1. /\ pc = "list" /\ pc' = "waiting"
        /\ fetch' = [s \in Fetched |-> IF WantsSource(plan.intent, s) THEN "running" ELSE "off"]
        /\ UNCHANGED <<sahiy, asked, step, plan, rows, got, total, failed, result>>
    BY DEF StartFetches, GoTo, failures
  <1>2. pc \in Planned /\ pc \in Listing
    BY <1>1 DEF Planned, Listing
  <1>3. got = {} /\ total = 0 /\ failed \cap Fetches = {} /\ failed \subseteq Calls
    BY <1>1, <1>2 DEF LInv, Asking, Planning
  <1>4. \A s \in Fetched : s \notin failed
    BY <1>3, CallsAre DEF Fetches
  <1>5. "custom" \notin failed /\ "analytics" \notin failed /\ "daigou" \in Fetched
    BY <1>3, CallsAre DEF Fetches
  <1>6. Arrived' = {}
    BY <1>1 DEF Arrived
  <1>7. Fetching'
    BY <1>1, <1>3, <1>4, <1>5, <1>6 DEF Fetching
  <1>8. Asking' /\ Identifying'
    BY <1>1, <1>2, PlanFacts DEF Asking, Identifying, Planned, Listing
  <1>9. Planning'
    BY <1>1, <1>2, PlanFacts, SameQuestion DEF LInv, Planning, Finding, Listing
  <1> QED BY <1>1, <1>7, <1>8, <1>9, Quiet DEF LInv

LEMMA FetchStep ==
    ASSUME LInv, pc = "waiting", NEW s \in Fetched, Fetch(s)
    PROVE  LInv' /\ Kept
  <1>1. /\ s # "daigou" /\ fetch[s] = "running" /\ fetch' = [fetch EXCEPT ![s] = "done"]
        /\ UNCHANGED <<sahiy, asked, pc, step, plan, rows, total, result>>
    BY DEF Fetch, Done
  <1>2. s \in Fetches /\ s \notin {"custom", "analytics"}
    BY <1>1, CallsAre DEF Fetches
  <1>3. s \notin failed
    BY <1>1, WaitingFacts
  <1>4. failed' = failed \/ failed' = failed \cup {s}
    BY DEF Fetch, Works, Fails, failures
  <1>5. Promise!Purchases(failed') = Promise!Purchases(failed)
    BY <1>2, <1>4, PurchasesAre
  <1>6. \A q \in Fetched : Brought(q)' = Brought(q)
    BY <1>1, <1>5, SameQuestion DEF Brought
  <1>7. fetch'[s] = "done" /\ \A q \in Fetched \ {s} : fetch'[q] = fetch[q]
    BY <1>1, WaitingFacts
  <1>8. got' = UNION {Brought(q) : q \in Arrived'}
    <2>1. CASE Works /\ got' = got \cup RowsOf(sahiy, s)
      <3>1. Arrived' = Arrived \cup {s}
        BY <1>3, <1>7, <2>1 DEF Arrived, Works, failures
      <3>2. Brought(s) = RowsOf(sahiy, s)
        BY <1>1 DEF Brought
      <3> QED BY <2>1, <3>1, <3>2, WaitingFacts
    <2>2. CASE Fails(s) /\ got' = got
      <3>1. Arrived' = Arrived
        BY <1>1, <1>7, <2>2 DEF Arrived, Fails
      <3> QED BY <2>2, <3>1, WaitingFacts
    <2> QED BY <2>1, <2>2 DEF Fetch
  <1>9. got' = UNION {Brought(q) : q \in Arrived}'
    BY <1>6, <1>8 DEF Arrived
  <1>10. /\ "custom" \in failed' <=> "custom" \in failed
         /\ "analytics" \in failed' <=> "analytics" \in failed
         /\ fetch'["daigou"] = fetch["daigou"]
    BY <1>1, <1>2, <1>4, <1>7, CallsAre
  <1>11. Fetching'
    BY <1>1, <1>4, <1>5, <1>7, <1>9, <1>10, WaitingFacts, SameQuestion DEF Fetching
  <1> QED BY <1>1, <1>2, <1>4, <1>11, FetchKeeps

\* The daigou fetch ends with the list of the endpoint that answered.
LEMMA PurchasesArrive ==
    ASSUME LInv, pc = "waiting", fetch["daigou"] \notin {"off", "done"},
           UNCHANGED <<sahiy, asked, pc, step, plan, rows, result>>,
           fetch' = [fetch EXCEPT !["daigou"] = "done"],
           failed' = failed \/ failed' = failed \cup {"analytics"},
           got' = got \cup FirstPage(Promise!Purchases(failed')),
           total' = DaigouTotal(sahiy, Promise!Purchases(failed'))
    PROVE  LInv' /\ Kept
  <1>1. /\ "daigou" \in Fetched /\ "analytics" \in Fetches
        /\ "daigou" \notin failed /\ "daigou" \notin failed' /\ "analytics" \notin Fetched
    BY CallsAre DEF LInv, Asking, Fetches
  <1>2. fetch'["daigou"] = "done" /\ \A q \in Fetched \ {"daigou"} : fetch'[q] = fetch[q]
    BY <1>1, WaitingFacts
  <1>3. Arrived' = Arrived \cup {"daigou"} /\ "daigou" \notin Arrived
    BY <1>1, <1>2 DEF Arrived
  <1>4. \A q \in Fetched \ {"daigou"} : Brought(q)' = Brought(q)
    BY DEF Brought
  <1>5. Brought("daigou")' = FirstPage(Promise!Purchases(failed'))
    BY SameQuestion DEF Brought
  <1>6. Arrived \subseteq Fetched
    BY DEF Arrived
  <1>7. got' = UNION {Brought(q)' : q \in Arrived'}
    BY <1>3, <1>4, <1>5, <1>6, WaitingFacts
  <1>8. got' = UNION {Brought(q) : q \in Arrived}'
    BY <1>7
  <1>9. \A q \in Fetched : q \in failed' <=> q \in failed
    BY <1>1
  <1>10. WantsSource(plan.intent, "daigou")
    BY <1>1, WaitingFacts
  <1>11. \A q \in Fetched : /\ fetch'[q] = "off" <=> ~WantsSource(plan.intent, q)
                            /\ q # "daigou" => fetch'[q] # "fallback"
                            /\ q \in failed' => fetch'[q] = "done"
    <2> SUFFICES ASSUME NEW q \in Fetched
                 PROVE  /\ fetch'[q] = "off" <=> ~WantsSource(plan.intent, q)
                        /\ q # "daigou" => fetch'[q] # "fallback"
                        /\ q \in failed' => fetch'[q] = "done"
      OBVIOUS
    <2>1. CASE q = "daigou"
      BY <1>2, <1>10, <2>1
    <2>2. CASE q # "daigou"
      BY <1>2, <1>9, <2>2, WaitingFacts
    <2> QED BY <2>1, <2>2
  <1>12. fetch' \in [Fetched -> {"off", "running", "fallback", "done"}]
    BY <1>1, WaitingFacts
  <1>13. total' = IF fetch'["daigou"] = "done"
                  THEN DaigouTotal(sahiy, Promise!Purchases(failed))' ELSE 0
    BY <1>2, SameQuestion
  <1>14. Fetching'
    BY <1>2, <1>8, <1>11, <1>12, <1>13 DEF Fetching
  <1> QED BY <1>1, <1>14, FetchKeeps

LEMMA CustomStep ==
    ASSUME LInv, pc = "waiting", FetchCustom
    PROVE  LInv' /\ Kept
  <1>1. fetch["daigou"] = "running" /\ UNCHANGED <<sahiy, asked, pc, step, plan, rows, result>>
    BY DEF FetchCustom
  <1>2. "custom" \notin failed /\ "analytics" \notin failed
    BY <1>1, WaitingFacts
  <1>3. CASE Works /\ TakeDaigou(CustomDaigou(sahiy))
    <2>1. failed' = failed
      BY <1>3 DEF Works, failures
    <2>2. Promise!Purchases(failed') = CustomDaigou(sahiy)
      BY <1>2, <2>1, PurchasesAre
    <2> QED BY <1>1, <1>3, <2>1, <2>2, PurchasesArrive DEF TakeDaigou, Done
  <1>4. CASE Fails("custom") /\ fetch' = [fetch EXCEPT !["daigou"] = "fallback"]
             /\ UNCHANGED <<got, total>>
    <2>1. /\ failed' = failed \cup {"custom"} /\ "custom" \in Fetches
          /\ "daigou" \in Fetched /\ "custom" \notin Fetched
          /\ "daigou" \notin failed
      BY <1>4, CallsAre DEF Fails, Fetches, LInv, Asking
    <2>2. fetch'["daigou"] = "fallback" /\ \A q \in Fetched \ {"daigou"} : fetch'[q] = fetch[q]
      BY <1>4, <2>1, WaitingFacts
    <2>3. \A q \in Fetched : q \in failed' <=> q \in failed
      BY <2>1
    <2>4. Arrived' = Arrived /\ Arrived \subseteq Fetched \ {"daigou"}
      BY <1>1, <2>2, <2>3 DEF Arrived
    <2>5. \A q \in Fetched \ {"daigou"} : Brought(q)' = Brought(q)
      BY <1>1 DEF Brought
    <2>6. got' = UNION {Brought(q)' : q \in Arrived'}
      BY <1>4, <2>4, <2>5, WaitingFacts
    <2>7. got' = UNION {Brought(q) : q \in Arrived}'
      BY <2>6
    <2>8. \A q \in Fetched : /\ fetch'[q] = "off" <=> ~WantsSource(plan.intent, q)
                             /\ q # "daigou" => fetch'[q] # "fallback"
                             /\ q \in failed' => fetch'[q] = "done"
      <3> SUFFICES ASSUME NEW q \in Fetched
                   PROVE  /\ fetch'[q] = "off" <=> ~WantsSource(plan.intent, q)
                          /\ q # "daigou" => fetch'[q] # "fallback"
                          /\ q \in failed' => fetch'[q] = "done"
        OBVIOUS
      <3>1. CASE q = "daigou"
        BY <1>1, <2>1, <2>2, <2>3, <3>1, WaitingFacts
      <3>2. CASE q # "daigou"
        BY <2>2, <2>3, <3>2, WaitingFacts
      <3> QED BY <3>1, <3>2
    <2>9. total' = 0
      BY <1>1, <1>4, WaitingFacts
    <2>10. fetch' \in [Fetched -> {"off", "running", "fallback", "done"}]
      BY <1>4, WaitingFacts
    <2>11. "custom" \in failed' /\ "analytics" \notin failed'
      BY <1>2, <2>1
    <2>12. Fetching'
      <3>1. fetch'["daigou"] # "done" /\ fetch'["daigou"] \notin {"off", "running"}
        BY <2>2
      <3> QED BY <1>1, <2>7, <2>8, <2>9, <2>10, <2>11, <3>1 DEF Fetching
    <2> QED BY <1>1, <2>1, <2>12, FetchKeeps
  <1> QED BY <1>3, <1>4 DEF FetchCustom

LEMMA AnalyticsStep ==
    ASSUME LInv, pc = "waiting", FetchAnalytics
    PROVE  LInv' /\ Kept
  <1>1. /\ fetch["daigou"] = "fallback" /\ UNCHANGED <<sahiy, asked, pc, step, plan, rows, result>>
        /\ "custom" \in failed /\ "analytics" \notin failed
    BY WaitingFacts DEF FetchAnalytics
  <1>2. CASE Works /\ TakeDaigou(RowsOf(sahiy, "daigou"))
    <2>1. failed' = failed
      BY <1>2 DEF Works, failures
    <2>2. Promise!Purchases(failed') = RowsOf(sahiy, "daigou")
      BY <1>1, <2>1, PurchasesAre
    <2> QED BY <1>1, <1>2, <2>1, <2>2, PurchasesArrive DEF TakeDaigou, Done
  <1>3. CASE Fails("analytics") /\ Done("daigou") /\ UNCHANGED <<got, total>>
    <2>1. failed' = failed \cup {"analytics"}
      BY <1>3 DEF Fails
    <2>2. Promise!Purchases(failed') = {}
      BY <1>1, <2>1, PurchasesAre
    <2>3. FirstPage({}) = {} /\ DaigouTotal(sahiy, {}) = 0
      BY FS_EmptySet DEF FirstPage, DaigouTotal
    <2>4. total = 0
      BY <1>1, WaitingFacts
    <2> QED BY <1>1, <1>3, <2>1, <2>2, <2>3, <2>4, PurchasesArrive DEF Done
  <1> QED BY <1>2, <1>3 DEF FetchAnalytics

\* When all fetches are done the rows are those the promise speaks of.
LEMMA RowsRead ==
    ASSUME LInv, pc = "waiting", \A s \in Fetched : fetch[s] \in {"off", "done"},
           NEW lost, lost = failed
    PROVE  /\ rows \cup got = Promise!ReadRows(lost)
           /\ ListAnswer(plan.user, plan.intent, rows \cup got, total) =
              ListAnswer(plan.user, plan.intent, rows \cup got,
                         DaigouTotal(sahiy, Promise!Purchases(lost)))
  <1>1. /\ sahiy \in Worlds /\ plan.intent = Promise!Intent /\ "delivery" \notin failed
        /\ pc \in Planned /\ "daigou" \notin failed
    BY WaitingFacts, PlanFacts, CallsAre
  <1>2. \A o : o \in Promise!ReadRows(lost) <=>
            /\ WantsSource(plan.intent, o.source)
            /\ \/ \E s \in Sources \ (failed \cup {"daigou"}) : o \in RowsOf(sahiy, s)
               \/ o \in FirstPage(Promise!Purchases(failed))
    <2>1. \A o : Promise!WantsSource(Promise!Intent, o.source) <=> WantsSource(plan.intent, o.source)
      BY <1>1 DEF Promise!WantsSource, WantsSource
    <2>2. Promise!Sources = Sources
      BY DEF Promise!Sources, Sources
    <2>3. \A s : Promise!RowsOf(sahiy, s) = RowsOf(sahiy, s)
      BY SameRowsOf
    <2>4. Promise!FirstPage(Promise!Purchases(lost)) = FirstPage(Promise!Purchases(failed))
      <3>1. Promise!Purchases(lost) = Promise!Purchases(failed)
        OBVIOUS
      <3> QED BY <3>1, SamePages
    <2>5. {Promise!RowsOf(sahiy, s) : s \in Promise!Sources \ (lost \cup {"daigou"})}
             = {RowsOf(sahiy, s) : s \in Sources \ (failed \cup {"daigou"})}
      BY <2>2, <2>3
    <2> QED BY <2>1, <2>4, <2>5 DEF Promise!ReadRows
  <1>3. \A s \in Sources : \A o \in RowsOf(sahiy, s) : o.source = s
    BY <1>1, RowsAre
  <1>4. \A o \in FirstPage(Promise!Purchases(failed)) : o.source = "daigou"
    BY <1>3, PurchasesAre, CallsAre DEF FirstPage, CustomDaigou
  <1>5. Arrived = {s \in Fetched : WantsSource(plan.intent, s) /\ s \notin failed}
    BY WaitingFacts DEF Arrived
  <1>6. got = UNION {Brought(s) : s \in Arrived}
        /\ rows = {o \in RowsOf(sahiy, "delivery") : WantsSource(plan.intent, "delivery")}
    BY WaitingFacts
  <1>7. \A o : o \in rows \cup got <=>
            \/ o \in RowsOf(sahiy, "delivery") /\ WantsSource(plan.intent, "delivery")
            \/ \E s \in Arrived : o \in Brought(s)
    BY <1>6
  <1>8. rows \cup got \subseteq Promise!ReadRows(lost)
    <2> SUFFICES ASSUME NEW o \in rows \cup got PROVE o \in Promise!ReadRows(lost)
      OBVIOUS
    <2>1. CASE o \in RowsOf(sahiy, "delivery") /\ WantsSource(plan.intent, "delivery")
      BY <1>1, <1>2, <1>3, <2>1, CallsAre
    <2>2. ASSUME NEW s \in Arrived, o \in Brought(s) PROVE o \in Promise!ReadRows(lost)
      <3>1. CASE s = "daigou"
        BY <1>2, <1>4, <1>5, <2>2, <3>1 DEF Brought
      <3>2. CASE s # "daigou"
        <4>1. o \in RowsOf(sahiy, s) /\ s \in Sources \ (failed \cup {"daigou"})
          BY <1>5, <2>2, <3>2, CallsAre DEF Brought
        <4>2. o.source = s /\ WantsSource(plan.intent, s)
          BY <1>3, <1>5, <4>1
        <4> QED BY <1>2, <4>1, <4>2
      <3> QED BY <3>1, <3>2
    <2> QED BY <1>7, <2>1, <2>2
  <1>9. Promise!ReadRows(lost) \subseteq rows \cup got
    <2> SUFFICES ASSUME NEW o \in Promise!ReadRows(lost) PROVE o \in rows \cup got
      OBVIOUS
    <2>1. WantsSource(plan.intent, o.source)
      BY <1>2
    <2>2. ASSUME NEW s \in Sources \ (failed \cup {"daigou"}), o \in RowsOf(sahiy, s)
          PROVE  o \in rows \cup got
      <3>1. o.source = s
        BY <1>3, <2>2
      <3>2. CASE s = "delivery"
        BY <1>7, <2>1, <2>2, <3>1, <3>2
      <3>3. CASE s # "delivery"
        <4>1. s \in Arrived
          BY <1>5, <2>1, <3>1, <3>3, CallsAre
        <4> QED BY <1>7, <2>2, <4>1 DEF Brought
      <3> QED BY <3>2, <3>3
    <2>3. ASSUME o \in FirstPage(Promise!Purchases(failed)) PROVE o \in rows \cup got
      <3>1. "daigou" \in Arrived
        BY <1>1, <1>4, <1>5, <2>1, <2>3, CallsAre
      <3> QED BY <1>7, <2>3, <3>1 DEF Brought
    <2> QED BY <1>2, <2>2, <2>3
  <1>10. Of(rows \cup got, "daigou") # {} => total = DaigouTotal(sahiy, Promise!Purchases(failed))
    <2> SUFFICES ASSUME NEW o \in rows \cup got, o.source = "daigou"
                 PROVE  total = DaigouTotal(sahiy, Promise!Purchases(failed))
      BY DEF Of
    <2>1. WantsSource(plan.intent, "daigou")
      BY <1>2, <1>8
    <2>2. fetch["daigou"] = "done"
      BY <2>1, WaitingFacts, CallsAre
    <2> QED BY <2>2, WaitingFacts
  <1>11. ListAnswer(plan.user, plan.intent, rows \cup got, total) =
         ListAnswer(plan.user, plan.intent, rows \cup got,
                    DaigouTotal(sahiy, Promise!Purchases(lost)))
    BY <1>10 DEF ListAnswer
  <1> QED BY <1>8, <1>9, <1>11

LEMMA JoinStep ==
    ASSUME LInv, Join
    PROVE  LInv' /\ Kept
  <1>1. /\ pc = "waiting" /\ \A s \in Fetched : fetch[s] \in {"off", "done"}
        /\ Reply(ListAnswer(plan.user, plan.intent, rows \cup got, total))
        /\ UNCHANGED <<sahiy, asked, failed>>
    BY DEF Join, failures
  <1> DEFINE lost == failed'
  <1>2. lost = failed /\ lost \subseteq Calls /\ pc \in Planned
    BY <1>1, WaitingFacts, PlanFacts
  <1> HIDE DEF lost
  <1>3. Promise!AnswerTo(lost) = ListAnswer(plan.user, plan.intent, Promise!ReadRows(lost),
                                            DaigouTotal(sahiy, Promise!Purchases(lost)))
    BY <1>1, <1>2, PlanFacts, WaitingFacts, AnswerIs
  <1>4. Promise!AnswerTo(lost) = ListAnswer(plan.user, plan.intent, rows \cup got, total)
    BY <1>1, <1>2, <1>3, RowsRead
  <1> QED BY <1>1, <1>2, <1>4, AnswerGiven DEF Reply, GoTo, lost

-----------------------------------------------------------------------------
(* All steps                                                               *)

\* Fetches run only while the lookup waits for them: they need no guard of their own.
Resting == pc # "waiting" => \A s \in Fetched : fetch[s] \notin {"running", "fallback"}

IInv == LInv /\ Resting

LEMMA LookupStarts == LookupInit => IInv /\ Promise!Init
  <1> SUFFICES ASSUME LookupInit PROVE IInv /\ Promise!Init
    OBVIOUS
  <1>1. LInv
    BY DEF LookupInit, LInv, Asking, Identifying, Planning, Fetching, Planned, Finding, Listing
  <1>2. Resting
    BY DEF LookupInit, Resting
  <1>3. Promise!Init
    BY DEF LookupInit, Promise!Init, Promise!NoWorld, NoWorld
  <1> QED BY <1>1, <1>2, <1>3 DEF IInv

\* Outside of the waiting nothing touches the fetches.
LEMMA RestingKeeps ==
    ASSUME Resting, pc' = "waiting" \/ (pc # "waiting" /\ fetch' = fetch)
    PROVE  Resting'
  BY DEF Resting

LEMMA LookupKeeps == IInv /\ [LookupNext]_lookupVars => IInv' /\ Kept
  <1> SUFFICES ASSUME IInv, [LookupNext]_lookupVars PROVE IInv' /\ Kept
    OBVIOUS
  <1> USE DEF IInv
  <1>1. ASSUME NEW req \in Requests, Lookup(req) PROVE IInv' /\ Kept
    <2>1. pc = "idle" /\ fetch' = fetch
      BY <1>1 DEF Lookup
    <2> QED BY <1>1, <2>1, AskStep, RestingKeeps
  <1>2. CASE LookupByTrack
    <2>1. pc = "tracking" /\ fetch' = fetch
      BY <1>2 DEF LookupByTrack
    <2> QED BY <1>2, <2>1, TrackStep, RestingKeeps
  <1>3. CASE LookupBySearch
    <2>1. pc = "search" /\ fetch' = fetch
      BY <1>3 DEF LookupBySearch
    <2> QED BY <1>3, <2>1, SearchStep, RestingKeeps
  <1>4. CASE LookupByPhone
    <2>1. pc = "phone" /\ fetch' = fetch
      BY <1>4 DEF LookupByPhone
    <2> QED BY <1>4, <2>1, PhoneStep, RestingKeeps
  <1>5. CASE FetchDelivery
    <2>1. pc = "delivery" /\ fetch' = fetch
      BY <1>5 DEF FetchDelivery
    <2> QED BY <1>5, <2>1, DeliveryStep, RestingKeeps
  <1>6. CASE FindRequested
    <2>1. pc = "find" /\ fetch' = fetch
      BY <1>6 DEF FindRequested, build
    <2> QED BY <1>6, <2>1, FindStep, RestingKeeps
  <1>7. CASE FindDaigouPage
    <2>1. pc = "pages" /\ fetch' = fetch
      BY <1>7 DEF FindDaigouPage, build
    <2> QED BY <1>7, <2>1, PageStep, RestingKeeps
  <1>8. CASE StartFetches
    <2>1. pc' = "waiting"
      BY <1>8 DEF StartFetches, GoTo
    <2> QED BY <1>8, <2>1, StartStep, RestingKeeps
  <1>9. ASSUME NEW s \in Fetched, Fetch(s) PROVE IInv' /\ Kept
    <2>1. pc = "waiting" /\ pc' = pc
      BY <1>9 DEF Fetch, Resting
    <2> QED BY <1>9, <2>1, FetchStep, RestingKeeps
  <1>10. CASE FetchCustom
    <2>1. pc = "waiting" /\ pc' = pc
      BY <1>10, CallsAre DEF FetchCustom, Resting
    <2> QED BY <1>10, <2>1, CustomStep, RestingKeeps
  <1>11. CASE FetchAnalytics
    <2>1. pc = "waiting" /\ pc' = pc
      BY <1>11, CallsAre DEF FetchAnalytics, Resting
    <2> QED BY <1>11, <2>1, AnalyticsStep, RestingKeeps
  <1>12. CASE Join
    <2>1. (\A s \in Fetched : fetch[s] \in {"off", "done"}) /\ fetch' = fetch
      BY <1>12 DEF Join, build
    <2>2. Resting'
      BY <2>1 DEF Resting
    <2> QED BY <1>12, <2>2, JoinStep
  <1>13. CASE UNCHANGED lookupVars
    <2>1. UNCHANGED <<sahiy, asked, pc, step, plan, rows, fetch, got, total, failed, result>>
      BY <1>13 DEF lookupVars, build, failures
    <2>2. Asking' /\ Identifying' /\ Resting'
      BY <2>1, SameQuestion DEF LInv, Asking, Identifying, Resting
    <2>3. Planning'
      BY <2>1, SameQuestion DEF LInv, Planning
    <2>4. Fetching'
      BY <2>1, SameQuestion DEF LInv, Fetching, Arrived, Brought
    <2>5. Kept
      BY <2>1 DEF Kept, Promise!vars
    <2> QED BY <2>2, <2>3, <2>4, <2>5 DEF LInv
  <1> QED BY <1>1, <1>2, <1>3, <1>4, <1>5, <1>6, <1>7, <1>8, <1>9, <1>10, <1>11, <1>12, <1>13
      DEF LookupNext, LookupStep

-----------------------------------------------------------------------------
(* One row of a parcel                                                     *)

\* Rows as the endpoints give them: each at a place of its own in its list.
Placed(list) ==
    /\ IsFiniteSet(list)
    /\ \A o \in list : o.source \in Sources /\ o.pos \in Nat
    /\ \A o, p \in list : o.source = p.source /\ o.pos = p.pos => o = p

\* The rows of such lists stand in a line.
LEMMA LineIsOrdered ==
    ASSUME NEW list, Placed(list), NEW o \in list, NEW p \in list, NEW q \in list
    PROVE  /\ ~ComesBefore(o, o)
           /\ ComesBefore(o, p) /\ ComesBefore(p, q) => ComesBefore(o, q)
           /\ ComesBefore(o, p) \/ ComesBefore(p, o) \/ o = p
  <1>1. DedupePriority[o.source] \in Nat /\ DedupePriority[p.source] \in Nat
        /\ DedupePriority[q.source] \in Nat
    BY DEF Placed, Sources, DedupePriority
  <1>2. DedupePriority[o.source] = DedupePriority[p.source] => o.source = p.source
    BY DEF Placed, Sources, DedupePriority
  <1>3. o.pos \in Nat /\ p.pos \in Nat /\ q.pos \in Nat
    BY DEF Placed
  <1>4. ~ComesBefore(o, o)
    BY <1>1, <1>3 DEF ComesBefore
  <1>5. ComesBefore(o, p) /\ ComesBefore(p, q) => ComesBefore(o, q)
    BY <1>1, <1>3 DEF ComesBefore
  <1>6. ComesBefore(o, p) \/ ComesBefore(p, o) \/ o = p
    BY <1>1, <1>2, <1>3 DEF ComesBefore, Placed
  <1> QED BY <1>4, <1>5, <1>6

\* The last row of a part of the line.
LEMMA LastOfLine ==
    ASSUME NEW list, Placed(list), NEW part, part \subseteq list, part # {}
    PROVE  \E m \in part : \A q \in part : ~ComesBefore(m, q)
  <1> DEFINE after(o) == {q \in part : ComesBefore(o, q)}
             rests == {after(o) : o \in part}
  <1>1. rests \subseteq FiniteSubsetsOf(part) /\ rests # {}
    <2>1. IsFiniteSet(part)
      BY FS_Subset DEF Placed
    <2>2. \A o \in part : after(o) \in SUBSET part /\ IsFiniteSet(after(o))
      BY <2>1, FS_Subset
    <2> QED BY <2>2 DEF FiniteSubsetsOf
  <1>2. PICK least \in rests : \A r \in rests : <<r, least>> \notin StrictSubsetOrdering(part)
    <2>1. IsWellFoundedOn(StrictSubsetOrdering(part), FiniteSubsetsOf(part))
      BY FS_StrictSubsetOrderingWellFounded
    <2> HIDE DEF rests
    <2> QED BY <1>1, <2>1, WFMin
  <1>3. PICK m \in part : least = after(m)
    BY <1>2
  <1>4. ASSUME NEW q \in part, ComesBefore(m, q) PROVE FALSE
    <2>1. after(q) \in rests /\ least \subseteq part
      BY <1>3
    <2>2. after(q) \subseteq least
      BY <1>3, <1>4, LineIsOrdered
    <2>3. q \in least /\ q \notin after(q)
      BY <1>3, <1>4, LineIsOrdered
    <2>4. <<after(q), least>> \in StrictSubsetOrdering(part)
      BY <2>1, <2>2, <2>3 DEF StrictSubsetOrdering
    <2> QED BY <1>2, <2>1, <2>4
  <1> QED BY <1>4

\* What KeepUnclaimed says of the rows it keeps, in terms of themselves.
Claiming(f, list) ==
    f = [o \in list |-> \A p \in list : ComesBefore(p, o) /\ f[p] => ~SameParcel(p, o)]

\* Row after row it is decided which are kept.
LEMMA ClaimingExists ==
    ASSUME NEW list, Placed(list)
    PROVE  \E f : Claiming(f, list)
  <1> DEFINE Starts(part) == \A o \in part, p \in list : ComesBefore(p, o) => p \in part
             bad == {part \in FiniteSubsetsOf(list) : Starts(part) /\ ~\E f : Claiming(f, part)}
  <1> SUFFICES ASSUME bad # {} PROVE FALSE
    <2>1. list \in FiniteSubsetsOf(list) /\ Starts(list)
      BY DEF FiniteSubsetsOf, Placed
    <2> QED BY <2>1
  <1>1. PICK least \in bad : \A part \in bad : <<part, least>> \notin StrictSubsetOrdering(list)
    <2>1. IsWellFoundedOn(StrictSubsetOrdering(list), FiniteSubsetsOf(list))
      BY FS_StrictSubsetOrderingWellFounded
    <2>2. bad \subseteq FiniteSubsetsOf(list)
      OBVIOUS
    <2> HIDE DEF bad
    <2> QED BY <2>1, <2>2, WFMin
  <1>2. least \subseteq list /\ IsFiniteSet(least) /\ Starts(least)
    BY <1>1 DEF FiniteSubsetsOf
  <1>3. least # {}
    <2>1. Claiming([o \in {} |-> TRUE], {})
      BY DEF Claiming
    <2> QED BY <1>1, <2>1
  <1>4. PICK m \in least : \A q \in least : ~ComesBefore(m, q)
    BY <1>2, <1>3, LastOfLine
  <1> DEFINE part == least \ {m}
  <1>5. part \in FiniteSubsetsOf(list) /\ <<part, least>> \in StrictSubsetOrdering(list)
    BY <1>2, <1>4, FS_Subset DEF FiniteSubsetsOf, StrictSubsetOrdering
  <1>6. Starts(part)
    BY <1>2, <1>4
  <1>7. PICK f : Claiming(f, part)
    BY <1>1, <1>5, <1>6
  <1> DEFINE g == [o \in least |-> IF o = m
                                   THEN \A p \in part : ComesBefore(p, m) /\ f[p] => ~SameParcel(p, m)
                                   ELSE f[o]]
  <1>8. Claiming(g, least)
    <2> SUFFICES ASSUME NEW o \in least
                 PROVE  g[o] = \A p \in least : ComesBefore(p, o) /\ g[p] => ~SameParcel(p, o)
      BY DEF Claiming
    <2>1. ~ComesBefore(m, o)
      BY <1>4
    <2>2. \A p \in part : g[p] = f[p]
      OBVIOUS
    <2>3. (\A p \in least : ComesBefore(p, o) /\ g[p] => ~SameParcel(p, o))
            = \A p \in part : ComesBefore(p, o) /\ f[p] => ~SameParcel(p, o)
      BY <2>1, <2>2
    <2>4. CASE o = m
      BY <2>3, <2>4
    <2>5. CASE o # m
      BY <1>7, <2>3, <2>5 DEF Claiming
    <2> QED BY <2>4, <2>5
  <1> QED BY <1>1, <1>8

\* A row is kept if and only if no kept row before it is of the same parcel.
LEMMA KeptRows ==
    ASSUME NEW list, Placed(list)
    PROVE  /\ KeepUnclaimed(list) \subseteq list
           /\ \A o \in list : o \in KeepUnclaimed(list) <=>
                 \A p \in KeepUnclaimed(list) : ComesBefore(p, o) => ~SameParcel(p, o)
  <1> DEFINE kept[o \in list] ==
        \A p \in list : ComesBefore(p, o) /\ kept[p] => ~SameParcel(p, o)
  <1>1. Claiming(kept, list)
    <2>1. kept = CHOOSE f : f = [o \in list |-> \A p \in list : ComesBefore(p, o) /\ f[p]
                                                                  => ~SameParcel(p, o)]
      BY DEF kept
    <2>2. \E f : f = [o \in list |-> \A p \in list : ComesBefore(p, o) /\ f[p]
                                                       => ~SameParcel(p, o)]
      BY ClaimingExists DEF Claiming
    <2> HIDE DEF kept
    <2> QED BY <2>1, <2>2, Zenon DEF Claiming
  <1>2. KeepUnclaimed(list) = {o \in list : kept[o]}
    BY DEF KeepUnclaimed
  <1> HIDE DEF kept
  <1>3. \A o \in list : kept[o] <=> \A p \in list : ComesBefore(p, o) /\ kept[p] => ~SameParcel(p, o)
    BY <1>1 DEF Claiming
  <1> QED BY <1>2, <1>3

\* No two rows that are kept are of the same parcel.
LEMMA KeptOnce ==
    ASSUME NEW list, Placed(list), NEW o \in KeepUnclaimed(list), NEW p \in KeepUnclaimed(list),
           SameParcel(o, p)
    PROVE  o = p
  <1>1. o \in list /\ p \in list /\ SameParcel(p, o)
    BY KeptRows DEF SameParcel
  <1> QED BY <1>1, KeptRows, LineIsOrdered

\* Parts of such lists are such lists.
LEMMA PartsArePlaced ==
    ASSUME NEW list, Placed(list), NEW part, part \subseteq list
    PROVE  Placed(part)
  BY FS_Subset DEF Placed

\* All rows the endpoints have of a customer.
LEMMA OrdersArePlaced == sahiy \in Worlds => Placed(Orders)
  <1> SUFFICES ASSUME sahiy \in Worlds PROVE Placed(Orders)
    OBVIOUS
  <1> DEFINE map == [r \in sahiy.rows |-> MapRow(r)]
  <1>1. \A o : o \in Orders <=> \E r \in sahiy.rows : o = MapRow(r)
    BY WorldsAssumption DEF Orders, RowsOf, Of
  <1>2. \A r \in sahiy.rows : MapRow(r).source = r.source /\ MapRow(r).pos = r.pos
    BY DEF MapRow
  <1>3. map \in Surjection(sahiy.rows, Orders)
    BY <1>1 DEF Surjection
  <1>4. IsFiniteSet(Orders)
    BY <1>3, WorldsAssumption, FS_Surjection
  <1>5. \A o \in Orders : o.source \in Sources /\ o.pos \in Nat
    BY <1>1, <1>2, WorldsAssumption
  <1>6. ASSUME NEW o \in Orders, NEW p \in Orders, o.source = p.source, o.pos = p.pos
        PROVE  o = p
    <2>1. PICK r \in sahiy.rows, q \in sahiy.rows : o = MapRow(r) /\ p = MapRow(q)
      BY <1>1
    <2>2. r = q
      BY <1>2, <1>6, <2>1, WorldsAssumption
    <2> QED BY <2>1, <2>2
  <1> QED BY <1>4, <1>5, <1>6 DEF Placed

\* What a list is made of when it is listed.
Considered(intent, list) == IF ShouldChain(intent) THEN KeepPurchasePhase(list) ELSE list

\* What ListAnswer lists.
LEMMA ListedAre ==
    ASSUME NEW user, NEW intent, NEW list, NEW n
    PROVE  ListAnswer(user, intent, list, n).rows =
             {o \in KeepUnclaimed(Considered(intent, list)) :
                 WantsSource(intent, o.source) /\ MatchesFilter(o, intent.filter)}
  <1> DEFINE snap == [NewCustomerSnapshot(user, list) EXCEPT
                         !.daigouTotal = IF Of(list, "daigou") = {} THEN 0 ELSE n]
             kept == Deduplicate(snap, intent)
  <1>1. \A s, part : DOMAIN s = {"user", "rows", "daigouTotal", "scope"} =>
           /\ Recount(s, part).rows = part
           /\ DOMAIN Recount(s, part) = {"user", "rows", "daigouTotal", "scope"}
    BY DEF Recount
  <1>2. snap.rows = list /\ DOMAIN snap = {"user", "rows", "daigouTotal", "scope"}
    BY DEF NewCustomerSnapshot
  <1>3. /\ kept.rows = KeepUnclaimed(Considered(intent, list))
        /\ DOMAIN kept = {"user", "rows", "daigouTotal", "scope"}
    BY <1>1, <1>2 DEF Deduplicate, Considered
  <1> HIDE DEF kept
  <1>4. ApplyListIntent(kept, intent).rows =
          {o \in kept.rows : WantsSource(intent, o.source) /\ MatchesFilter(o, intent.filter)}
    BY <1>1, <1>3 DEF ApplyListIntent
  <1>5. ListAnswer(user, intent, list, n) = ApplyListIntent(kept, intent)
    BY DEF ListAnswer, kept
  <1> QED BY <1>3, <1>4, <1>5

\* The rows of a list come from the endpoints.
LEMMA ReadRowsAreOrders ==
    ASSUME NEW lost, sahiy \in Worlds PROVE Promise!ReadRows(lost) \subseteq Orders
  <1> SUFFICES ASSUME NEW o \in Promise!ReadRows(lost) PROVE o \in Orders
    OBVIOUS
  <1>1. Promise!Sources = Sources
    BY DEF Promise!Sources, Sources
  <1>2. \/ \E s \in Sources : o \in RowsOf(sahiy, s)
        \/ o \in FirstPage(Promise!Purchases(lost))
    BY <1>1, SameRowsOf, SamePages DEF Promise!ReadRows
  <1>3. ASSUME o \in FirstPage(Promise!Purchases(lost)) PROVE o \in RowsOf(sahiy, "daigou")
    BY <1>3, PurchasesAre DEF FirstPage, CustomDaigou
  <1> QED BY <1>2, <1>3 DEF Orders, Sources

\* Every answer is a list, one row, or none.
LEMMA AnsweredOnce == IInv => ParcelsAreListedOnce
  <1> SUFFICES ASSUME IInv, Answered, NEW o \in Listed, NEW p \in Listed, SameParcel(o, p)
               PROVE  o = p
    BY DEF ParcelsAreListedOnce
  <1>1. pc = "done" /\ sahiy \in Worlds /\ result = Promise!AnswerTo(failed)
    BY DEF IInv, LInv, Asking, Answered
  <1> DEFINE user == Promise!Owner(failed)
  <1>2. \/ result = NewCustomerSnapshot(user, {})
        \/ \E q : result = NewCustomerSnapshot(user, {q})
        \/ \E q : result = OneDaigou(user, q)
        \/ result = ListAnswer(user, Promise!Intent, Promise!ReadRows(failed),
                               DaigouTotal(sahiy, Promise!Purchases(failed)))
    BY <1>1, AnswerIs, Zenon DEF Answered
  <1> HIDE DEF user
  <1>3. CASE result = NewCustomerSnapshot(user, {})
    BY <1>3 DEF NewCustomerSnapshot, Listed
  <1>4. ASSUME NEW q, result = NewCustomerSnapshot(user, {q}) PROVE o = p
    BY <1>4 DEF NewCustomerSnapshot, Listed
  <1>5. ASSUME NEW q, result = OneDaigou(user, q) PROVE o = p
    BY <1>5 DEF OneDaigou, NewCustomerSnapshot, Listed
  <1>6. CASE result = ListAnswer(user, Promise!Intent, Promise!ReadRows(failed),
                                 DaigouTotal(sahiy, Promise!Purchases(failed)))
    <2> DEFINE list == Considered(Promise!Intent, Promise!ReadRows(failed))
    <2>1. list \subseteq Promise!ReadRows(failed)
      BY DEF Considered, KeepPurchasePhase
    <2>2. Placed(list)
      BY <1>1, <2>1, ReadRowsAreOrders, OrdersArePlaced, PartsArePlaced
    <2>3. o \in KeepUnclaimed(list) /\ p \in KeepUnclaimed(list)
      BY <1>6, ListedAre DEF Listed
    <2> HIDE DEF list
    <2> QED BY <2>2, <2>3, KeptOnce
  <1> QED BY <1>2, <1>3, <1>4, <1>5, <1>6

-----------------------------------------------------------------------------
(* How an answer came about                                                *)

\* The list that is asked for is everything, or what the question narrows it
\* to; an answer made of the fetches' rows is the list of these rows.
Remembering ==
    /\ pc \notin Planned \cup {"done"} => plan.intent = DefaultListIntent
    /\ pc = "done" => plan.intent \in {DefaultListIntent, Promise!Intent}
    /\ pc \notin {"waiting", "done"} => fetch["jiyun"] # "done"
    /\ pc = "done" /\ fetch["jiyun"] = "done" =>
          /\ rows \cup got \subseteq Orders
          /\ result = ListAnswer(plan.user, plan.intent, rows \cup got, total)

\* It holds before the first step.
LEMMA RememberingStarts == LookupInit => Remembering
  BY DEF LookupInit, Remembering, NoPlan, Planned, Finding, Listing, Fetched, Sources

\* A step that neither starts the fetches nor joins them.
LEMMA RememberingKeeps ==
    ASSUME IInv, Remembering, pc \notin {"waiting", "done"}, pc' # "waiting", fetch' = fetch,
           pc \in Planned => pc' \in Planned \cup {"done"},
           pc' \notin Planned => plan' = plan,
           pc' = "done" => UNCHANGED <<sahiy, asked>>
    PROVE  Remembering'
  <1>1. pc' \notin Planned \cup {"done"} => plan'.intent = DefaultListIntent
    BY DEF Remembering
  <1>2. ASSUME pc' = "done" PROVE plan'.intent \in {DefaultListIntent, Promise!Intent'}
    <2>1. Promise!Intent' = Promise!Intent /\ plan' = plan
      BY <1>2, SameQuestion DEF Planned, Finding, Listing
    <2> QED BY <2>1, PlanFacts DEF IInv, Remembering
  <1> QED BY <1>1, <1>2 DEF Remembering

\* Every step keeps it.
LEMMA RememberingStays ==
    IInv /\ Remembering /\ [LookupNext]_lookupVars => Remembering'
  <1> SUFFICES ASSUME IInv, Remembering, [LookupNext]_lookupVars PROVE Remembering'
    OBVIOUS
  <1> USE DEF Planned, Finding, Listing
  <1>1. ASSUME NEW req \in Requests, Lookup(req) PROVE Remembering'
    BY <1>1, RememberingKeeps DEF Lookup, Build, GoTo
  <1>2. CASE LookupByTrack
    BY <1>2, RememberingKeeps DEF LookupByTrack, Build, GoTo
  <1>3. CASE LookupBySearch
    BY <1>3, RememberingKeeps DEF LookupBySearch, SearchNextField, Build, GoTo, Reply
  <1>4. CASE LookupByPhone
    BY <1>4, RememberingKeeps DEF LookupByPhone, Build, GoTo, Reply
  <1>5. CASE FetchDelivery
    BY <1>5, RememberingKeeps DEF FetchDelivery, GoTo, Reply
  <1>6. CASE FindRequested
    BY <1>6, RememberingKeeps DEF FindRequested, GoTo, Reply, build
  <1>7. CASE FindDaigouPage
    BY <1>7, RememberingKeeps DEF FindDaigouPage, GoTo, Reply, build
  <1>8. CASE pc' = "waiting"
    BY <1>8 DEF Remembering
  <1>9. CASE StartFetches
    BY <1>8, <1>9 DEF StartFetches, GoTo
  <1>10. ASSUME NEW s \in Fetched, Fetch(s) PROVE Remembering'
    <2>1. pc = "waiting" /\ pc' = pc
      BY <1>10 DEF Fetch, IInv, Resting
    <2> QED BY <1>8, <2>1
  <1>11. CASE FetchCustom \/ FetchAnalytics
    <2>1. pc = "waiting" /\ pc' = pc
      BY <1>11, CallsAre DEF FetchCustom, FetchAnalytics, IInv, Resting
    <2> QED BY <1>8, <2>1
  <1>12. CASE Join
    <2>1. /\ pc = "waiting" /\ pc' = "done" /\ UNCHANGED <<sahiy, asked, plan, rows, got, total>>
          /\ \A s \in Fetched : fetch[s] \in {"off", "done"}
          /\ result' = ListAnswer(plan.user, plan.intent, rows \cup got, total)
      BY <1>12 DEF Join, Reply, GoTo, build
    <2>2. plan.intent = Promise!Intent /\ Promise!Intent' = Promise!Intent /\ sahiy \in Worlds
      BY <2>1, SameQuestion, PlanFacts DEF IInv
    <2>3. rows \cup got \subseteq Orders
      BY <2>1, <2>2, RowsRead, ReadRowsAreOrders DEF IInv
    <2>4. Orders' = Orders
      BY <2>1 DEF Orders
    <2> QED BY <2>1, <2>2, <2>3, <2>4 DEF Remembering
  <1>13. CASE UNCHANGED lookupVars
    <2>1. UNCHANGED <<sahiy, asked, pc, plan, rows, fetch, got, total, result>>
      BY <1>13 DEF lookupVars, build
    <2>2. Promise!Intent' = Promise!Intent /\ Orders' = Orders
      BY <2>1, SameQuestion DEF Orders
    <2> QED BY <2>1, <2>2 DEF Remembering
  <1> QED BY <1>1, <1>2, <1>3, <1>4, <1>5, <1>6, <1>7, <1>9, <1>10, <1>11, <1>12, <1>13
      DEF LookupNext, LookupStep

\* The rows' codes are the endpoints'.
LEMMA OrderCodes == ASSUME sahiy \in Worlds, NEW o \in Orders PROVE o.code \in Int
  <1>1. PICK r \in sahiy.rows : o = MapRow(r)
    BY DEF Orders, RowsOf, Of
  <1>2. o.code = r.code
    BY <1>1 DEF MapRow
  <1> QED BY <1>2, WorldsAssumption

\* Of a list of everything only the purchases that have gone on are taken away.
LEMMA NothingLost == IInv /\ Remembering => NothingVanishes
  <1> SUFFICES ASSUME IInv, Remembering, Answered, pc = "done", fetch["jiyun"] = "done",
                      IsDefault(plan.intent), NEW o \in rows \cup got,
                      o \notin Listed, ~(o.source = "daigou" /\ o.code > DaigouPurchaseMaxStatus)
               PROVE  \E p \in Listed : SameParcel(o, p)
    BY DEF NothingVanishes
  <1>1. /\ rows \cup got \subseteq Orders /\ sahiy \in Worlds
        /\ result = ListAnswer(plan.user, plan.intent, rows \cup got, total)
    BY DEF IInv, LInv, Asking, Remembering
  <1> DEFINE list == Considered(plan.intent, rows \cup got)
  <1>2. list = KeepPurchasePhase(rows \cup got)
    BY DEF Considered, ShouldChain, IsDefault
  <1>3. Placed(list)
    BY <1>1, <1>2, OrdersArePlaced, PartsArePlaced DEF KeepPurchasePhase
  <1>4. o \in list
    <2>1. o.code \in Int
      BY <1>1, OrderCodes
    <2> QED BY <1>2, <2>1 DEF KeepPurchasePhase, DaigouPurchaseMaxStatus
  <1>5. \A p \in list : WantsSource(plan.intent, p.source) /\ MatchesFilter(p, plan.intent.filter)
    BY <1>3 DEF Placed, IsDefault, WantsSource, MatchesFilter
  <1> HIDE DEF list
  <1>6. Listed = KeepUnclaimed(list)
    <2>1. Listed = {p \in KeepUnclaimed(list) :
                      WantsSource(plan.intent, p.source) /\ MatchesFilter(p, plan.intent.filter)}
      BY <1>1, ListedAre DEF Listed, list
    <2>2. KeepUnclaimed(list) \subseteq list
      BY <1>3, KeptRows
    <2> QED BY <1>5, <2>1, <2>2
  <1>7. PICK p \in Listed : SameParcel(p, o)
    BY <1>3, <1>4, <1>6, KeptRows
  <1> QED BY <1>7 DEF SameParcel

-----------------------------------------------------------------------------
(* Codes                                                                   *)

\* The days that are left after each stage (LogisticsDefaultDays summed up).
DaysLeft == <<23, 22, 19, 18, 14, 9, 8, 7, 6, 4, 3, 0>>

LEMMA RemainingDays ==
    ASSUME NEW stage \in 1..12 PROVE EstimateRemainingDays(stage) = DaysLeft[stage]
  <1> DEFINE days[s \in 1..StageDelivered] ==
        IF s = StageDelivered THEN 0 ELSE LogisticsDefaultDays[s] + days[s + 1]
  <1>1. days = [s \in 1..12 |-> IF s = 12 THEN 0 ELSE LogisticsDefaultDays[s] + days[s + 1]]
    <2> DEFINE sums == [s \in 1..12 |-> DaysLeft[s]]
    <2>1. sums = [s \in 1..12 |-> IF s = 12 THEN 0 ELSE LogisticsDefaultDays[s] + sums[s + 1]]
      BY DEF DaysLeft, LogisticsDefaultDays
    <2>2. \E f : f = [s \in 1..12 |-> IF s = 12 THEN 0 ELSE LogisticsDefaultDays[s] + f[s + 1]]
      BY <2>1
    <2>3. days = CHOOSE f : f = [s \in 1..12 |-> IF s = 12 THEN 0
                                                 ELSE LogisticsDefaultDays[s] + f[s + 1]]
      BY DEF days, StageDelivered
    <2> HIDE DEF days
    <2> QED BY <2>2, <2>3, Zenon
  <1>2. EstimateRemainingDays(stage) = IF stage >= 12 THEN 0 ELSE days[IF stage < 1 THEN 1 ELSE stage]
    BY DEF EstimateRemainingDays, StageDelivered
  <1> HIDE DEF days
  <1>3. days[12] = 0
    BY <1>1
  <1>4. days[11] = 3 /\ days[10] = 4 /\ days[9] = 6
    BY <1>1, <1>3 DEF LogisticsDefaultDays
  <1>5. days[8] = 7 /\ days[7] = 8 /\ days[6] = 9
    BY <1>1, <1>4 DEF LogisticsDefaultDays
  <1>6. days[5] = 14 /\ days[4] = 18 /\ days[3] = 19
    BY <1>1, <1>5 DEF LogisticsDefaultDays
  <1>7. days[2] = 22 /\ days[1] = 23
    BY <1>1, <1>6 DEF LogisticsDefaultDays
  <1> QED BY <1>2, <1>3, <1>4, <1>5, <1>6, <1>7 DEF DaysLeft

\* When an order is told to arrive today.
LEMMA ArrivesToday ==
    ASSUME NEW o, o.source \in Sources, o.code \in Int
    PROVE  /\ EstimateETA(o) = 0 <=> \/ o.source \in {"delivery", "unpicked"} /\ o.code = 7
                                     \/ o.source = "jiyun" /\ o.code = 5
           /\ o.source = "dashboard" => EstimateETA(o) = NoETA
  <1> DEFINE stage == ResolveLogisticsStatus(o.source, o.code)
  <1>1. /\ stage \in 0..12
        /\ stage = 12 <=> \/ o.source \in {"delivery", "unpicked"} /\ o.code = 7
                          \/ o.source = "jiyun" /\ o.code = 5
        /\ o.source = "dashboard" => stage = 0
    <2>1. CASE o.source = "daigou"
      <3>1. StagesOf("daigou") = DaigouToLogistics /\ DOMAIN DaigouToLogistics = 0..6
            /\ \A code \in 0..6 : DaigouToLogistics[code] \in 1..4
        BY DEF StagesOf, DaigouToLogistics
      <3> QED BY <2>1, <3>1 DEF ResolveLogisticsStatus, NoStage
    <2>2. CASE o.source = "jiyun"
      <3>1. StagesOf("jiyun") = JiyunToLogistics
        BY DEF StagesOf
      <3> QED BY <2>2, <3>1 DEF ResolveLogisticsStatus, NoStage, JiyunToLogistics
    <2>3. CASE o.source \in {"delivery", "unpicked"}
      <3>1. StagesOf(o.source) = DeliveryToLogistics
        BY <2>3 DEF StagesOf
      <3> QED BY <2>3, <3>1 DEF ResolveLogisticsStatus, NoStage, DeliveryToLogistics
    <2>4. CASE o.source = "dashboard"
      <3>1. StagesOf("dashboard") = <<>>
        BY DEF StagesOf
      <3> QED BY <2>4, <3>1 DEF ResolveLogisticsStatus, NoStage
    <2> QED BY <2>1, <2>2, <2>3, <2>4 DEF Sources
  <1>2. EstimateETA(o) = IF stage = 0 THEN -1 ELSE EstimateRemainingDays(stage)
    BY DEF EstimateETA, NoStage, NoETA
  <1> HIDE DEF stage
  <1>3. CASE stage = 0
    BY <1>1, <1>2, <1>3 DEF NoETA
  <1>4. CASE stage \in 1..12
    <2>1. EstimateETA(o) = DaysLeft[stage]
      BY <1>2, <1>4, RemainingDays
    <2>2. DaysLeft[stage] = 0 <=> stage = 12
      BY <1>4 DEF DaysLeft
    <2> QED BY <1>1, <1>4, <2>1, <2>2
  <1> QED BY <1>1, <1>3, <1>4

\* The rows a filter lets through.
LEMMA FilteredCodes ==
    ASSUME NEW o, o.source \in Sources, o.code \in Int
    PROVE  /\ \A filter \in {"active", "pending_arrival"} : MatchesFilter(o, filter) =>
                 (EstimateETA(o) = 0 <=> o.source = "unpicked" /\ o.code = 7)
           /\ MatchesFilter(o, "completed") /\ (o.source = "daigou" => o.code <= 5) =>
                 EstimateETA(o) \in {0, NoETA}
  <1>1. \A filter \in {"active", "pending_arrival"} : MatchesFilter(o, filter) =>
           /\ o.source = "delivery" => o.code # 7
           /\ o.source = "jiyun" => o.code # 5
    BY DEF MatchesFilter
  <1>2. MatchesFilter(o, "completed") =>
           \/ o.source \in {"delivery", "unpicked"} /\ o.code = 7
           \/ o.source = "daigou" /\ o.code \in {6, 7}
           \/ o.source = "dashboard"
           \/ o.source = "jiyun" /\ o.code = 5
    BY DEF MatchesFilter
  <1> QED BY <1>1, <1>2, ArrivesToday

\* A list that a filter narrows is of the rows the filter lets through.
LEMMA CodesAgree == IInv /\ Remembering => FiltersAgreeWithEstimates
  <1> DEFINE filter == plan.intent.filter
             Narrowing == {"active", "pending_arrival", "completed"}
  <1> SUFFICES ASSUME IInv, Remembering, Answered, NEW o \in Listed, filter \in Narrowing
               PROVE  /\ filter \in {"active", "pending_arrival"} =>
                             (EstimateETA(o) = 0 <=> o.source = "unpicked" /\ o.code = 7)
                      /\ filter = "completed" => EstimateETA(o) \in {0, NoETA}
    BY DEF FiltersAgreeWithEstimates
  <1>1. pc = "done" /\ sahiy \in Worlds /\ result = Promise!AnswerTo(failed)
    BY DEF IInv, LInv, Asking, Answered
  <1>2. plan.intent = Promise!Intent /\ Promise!Intent # DefaultListIntent
    BY <1>1 DEF Remembering, DefaultListIntent
  <1>3. Promise!Term = NoTrack
    BY <1>2, TermWantsAll
  <1> DEFINE list == Considered(plan.intent, Promise!ReadRows(failed))
  <1>4. Listed = {} \/ Listed = {p \in KeepUnclaimed(list) :
                                   WantsSource(plan.intent, p.source) /\ MatchesFilter(p, filter)}
    <2>1. \/ result = LookupError
          \/ result = NewCustomerSnapshot(Promise!Owner(failed), {})
          \/ result = ListAnswer(Promise!Owner(failed), Promise!Intent, Promise!ReadRows(failed),
                                 DaigouTotal(sahiy, Promise!Purchases(failed)))
      BY <1>1, <1>3, AnswerIs
    <2>2. NewCustomerSnapshot(Promise!Owner(failed), {}).rows = {}
      BY DEF NewCustomerSnapshot
    <2> QED BY <1>2, <2>1, <2>2, ListedAre DEF Listed, Answered
  <1>5. list \subseteq Orders /\ Placed(list)
    <2>1. list \subseteq Promise!ReadRows(failed)
      BY DEF Considered, KeepPurchasePhase
    <2>2. list \subseteq Orders
      BY <1>1, <2>1, ReadRowsAreOrders
    <2> HIDE DEF list
    <2> QED BY <1>1, <2>2, OrdersArePlaced, PartsArePlaced
  <1>6. \A p \in list : p.source = "daigou" => p.code <= 5
    BY DEF Considered, ShouldChain, KeepPurchasePhase, DaigouPurchaseMaxStatus
  <1> HIDE DEF list
  <1>7. o \in list /\ MatchesFilter(o, filter)
    <2>1. KeepUnclaimed(list) \subseteq list
      BY <1>5, KeptRows
    <2> QED BY <1>4, <2>1
  <1>8. o.source \in Sources /\ o.code \in Int
    BY <1>1, <1>5, <1>7, OrderCodes DEF Placed
  <1> QED BY <1>6, <1>7, <1>8, FilteredCodes

-----------------------------------------------------------------------------
(* Types                                                                   *)

\* A list that has a row has a foremost one.
LEMMA ForemostExists ==
    ASSUME NEW list, IsFiniteSet(list), \A q \in list : q.pos \in Nat, list # {}
    PROVE  Foremost(list) # {}
  <1> DEFINE upTo(o) == {q \in list : q.pos <= o.pos}
             prefixes == {upTo(o) : o \in list}
  <1>1. prefixes \subseteq FiniteSubsetsOf(list) /\ prefixes # {}
    <2>1. \A o \in list : upTo(o) \in SUBSET list /\ IsFiniteSet(upTo(o))
      BY FS_Subset
    <2> QED BY <2>1 DEF FiniteSubsetsOf
  <1>2. IsWellFoundedOn(StrictSubsetOrdering(list), FiniteSubsetsOf(list))
    BY FS_StrictSubsetOrderingWellFounded
  <1>3. PICK least \in prefixes : \A p \in prefixes : <<p, least>> \notin StrictSubsetOrdering(list)
    <2> HIDE DEF prefixes
    <2> QED BY <1>1, <1>2, WFMin
  <1>4. PICK o \in list : least = upTo(o)
    BY <1>3
  <1>5. \A q \in list : o.pos <= q.pos
    <2> SUFFICES ASSUME NEW q \in list, q.pos < o.pos PROVE FALSE
      OBVIOUS
    <2>1. upTo(q) \in prefixes /\ upTo(q) \subseteq least /\ least \subseteq list
      BY <1>4
    <2>2. o \in least /\ o \notin upTo(q)
      BY <1>4
    <2>3. <<upTo(q), least>> \in StrictSubsetOrdering(list)
      BY <2>1, <2>2 DEF StrictSubsetOrdering
    <2> QED BY <1>3, <2>1, <2>3
  <1> QED BY <1>5 DEF Foremost

\* Answers with an order or without one.
Snapshots == [user : {Customer, Nobody}, rows : SUBSET Orders, daigouTotal : Nat, scope : Scopes]

\* The rows of an endpoint are finitely many of the orders.
LEMMA RowsAreOrders ==
    ASSUME sahiy \in Worlds, NEW s \in Sources, NEW part \in SUBSET RowsOf(sahiy, s)
    PROVE  /\ part \subseteq Orders
           /\ IsFiniteSet(part) /\ Cardinality(part) \in Nat
           /\ part # {} => First(part) \in part
  <1>1. IsFiniteSet(part) /\ \A o \in part : o.pos \in Nat
    BY RowsAre, FS_Subset
  <1>2. part # {} => Foremost(part) # {}
    BY <1>1, ForemostExists
  <1>3. part # {} => First(part) \in part
    BY <1>2 DEF First, Foremost
  <1>4. part \subseteq Orders
    BY DEF Orders
  <1> QED BY <1>1, <1>3, <1>4, FS_CardinalityType

\* There are finitely many orders.
LEMMA OrdersAreFinite == ASSUME sahiy \in Worlds PROVE IsFiniteSet(Orders)
  <1>1. \A s \in Sources : IsFiniteSet(RowsOf(sahiy, s))
    BY RowsAre
  <1>2. Orders = RowsOf(sahiy, "delivery") \cup RowsOf(sahiy, "daigou") \cup RowsOf(sahiy, "dashboard")
                   \cup RowsOf(sahiy, "jiyun") \cup RowsOf(sahiy, "unpicked")
    BY DEF Orders, Sources
  <1>3. /\ IsFiniteSet(RowsOf(sahiy, "delivery")) /\ IsFiniteSet(RowsOf(sahiy, "daigou"))
        /\ IsFiniteSet(RowsOf(sahiy, "dashboard")) /\ IsFiniteSet(RowsOf(sahiy, "jiyun"))
        /\ IsFiniteSet(RowsOf(sahiy, "unpicked"))
    BY <1>1 DEF Sources
  <1> QED BY <1>2, <1>3, FS_Union

\* No order or one order is a snapshot.
LEMMA SnapshotTypes ==
    ASSUME NEW user \in {Customer, Nobody}, NEW part \in SUBSET Orders
    PROVE  /\ NewCustomerSnapshot(user, part) \in Snapshots
           /\ \A o \in part : OneDaigou(user, o) \in Snapshots
  <1>1. NoScope \in Scopes
    BY DEF Scopes
  <1> QED BY <1>1 DEF NewCustomerSnapshot, OneDaigou, Snapshots

\* What a message asks for is an intent.
LEMMA IntentTypes ==
    /\ DefaultListIntent \in Intents
    /\ \A m : ParseListIntent(m) \in Intents
  <1>1. DefaultListIntent \in Intents
    BY DEF DefaultListIntent, Intents, Filters
  <1>2. ASSUME NEW m PROVE ParseListIntent(m) \in Intents
    <2>1. RowFilterOf(m) \in Filters
      BY DEF RowFilterOf, Filters
    <2>2. NamedSources(m, RowFilterOf(m)) \subseteq Sources
      BY DEF NamedSources, Sources
    <2>3. ImpliedSources(RowFilterOf(m)) \subseteq Sources
      BY DEF ImpliedSources, Sources
    <2> DEFINE all == Says(m, "allOrders") /\ RowFilterOf(m) = "none"
    <2>4. all \in BOOLEAN
      OBVIOUS
    <2> HIDE DEF all
    <2> QED BY <1>1, <2>1, <2>2, <2>3, <2>4 DEF ParseListIntent, Intents, all
  <1> QED BY <1>1, <1>2

\* How an intent is described is a scope.
LEMMA ScopeTypes == ASSUME NEW intent \in Intents PROVE ScopeDescription(intent) \in Scopes
  BY DEF ScopeDescription, Scopes, Intents

\* A part of a snapshot's rows, counted again, is a snapshot.
LEMMA RecountTypes ==
    ASSUME NEW snap \in Snapshots, NEW part \in SUBSET snap.rows, IsFiniteSet(Orders)
    PROVE  Recount(snap, part) \in Snapshots /\ Recount(snap, part).rows = part
  <1>1. part \subseteq Orders /\ IsFiniteSet(part)
    BY FS_Subset DEF Snapshots
  <1>2. Cardinality(Of(part, "daigou")) \in Nat
    BY <1>1, FS_Subset, FS_CardinalityType DEF Of
  <1> QED BY <1>1, <1>2 DEF Recount, Snapshots

\* A list that is answered is a snapshot of orders.
LEMMA ListAnswerTypes ==
    ASSUME sahiy \in Worlds, NEW user \in {Customer, Nobody}, NEW intent \in Intents,
           NEW list \in SUBSET Orders, NEW n \in Nat
    PROVE  ListAnswer(user, intent, list, n) \in Snapshots
  <1> DEFINE t    == IF Of(list, "daigou") = {} THEN 0 ELSE n
             snap == [NewCustomerSnapshot(user, list) EXCEPT !.daigouTotal = t]
             kept == Deduplicate(snap, intent)
  <1>1. IsFiniteSet(Orders)
    BY OrdersAreFinite
  <1>2. snap \in Snapshots /\ snap.rows = list
    <2>1. NewCustomerSnapshot(user, list) \in Snapshots /\ NewCustomerSnapshot(user, list).rows = list
      BY SnapshotTypes DEF NewCustomerSnapshot
    <2>2. t \in Nat
      OBVIOUS
    <2> HIDE DEF t
    <2> QED BY <2>1, <2>2 DEF Snapshots
  <1> HIDE DEF snap
  <1>3. KeepUnclaimed(Considered(intent, list)) \subseteq list
    BY DEF KeepUnclaimed, Considered, KeepPurchasePhase
  <1>4. kept = Recount(snap, KeepUnclaimed(Considered(intent, list)))
    BY <1>2 DEF Deduplicate, Considered
  <1>5. kept \in Snapshots
    BY <1>1, <1>2, <1>3, <1>4, RecountTypes
  <1> HIDE DEF kept
  <1> DEFINE part == {o \in kept.rows : WantsSource(intent, o.source) /\ MatchesFilter(o, intent.filter)}
             last == Recount(kept, part)
  <1>6. last \in Snapshots
    <2>1. part \in SUBSET kept.rows
      OBVIOUS
    <2> HIDE DEF part
    <2> QED BY <1>1, <1>5, <2>1, RecountTypes
  <1>7. ListAnswer(user, intent, list, n) = [last EXCEPT !.scope = ScopeDescription(intent)]
    BY DEF ListAnswer, ApplyListIntent, kept, snap
  <1> HIDE DEF last
  <1> QED BY <1>6, <1>7, ScopeTypes DEF Snapshots

\* A page of purchases and their number.
LEMMA TotalTypes ==
    ASSUME sahiy \in Worlds, NEW list \in SUBSET RowsOf(sahiy, "daigou")
    PROVE  DaigouTotal(sahiy, list) \in Nat /\ FirstPage(list) \subseteq Orders
  <1>1. FirstPage(list) \subseteq RowsOf(sahiy, "daigou") /\ "daigou" \in Sources
    BY DEF FirstPage, Sources
  <1> QED BY <1>1, RowsAreOrders DEF DaigouTotal


\* Budgets of failures run down.
LEMMA FaultTypes ==
    ASSUME faults \in 0..MaxFaults, Works \/ \E call : Fails(call)
    PROVE  faults' \in 0..MaxFaults
  BY LookupAssumption DEF Works, Fails, failures

\* What is known of the lookup as such.
Question ==
    /\ sahiy \in Worlds \cup {NoWorld}
    /\ asked \in Requests \cup {NoRequest}
    /\ pc \in {"idle", "tracking", "search", "phone", "delivery", "find", "pages",
               "list", "waiting", "done"}
    /\ failed \subseteq Calls

\* What it has gathered.
Gathered ==
    /\ step \in Nat \ {0}
    /\ plan.user \in {Customer, Nobody} /\ plan.intent \in Intents
    /\ rows \subseteq RowsOf(sahiy, "delivery")
    /\ fetch \in [Fetched -> {"off", "running", "fallback", "done"}]
    /\ got \subseteq Orders
    /\ total \in Nat
    /\ faults \in 0..MaxFaults
    /\ result \in {NoResult, LookupError} \cup Snapshots

\* The two are the type invariant.
LEMMA TypeParts == TypeOK <=> Question /\ Gathered
  BY DEF TypeOK, Question, Gathered, Snapshots

\* A step of a lookup under way.
LEMMA GatheredKeeps ==
    ASSUME Gathered, UNCHANGED sahiy,
           step' \in Nat \ {0},
           plan'.user \in {Customer, Nobody} /\ plan'.intent \in Intents,
           rows' \subseteq RowsOf(sahiy, "delivery"),
           fetch' \in [Fetched -> {"off", "running", "fallback", "done"}],
           got' \subseteq Orders,
           total' \in Nat,
           Works \/ \E call : Fails(call),
           result' \in {NoResult, LookupError} \cup Snapshots
    PROVE  Gathered'
  <1>1. faults' \in 0..MaxFaults
    BY FaultTypes DEF Gathered
  <1>2. Orders' = Orders /\ Snapshots' = Snapshots
    BY DEF Orders, Snapshots
  <1>3. RowsOf(sahiy, "delivery")' = RowsOf(sahiy, "delivery")
    OBVIOUS
  <1> QED BY <1>1, <1>2, <1>3 DEF Gathered

\* Arguments handed on are of their kind.
LEMMA BuildTypes ==
    ASSUME NEW user \in {Customer, Nobody}, NEW wanted, NEW intent \in Intents,
           Build(user, wanted, intent)
    PROVE  plan'.user \in {Customer, Nobody} /\ plan'.intent \in Intents
  BY DEF Build

\* Every step gathers what is of its kind.
LEMMA GatheringKeeps == IInv /\ Gathered /\ LookupNext => Gathered'
  <1> SUFFICES ASSUME IInv, Gathered, LookupNext PROVE Gathered'
    OBVIOUS
  <1>0. pc # "idle" => sahiy \in Worlds /\ asked \in Requests
    BY DEF IInv, LInv, Asking
  <1>1. ASSUME NEW req \in Requests, Lookup(req) PROVE Gathered'
    <2>1. pc = "idle" /\ rows = {} /\ got = {} /\ result = NoResult
      BY <1>1 DEF Lookup, IInv, LInv, Asking, Identifying
    <2>2. /\ UNCHANGED <<step, rows, fetch, got, total, faults, result>>
          /\ plan' = plan \/ \E wanted : \/ Build(req.user, wanted, DefaultListIntent)
                                         \/ Build(req.user, wanted, ParseListIntent(req.msg))
      BY <1>1 DEF Lookup, failures
    <2>3. plan'.user \in {Customer, Nobody} /\ plan'.intent \in Intents
      BY <2>2, LookupAssumption, IntentTypes, BuildTypes DEF Gathered
    <2> QED BY <2>1, <2>2, <2>3 DEF Gathered
  <1>2. CASE LookupByTrack
    <2>1. /\ UNCHANGED <<sahiy, step, rows, fetch, got, total, result>>
          /\ Works \/ \E call : Fails(call)
          /\ plan' = plan \/ Build(Customer, asked.msg.track, DefaultListIntent)
      BY <1>2 DEF LookupByTrack
    <2>2. plan'.user \in {Customer, Nobody} /\ plan'.intent \in Intents
      BY <2>1, IntentTypes, BuildTypes DEF Gathered
    <2> QED BY <2>1, <2>2, GatheredKeeps DEF Gathered
  <1>3. CASE LookupBySearch
    <2>1. /\ UNCHANGED <<sahiy, rows, fetch, got, total>>
          /\ Works \/ \E call : Fails(call)
          /\ plan' = plan \/ Build(Customer, SearchTerm(asked), DefaultListIntent)
          /\ step' = step \/ step' = step + 1
          /\ result' = result \/ result' = NewCustomerSnapshot(Nobody, {})
      BY <1>3 DEF LookupBySearch, SearchNextField, Reply
    <2>2. plan'.user \in {Customer, Nobody} /\ plan'.intent \in Intents
      BY <2>1, IntentTypes, BuildTypes DEF Gathered
    <2>3. step' \in Nat \ {0} /\ result' \in {NoResult, LookupError} \cup Snapshots
      BY <2>1, SnapshotTypes DEF Gathered
    <2> QED BY <2>1, <2>2, <2>3, GatheredKeeps DEF Gathered
  <1>4. CASE LookupByPhone
    <2>1. /\ UNCHANGED <<sahiy, step, rows, fetch, got, total>>
          /\ Works \/ \E call : Fails(call)
          /\ plan' = plan \/ Build(Customer, NoTrack, DefaultListIntent)
          /\ \/ result' = result \/ result' = LookupError
             \/ result' = NewCustomerSnapshot(Nobody, {})
      BY <1>4 DEF LookupByPhone, Reply
    <2>2. plan'.user \in {Customer, Nobody} /\ plan'.intent \in Intents
      BY <2>1, IntentTypes, BuildTypes DEF Gathered
    <2>3. result' \in {NoResult, LookupError} \cup Snapshots
      BY <2>1, SnapshotTypes DEF Gathered
    <2> QED BY <2>1, <2>2, <2>3, GatheredKeeps DEF Gathered
  <1>5. CASE FetchDelivery
    <2>1. /\ UNCHANGED <<sahiy, step, plan, fetch, got, total>>
          /\ Works \/ \E call : Fails(call)
          /\ rows' = rows \/ rows' = RowsOf(sahiy, "delivery")
          /\ result' = result \/ result' = NewCustomerSnapshot(plan.user, {})
      BY <1>5 DEF FetchDelivery, Reply
    <2>2. result' \in {NoResult, LookupError} \cup Snapshots
      BY <2>1, SnapshotTypes DEF Gathered
    <2> QED BY <2>1, <2>2, GatheredKeeps DEF Gathered
  <1>6. CASE FindRequested
    <2> DEFINE hits == Wanted(rows, plan.wanted)
    <2>1. /\ UNCHANGED <<sahiy, plan, rows, fetch, got, total>>
          /\ Works /\ pc = "find"
          /\ step' = step \/ step' = 1
          /\ result' = result \/ (hits # {} /\ result' = NewCustomerSnapshot(plan.user, {First(hits)}))
      BY <1>6 DEF FindRequested, Reply, build, Works
    <2>2. ASSUME hits # {} PROVE First(hits) \in Orders
      <3>1. hits \in SUBSET RowsOf(sahiy, "delivery") /\ "delivery" \in Sources
        BY DEF Wanted, Gathered, Sources
      <3> HIDE DEF hits
      <3> QED BY <1>0, <2>1, <2>2, <3>1, RowsAreOrders
    <2> HIDE DEF hits
    <2>3. result' \in {NoResult, LookupError} \cup Snapshots
      BY <2>1, <2>2, SnapshotTypes DEF Gathered
    <2> QED BY <2>1, <2>3, GatheredKeeps DEF Gathered
  <1>7. CASE FindDaigouPage
    <2> DEFINE hits == Wanted(Page(RowsOf(sahiy, "daigou"), step), plan.wanted)
    <2>1. /\ UNCHANGED <<sahiy, plan, rows, fetch, got, total>>
          /\ Works \/ \E call : Fails(call)
          /\ pc = "pages"
          /\ step' = step \/ step' = step + 1
          /\ result' = result \/ (hits # {} /\ result' = OneDaigou(plan.user, First(hits)))
      BY <1>7 DEF FindDaigouPage, Reply, build
    <2>2. ASSUME hits # {} PROVE First(hits) \in Orders
      <3>1. hits \in SUBSET RowsOf(sahiy, "daigou") /\ "daigou" \in Sources
        BY DEF Wanted, Page, Sources
      <3> HIDE DEF hits
      <3> QED BY <1>0, <2>1, <2>2, <3>1, RowsAreOrders
    <2> HIDE DEF hits
    <2>3. result' \in {NoResult, LookupError} \cup Snapshots
      BY <2>1, <2>2, SnapshotTypes DEF Gathered
    <2> QED BY <2>1, <2>3, GatheredKeeps DEF Gathered
  <1>8. CASE StartFetches
    <2>1. /\ UNCHANGED <<sahiy, step, plan, rows, got, total, result>> /\ Works
          /\ fetch' \in [Fetched -> {"off", "running", "fallback", "done"}]
      BY <1>8 DEF StartFetches, Works
    <2> QED BY <2>1, GatheredKeeps DEF Gathered
  <1>9. ASSUME NEW s \in Fetched, Fetch(s) PROVE Gathered'
    <2>1. /\ UNCHANGED <<sahiy, step, plan, rows, total, result>>
          /\ Works \/ \E call : Fails(call)
          /\ fetch' = [fetch EXCEPT ![s] = "done"]
          /\ got' = got \/ got' = got \cup RowsOf(sahiy, s)
      BY <1>9 DEF Fetch, Done
    <2>2. RowsOf(sahiy, s) \subseteq Orders
      BY DEF Orders, Fetched
    <2> QED BY <2>1, <2>2, GatheredKeeps DEF Gathered
  <1>10. CASE FetchCustom \/ FetchAnalytics
    <2>1. pc = "waiting"
      BY <1>10, CallsAre DEF FetchCustom, FetchAnalytics, IInv, Resting
    <2>2. /\ UNCHANGED <<sahiy, step, plan, rows, result>>
          /\ Works \/ \E call : Fails(call)
          /\ \/ TakeDaigou(CustomDaigou(sahiy)) \/ TakeDaigou(RowsOf(sahiy, "daigou"))
             \/ /\ \E how \in {"fallback", "done"} : fetch' = [fetch EXCEPT !["daigou"] = how]
                /\ UNCHANGED <<got, total>>
      BY <1>10 DEF FetchCustom, FetchAnalytics, Done
    <2>3. CustomDaigou(sahiy) \in SUBSET RowsOf(sahiy, "daigou")
      BY DEF CustomDaigou
    <2>4. ASSUME NEW list \in SUBSET RowsOf(sahiy, "daigou"), TakeDaigou(list)
          PROVE  /\ fetch' = [fetch EXCEPT !["daigou"] = "done"]
                 /\ got' \subseteq Orders /\ total' \in Nat
      BY <1>0, <2>1, <2>4, TotalTypes DEF TakeDaigou, Done, Gathered
    <2>5. got' \subseteq Orders /\ total' \in Nat
      BY <2>2, <2>3, <2>4 DEF Gathered
    <2>6. fetch' \in [Fetched -> {"off", "running", "fallback", "done"}]
      BY <2>2, <2>3, <2>4 DEF Gathered
    <2> QED BY <2>2, <2>5, <2>6, GatheredKeeps DEF Gathered
  <1>11. CASE Join
    <2>1. /\ UNCHANGED <<sahiy, step, plan, rows, fetch, got, total>> /\ Works /\ pc = "waiting"
          /\ result' = ListAnswer(plan.user, plan.intent, rows \cup got, total)
      BY <1>11 DEF Join, Reply, build, Works
    <2>2. rows \cup got \subseteq Orders
      BY DEF Gathered, Orders, Sources
    <2>3. result' \in Snapshots
      BY <1>0, <2>1, <2>2, ListAnswerTypes DEF Gathered
    <2> QED BY <2>1, <2>3, GatheredKeeps DEF Gathered
  <1> QED BY <1>1, <1>2, <1>3, <1>4, <1>5, <1>6, <1>7, <1>8, <1>9, <1>10, <1>11
      DEF LookupNext, LookupStep

\* The kinds are kept from the start ...
LEMMA TypesStart == LookupInit => TypeOK
  <1> SUFFICES ASSUME LookupInit PROVE Question /\ Gathered
    BY TypeParts
  <1>1. Question
    BY DEF LookupInit, Question
  <1>2. Gathered
    BY LookupAssumption, IntentTypes DEF LookupInit, Gathered, NoPlan
  <1> QED BY <1>1, <1>2

\* ... and by every step.
LEMMA TypesKeep == IInv /\ TypeOK /\ [LookupNext]_lookupVars => TypeOK'
  <1>1. ASSUME IInv, TypeOK, LookupNext PROVE TypeOK'
    <2>1. IInv' /\ Gathered'
      BY <1>1, LookupKeeps, GatheringKeeps, TypeParts
    <2>2. pc' # "idle" => asked' \in Requests /\ sahiy' \in Worlds
      BY <2>1 DEF IInv, LInv, Asking
    <2>3. failed' \subseteq Calls /\ pc' \in {"idle", "tracking", "search", "phone", "done"} \cup Planned
      BY <2>1 DEF IInv, LInv, Asking
    <2>4. pc' # "idle"
      <3>1. ASSUME NEW req \in Requests, Lookup(req) PROVE pc' # "idle"
        BY <3>1 DEF Lookup, Build, GoTo
      <3>2. ASSUME NEW s \in Fetched, Fetch(s) PROVE pc' # "idle"
        BY <1>1, <3>2 DEF Fetch, IInv, Resting
      <3>3. CASE LookupByTrack \/ LookupByPhone
        BY <3>3 DEF LookupByTrack, LookupByPhone, Build, GoTo, Reply
      <3>4. CASE LookupBySearch
        BY <3>4 DEF LookupBySearch, SearchNextField, Build, GoTo, Reply
      <3>5. CASE FetchDelivery \/ FindRequested \/ FindDaigouPage
        BY <3>5 DEF FetchDelivery, FindRequested, FindDaigouPage, GoTo, Reply
      <3>6. CASE StartFetches \/ Join
        BY <3>6 DEF StartFetches, Join, GoTo, Reply
      <3>7. CASE FetchCustom \/ FetchAnalytics
        BY <1>1, <3>7, CallsAre DEF FetchCustom, FetchAnalytics, IInv, Resting
      <3> QED BY <1>1, <3>1, <3>2, <3>3, <3>4, <3>5, <3>6, <3>7 DEF LookupNext, LookupStep
    <2>5. Question'
      BY <2>2, <2>3, <2>4 DEF Question, Planned, Finding, Listing
    <2> QED BY <2>1, <2>5 DEF TypeOK, Question, Gathered, Snapshots
  <1>2. ASSUME TypeOK, UNCHANGED lookupVars PROVE TypeOK'
    <2>1. UNCHANGED <<sahiy, asked, pc, step, plan, rows, fetch, got, total, failed, faults, result>>
      BY <1>2 DEF lookupVars, build, failures
    <2>2. Orders' = Orders
      BY <2>1 DEF Orders
    <2> QED BY <1>2, <2>1, <2>2 DEF TypeOK
  <1> QED BY <1>1, <1>2

-----------------------------------------------------------------------------
(* What follows                                                            *)

\* What the promise needs to know of a lookup under way: whose orders, which
\* parcel and which failures, and that the rows at hand are those of the
\* requests that came back (SnapshotBuilder's arguments and its goroutines).
THEOREM LookupInvariance == LookupSpec => []IInv
  <1>1. LookupInit => IInv
    BY LookupStarts
  <1>2. IInv /\ [LookupNext]_lookupVars => IInv'
    BY LookupKeeps
  <1> QED BY <1>1, <1>2, PTL DEF LookupSpec

\* The concurrent reads of buildSnapshotWithIntent show as one: whatever Sahiy
\* holds, whichever requests fail and in whatever order the others come back,
\* the answer is what OrderAnswers makes of the request and the failures.
THEOREM LookupImplements == LookupSpec => KeepsItsPromise
  <1>1. LookupInit => Promise!Init
    BY LookupStarts
  <1>2. IInv /\ [LookupNext]_lookupVars => [Promise!Next]_(Promise!vars)
    BY LookupKeeps DEF Kept
  <1> QED BY <1>1, <1>2, LookupInvariance, PTL
      DEF LookupSpec, KeepsItsPromise, Promise!Spec

\* How an answer came about is known while it is there.
THEOREM AnswersAreRemembered == LookupSpec => [](IInv /\ Remembering)
  <1>1. LookupInit => IInv /\ Remembering
    BY LookupStarts, RememberingStarts
  <1>2. IInv /\ Remembering /\ [LookupNext]_lookupVars => IInv' /\ Remembering'
    BY LookupKeeps, RememberingStays
  <1> QED BY <1>1, <1>2, PTL DEF LookupSpec

\* No two rows of an answer share a number, whatever the endpoints hold
\* (Deduplicate keeps a row only if no row it has kept claims its numbers; two
\* rows that only a dropped one links are both kept).
THEOREM OneRowPerParcel == LookupSpec => []ParcelsAreListedOnce
  BY LookupInvariance, AnsweredOnce, PTL

\* A row that was read and is not listed has a row of its parcel in the list,
\* or is a purchase in logistics (Deduplicate drops nothing else).
THEOREM NothingIsLost == LookupSpec => []NothingVanishes
  BY AnswersAreRemembered, NothingLost, PTL

\* What is listed as completed is not told to be days away, and of what is listed
\* as under way exactly the unpicked rows of code 7 are told to have arrived:
\* MatchesFilter and ResolveLogisticsStatus read every other code alike.
THEOREM CodesReadAlike == LookupSpec => []FiltersAgreeWithEstimates
  BY AnswersAreRemembered, CodesAgree, PTL

\* Everything the lookup keeps is of its kind; an answer's rows are rows the
\* endpoints hold.
THEOREM LookupTypes == LookupSpec => []TypeOK
  BY TypesStart, TypesKeep, LookupInvariance, PTL DEF LookupSpec

-----------------------------------------------------------------------------
(* A lookup runs out                                                       *)

\* Requests that a fetch still has before it: fetchDaigou has a second endpoint.
FetchLeft(s) ==
    CASE fetch[s] = "running" /\ s = "daigou" -> 2
      [] fetch[s] = "running" /\ s # "daigou" -> 1
      [] fetch[s] = "fallback"                -> 1
      [] OTHER                                -> 0

\* With the step that joins them.
FetchesLeft ==
    1 + FetchLeft("daigou") + FetchLeft("dashboard") + FetchLeft("jiyun") + FetchLeft("unpicked")

\* The most steps a lookup still has before it.
LookupLeft ==
    CASE pc = "idle"     -> 16 + FindPages
      [] pc = "tracking" -> 15 + FindPages
      [] pc = "search"   -> 15 + FindPages - step
      [] pc = "phone"    -> 10 + FindPages
      [] pc = "delivery" -> 9 + FindPages
      [] pc = "find"     -> 8 + FindPages
      [] pc = "pages"    -> 8 + FindPages - step
      [] pc = "list"     -> 7
      [] pc = "waiting"  -> FetchesLeft
      [] pc = "done"     -> 0

LookupIsBounded == LookupLeft \in 0..(16 + FindPages)

\* Each step of a lookup, whichever way it goes, is one less.
LookupDescends == LookupLeft' < LookupLeft

\* Each place of a lookup has its number.
LEMMA LookupByPlace ==
    /\ pc = "idle" => LookupLeft = 16 + FindPages
    /\ pc = "tracking" => LookupLeft = 15 + FindPages
    /\ pc = "search" => LookupLeft = 15 + FindPages - step
    /\ pc = "phone" => LookupLeft = 10 + FindPages
    /\ pc = "delivery" => LookupLeft = 9 + FindPages
    /\ pc = "find" => LookupLeft = 8 + FindPages
    /\ pc = "pages" => LookupLeft = 8 + FindPages - step
    /\ pc = "list" => LookupLeft = 7
    /\ pc = "waiting" => LookupLeft = FetchesLeft
    /\ pc = "done" => LookupLeft = 0
  BY DEF LookupLeft

\* The same of the state after a step.
LEMMA LookupByNextPlace ==
    /\ pc' = "idle" => LookupLeft' = 16 + FindPages
    /\ pc' = "tracking" => LookupLeft' = 15 + FindPages
    /\ pc' = "search" => LookupLeft' = 15 + FindPages - step'
    /\ pc' = "phone" => LookupLeft' = 10 + FindPages
    /\ pc' = "delivery" => LookupLeft' = 9 + FindPages
    /\ pc' = "find" => LookupLeft' = 8 + FindPages
    /\ pc' = "pages" => LookupLeft' = 8 + FindPages - step'
    /\ pc' = "list" => LookupLeft' = 7
    /\ pc' = "waiting" => LookupLeft' = FetchesLeft'
    /\ pc' = "done" => LookupLeft' = 0
  BY DEF LookupLeft

\* Four fetches have five requests to make at most.
LEMMA FewFetches ==
    /\ \A s \in Fetched : FetchLeft(s) \in {0, 1, 2} /\ (s # "daigou" => FetchLeft(s) \in {0, 1})
    /\ FetchesLeft \in 1..6
    /\ Fetched = {"daigou", "dashboard", "jiyun", "unpicked"}
  <1>1. \A s \in Fetched : FetchLeft(s) \in {0, 1, 2} /\ (s # "daigou" => FetchLeft(s) \in {0, 1})
    BY DEF FetchLeft
  <1>2. Fetched = {"daigou", "dashboard", "jiyun", "unpicked"}
    BY DEF Fetched, Sources
  <1> QED BY <1>1, <1>2 DEF FetchesLeft

\* A fetch that gets on has one request less, and no other is touched.
LEMMA FetchDescends ==
    ASSUME fetch \in [Fetched -> {"off", "running", "fallback", "done"}],
           NEW s \in Fetched, NEW p \in {"fallback", "done"}, fetch' = [fetch EXCEPT ![s] = p],
           \/ fetch[s] = "running" /\ (p = "fallback" => s = "daigou")
           \/ fetch[s] = "fallback" /\ p = "done"
    PROVE  FetchesLeft' < FetchesLeft
  <1>1. FetchLeft(s)' < FetchLeft(s)
    BY DEF FetchLeft
  <1>2. \A t \in Fetched \ {s} : FetchLeft(t)' = FetchLeft(t)
    BY DEF FetchLeft
  <1>3. \A t \in Fetched : FetchLeft(t) \in {0, 1, 2} /\ FetchLeft(t)' \in {0, 1, 2}
    BY DEF FetchLeft
  <1>4. Fetched = {"daigou", "dashboard", "jiyun", "unpicked"}
    BY FewFetches
  <1> QED BY <1>1, <1>2, <1>3, <1>4 DEF FetchesLeft

\* A lookup that begins to build has the delivery list or the list before it.
LEMMA BuildLeads ==
    ASSUME NEW user, NEW wanted, NEW intent, Build(user, wanted, intent)
    PROVE  LookupLeft' \in {7, 9 + FindPages}
  BY LookupByNextPlace DEF Build, GoTo

LEMMA EveryStepDescends == IInv /\ TypeOK /\ LookupNext => LookupDescends
  <1> SUFFICES ASSUME IInv, TypeOK, LookupNext PROVE LookupLeft' < LookupLeft
    BY DEF LookupDescends
  <1>p. FindPages \in Nat \ {0} /\ step \in Nat \ {0}
    BY RowsAssumption DEF TypeOK
  <1>f. fetch \in [Fetched -> {"off", "running", "fallback", "done"}]
    BY DEF TypeOK
  <1>1. ASSUME NEW req \in Requests, Lookup(req) PROVE LookupLeft' < LookupLeft
    <2>1. pc = "idle" /\ step = 1 /\ step' = step
      BY <1>1 DEF Lookup, IInv, LInv, Identifying
    <2>2. \/ \E user, wanted, intent : Build(user, wanted, intent)
          \/ pc' \in {"tracking", "phone", "search"}
      BY <1>1 DEF Lookup, GoTo
    <2> QED BY <1>p, <2>1, <2>2, BuildLeads, LookupByPlace, LookupByNextPlace
  <1>2. CASE LookupByTrack
    <2>1. pc = "tracking" /\ step = 1 /\ step' = step
      BY <1>2 DEF LookupByTrack, IInv, LInv, Identifying
    <2>2. (\E user, wanted, intent : Build(user, wanted, intent)) \/ pc' = "search"
      BY <1>2 DEF LookupByTrack, GoTo
    <2> QED BY <1>p, <2>1, <2>2, BuildLeads, LookupByPlace, LookupByNextPlace
  <1>3. CASE LookupBySearch
    <2>1. pc = "search" /\ step \in 1..5
      BY <1>3, SearchFacts DEF LookupBySearch, IInv
    <2>2. \/ \E user, wanted, intent : Build(user, wanted, intent)
          \/ pc' = pc /\ step' = step + 1
          \/ pc' = "done"
      BY <1>3 DEF LookupBySearch, SearchNextField, Reply, GoTo
    <2> QED BY <1>p, <2>1, <2>2, BuildLeads, LookupByPlace, LookupByNextPlace
  <1>4. CASE LookupByPhone
    <2>1. pc = "phone"
      BY <1>4 DEF LookupByPhone
    <2>2. (\E user, wanted, intent : Build(user, wanted, intent)) \/ pc' = "done"
      BY <1>4 DEF LookupByPhone, Reply, GoTo
    <2> QED BY <1>p, <2>1, <2>2, BuildLeads, LookupByPlace, LookupByNextPlace
  <1>5. CASE FetchDelivery
    <2>1. pc = "delivery" /\ pc' \in {"done", "list", "find"}
      BY <1>5 DEF FetchDelivery, Reply, GoTo
    <2> QED BY <1>p, <2>1, LookupByPlace, LookupByNextPlace
  <1>6. CASE FindRequested
    <2>1. pc = "find" /\ (pc' = "done" \/ (pc' = "pages" /\ step' = 1))
      BY <1>6 DEF FindRequested, Reply, GoTo
    <2> QED BY <1>p, <2>1, LookupByPlace, LookupByNextPlace
  <1>7. CASE FindDaigouPage
    <2>1. pc = "pages" /\ step \in 1..FindPages
      BY <1>7 DEF FindDaigouPage, IInv, LInv, Planning, Planned, Finding
    <2>2. \/ pc' \in {"done", "list"}
          \/ pc' = pc /\ step' = step + 1 /\ ~IsLastPage(RowsOf(sahiy, "daigou"), step)
      BY <1>7 DEF FindDaigouPage, Reply, GoTo
    <2> QED BY <1>p, <2>1, <2>2, LookupByPlace, LookupByNextPlace
  <1>8. CASE StartFetches
    <2>1. pc = "list" /\ pc' = "waiting"
      BY <1>8 DEF StartFetches, GoTo
    <2>2. FetchesLeft' \in 1..6
      <3>1. \A s \in Fetched : fetch'[s] \in {"running", "off"}
        BY <1>8 DEF StartFetches
      <3>2. Fetched = {"daigou", "dashboard", "jiyun", "unpicked"}
        BY FewFetches
      <3>3. /\ FetchLeft("daigou")' \in {0, 2} /\ FetchLeft("dashboard")' \in {0, 1}
            /\ FetchLeft("jiyun")' \in {0, 1} /\ FetchLeft("unpicked")' \in {0, 1}
        BY <3>1, <3>2 DEF FetchLeft
      <3> QED BY <3>3 DEF FetchesLeft
    <2>3. LookupLeft = 7 /\ LookupLeft' = FetchesLeft'
      BY <2>1, LookupByPlace, LookupByNextPlace
    <2> QED BY <2>2, <2>3
  <1>9. ASSUME NEW s \in Fetched, NEW p \in {"fallback", "done"}, pc' = pc,
               fetch' = [fetch EXCEPT ![s] = p],
               \/ fetch[s] = "running" /\ (p = "fallback" => s = "daigou")
               \/ fetch[s] = "fallback" /\ p = "done"
        PROVE  LookupLeft' < LookupLeft
    <2>1. pc = "waiting"
      BY <1>9 DEF IInv, Resting
    <2>2. FetchesLeft' < FetchesLeft /\ FetchesLeft \in 1..6
      BY <1>f, <1>9, FetchDescends, FewFetches
    <2>3. FetchesLeft' \in Int
      <3>1. \A t \in Fetched : FetchLeft(t)' \in {0, 1, 2}
        BY DEF FetchLeft
      <3> QED BY <3>1, FewFetches DEF FetchesLeft
    <2>4. LookupLeft = FetchesLeft /\ LookupLeft' = FetchesLeft'
      <3>1. pc = "waiting" /\ pc' = "waiting"
        BY <1>9, <2>1
      <3> QED BY <3>1, LookupByPlace, LookupByNextPlace
    <2> QED BY <2>2, <2>3, <2>4
  <1>10. ASSUME NEW s \in Fetched, Fetch(s) PROVE LookupLeft' < LookupLeft
    BY <1>9, <1>10 DEF Fetch, Done
  <1>11. "daigou" \in Fetched
    BY FewFetches
  <1>12. CASE FetchCustom
    <2>1. pc' = pc /\ fetch["daigou"] = "running"
          /\ (fetch' = [fetch EXCEPT !["daigou"] = "done"] \/ fetch' = [fetch EXCEPT !["daigou"] = "fallback"])
      BY <1>12 DEF FetchCustom, TakeDaigou, Done
    <2> QED BY <1>9, <1>11, <2>1
  <1>13. CASE FetchAnalytics
    <2>1. pc' = pc /\ fetch["daigou"] = "fallback" /\ fetch' = [fetch EXCEPT !["daigou"] = "done"]
      BY <1>13 DEF FetchAnalytics, TakeDaigou, Done
    <2> QED BY <1>9, <1>11, <2>1
  <1>14. CASE Join
    <2>1. pc = "waiting" /\ pc' = "done"
      BY <1>14 DEF Join, Reply, GoTo
    <2> QED BY <2>1, FewFetches, LookupByPlace, LookupByNextPlace
  <1> QED BY <1>1, <1>2, <1>3, <1>4, <1>5, <1>6, <1>7, <1>8, <1>10, <1>12, <1>13, <1>14
      DEF LookupNext, LookupStep

LEMMA LookupInBounds == IInv /\ TypeOK => LookupIsBounded
  <1> SUFFICES ASSUME IInv, TypeOK PROVE LookupLeft \in 0..(16 + FindPages)
    BY DEF LookupIsBounded
  <1>1. FindPages \in Nat \ {0} /\ FetchesLeft \in 1..6
    BY RowsAssumption, FewFetches
  <1>2. /\ pc \in {"idle", "tracking", "search", "phone", "delivery", "find", "pages",
                   "list", "waiting", "done"}
        /\ pc = "search" => step \in 1..5
        /\ pc = "pages" => step \in 1..FindPages
    BY DEF TypeOK, IInv, LInv, Identifying, Planning, Planned, Finding
  <1> QED BY <1>1, <1>2, LookupByPlace

\* No lookup goes round in circles: whatever Sahiy holds, whichever requests
\* fail and in whatever order they come back, it has an answer after at most
\* 16 steps and as many as there are pages to search for a purchase.
THEOREM LookupsRunOut == LookupSpec => []LookupIsBounded /\ [][LookupDescends]_lookupVars
  <1>1. IInv /\ TypeOK /\ [LookupNext]_lookupVars => [LookupDescends]_lookupVars
    BY EveryStepDescends
  <1> QED BY <1>1, LookupInBounds, LookupInvariance, LookupTypes, PTL DEF LookupSpec

=============================================================================
