----------------------------- MODULE OrderRules -----------------------------
(* The rules of the order domain (src/internal/domain/order): which orders a *)
(* question is about, which rows describe the same parcel, and which rows an *)
(* answer lists.                                                             *)
(*                                                                           *)
(* A message is what the rules can tell about its text: the tracking number  *)
(* it names, the keyword tables it hits ("words", named after the Go tables) *)
(* and whether it looks like a phone number.  An order is one row of a Sahiy *)
(* endpoint after mapping: its source, status code, display number, and the  *)
(* normalised identifiers it answers to.                                     *)
EXTENDS Integers, Sequences, FiniteSets

CONSTANTS NoTrack      \* a message that names no parcel, a row without a number

Sources == {"delivery", "daigou", "dashboard", "jiyun", "unpicked"}

Filters == {"none", "cancelled", "active", "pending_arrival", "completed",
            "delayed", "in_china"}

\* The keyword tables a text is matched against, one name per table.
WordTables ==
  {"allOrders", "cancelled", "delayed", "arrival", "arrivalAsks", "arrivalVerbs",
   "arrivalContext", "active", "where", "orderNounWords", "inChina", "completed",
   "accepted", "daigou", "delivery", "unpicked", "dashboard", "jiyun",
   "listForms", "possessiveSingulars", "statusWords", "orderNouns",
   "russianPossessives", "followUp"}

Says(m, table)  == table \in m.words
Blank(m)        == m.blank            \* nothing is left after normalisation
Names(m)        == m.track # NoTrack  \* shared.ExtractTrack finds a number

-----------------------------------------------------------------------------
(* What a list question asks for: list_intent.go.                            *)

DefaultListIntent == [sources |-> Sources, filter |-> "none", all |-> FALSE]

WantsSource(intent, s) == intent.sources = {} \/ s \in intent.sources

IsDefault(intent) ==
  intent.filter = "none" /\ ~intent.all /\ intent.sources = Sources

\* "" is the empty description; any other is the pair that decides its words.
NoScope == <<>>
ScopeDescription(intent) ==
  IF intent.filter = "none" /\ intent.sources = Sources
  THEN NoScope
  ELSE <<intent.filter, IF intent.sources = Sources THEN {} ELSE intent.sources>>

IsWhereOrdersQuestion(m) == Says(m, "where") /\ Says(m, "orderNounWords")

IsCompletedOrdersQuestion(m) ==
  \/ Says(m, "completed")
  \/ Says(m, "accepted") /\ Says(m, "orderNounWords")

IsPendingArrivalQuestion(m) ==
  \/ Says(m, "arrival")
  \/ Says(m, "arrivalAsks") /\ Says(m, "arrivalVerbs") /\ Says(m, "arrivalContext")

\* The first rule that matches wins.
RowFilterOf(m) ==
  IF Says(m, "cancelled") THEN "cancelled"
  ELSE IF Says(m, "delayed") THEN "delayed"
  ELSE IF IsPendingArrivalQuestion(m) THEN "pending_arrival"
  ELSE IF Says(m, "active") \/ IsWhereOrdersQuestion(m) THEN "active"
  ELSE IF Says(m, "inChina") THEN "in_china"
  ELSE IF IsCompletedOrdersQuestion(m) THEN "completed"
  ELSE "none"

\* The sources the message names, with the two filters that imply their own.
NamedSources(m, filter) ==
  {s \in Sources : Says(m, s)}
    \cup (IF filter = "delayed" THEN {"unpicked", "delivery"} ELSE {})
    \cup (IF filter = "in_china" THEN {"daigou", "delivery"} ELSE {})

ImpliedSources(filter) ==
  CASE filter \in {"cancelled", "active", "pending_arrival"} -> {"daigou", "jiyun"}
    [] filter = "completed" -> {"jiyun", "delivery", "daigou"}
    [] OTHER -> Sources

ParseListIntent(m) ==
  LET filter == RowFilterOf(m)
      named  == NamedSources(m, filter)
  IN  IF Blank(m) THEN DefaultListIntent
      ELSE [sources |-> IF named # {} THEN named ELSE ImpliedSources(filter),
            filter  |-> filter,
            all     |-> Says(m, "allOrders") /\ filter = "none"]

IsUnpickedDashboard(code) == code \in {1, 8, 9}

\* The same code means different things in each pipeline.
MatchesFilter(o, filter) ==
  CASE filter = "none"      -> TRUE
    [] filter = "cancelled" -> o.source = "daigou" /\ o.code \in {10, 11}
    [] filter = "completed" ->
         \/ o.source \in {"delivery", "unpicked"} /\ o.code = 7
         \/ o.source = "daigou" /\ o.code \in {6, 7}
         \/ o.source = "dashboard" /\ o.code \in 2..7
         \/ o.source = "jiyun" /\ o.code = 5
    [] filter \in {"active", "pending_arrival"} ->
         \/ o.source = "daigou" /\ o.code \notin {6, 10, 11}
         \/ o.source = "delivery" /\ o.code # 7
         \/ o.source = "unpicked"
         \/ o.source = "dashboard" /\ IsUnpickedDashboard(o.code)
         \/ o.source = "jiyun" /\ o.code # 5
    [] filter = "delayed"   ->
         o.source = "unpicked" \/ (o.source = "delivery" /\ o.code = 4)
    [] filter = "in_china"  ->
         \/ o.source = "delivery" /\ o.code \in {1, 2}
         \/ o.source = "daigou" /\ o.code \in 0..5

-----------------------------------------------------------------------------
(* Orders and snapshots: order.go.                                           *)

\* A number is a key and the way it is written; only the key is compared
\* across endpoints.
NormalizeTrackKey(number) == number.key
TrackKeys(o) == {NormalizeTrackKey(n) : n \in o.numbers}

\* A snapshot holds the rows of all five lists; a row knows its list.
NewCustomerSnapshot(user, rows) ==
  [user |-> user, rows |-> rows, daigouTotal |-> 0, scope |-> NoScope]

Of(rows, s) == {o \in rows : o.source = s}

IsEmpty(snap) == snap.rows = {}

-----------------------------------------------------------------------------
(* One physical parcel, reported by several endpoints: chain.go.             *)

DaigouPurchaseMaxStatus == 5

ShouldChain(intent) ==
  \/ intent.filter \in {"pending_arrival", "active", "completed"}
  \/ intent.filter = "none" /\ intent.sources = Sources

KeepPurchasePhase(rows) ==
  {o \in rows : o.source = "daigou" => o.code <= DaigouPurchaseMaxStatus}

\* dedupePriority: from the most to the least informative source, and within
\* a source in the order the endpoint lists its rows.
DedupePriority ==
  [jiyun |-> 1, unpicked |-> 2, delivery |-> 3, dashboard |-> 4, daigou |-> 5]
ComesBefore(p, o) ==
  \/ DedupePriority[p.source] < DedupePriority[o.source]
  \/ p.source = o.source /\ p.pos < o.pos

SameParcel(o, p) == TrackKeys(o) \cap TrackKeys(p) # {}

\* Mutant: each endpoint's rows are compared among themselves.
KeepUnclaimedBySource(rows) ==
  {o \in rows : \A p \in rows : p.source = o.source /\ ComesBefore(p, o) => ~SameParcel(p, o)}

\* Mutant: a row that was dropped claims its keys as well.
KeepUnclaimedByAnyone(rows) ==
  {o \in rows : \A p \in rows : ComesBefore(p, o) => ~SameParcel(p, o)}

\* A row is kept unless a row kept before it has claimed one of its keys.
KeepUnclaimed(rows) ==
  LET kept[o \in rows] ==
        \A p \in rows : ComesBefore(p, o) /\ kept[p] => ~SameParcel(p, o)
  IN  {o \in rows : kept[o]}

\* The daigou total is replaced only when rows of that list were dropped.
Recount(snap, rows) ==
  LET left == Cardinality(Of(rows, "daigou"))
  IN  [snap EXCEPT !.rows = rows,
                   !.daigouTotal = IF left # Cardinality(Of(snap.rows, "daigou"))
                                   THEN left ELSE @]

Deduplicate(snap, intent) ==
  Recount(snap, KeepUnclaimed(IF ShouldChain(intent)
                              THEN KeepPurchasePhase(snap.rows)
                              ELSE snap.rows))

ApplyListIntent(snap, intent) ==
  [Recount(snap, {o \in snap.rows : /\ WantsSource(intent, o.source)
                                   /\ MatchesFilter(o, intent.filter)})
     EXCEPT !.scope = ScopeDescription(intent)]

-----------------------------------------------------------------------------
(* Is the message about the customer's own orders: lookup_intent.go.         *)

IsListQuestion(m) ==
  /\ ~Names(m)
  /\ ~Blank(m)
  /\ \/ Says(m, "listForms")
     \/ Says(m, "allOrders")
     \/ Says(m, "possessiveSingulars") /\ Says(m, "statusWords")
     \/ Says(m, "russianPossessives") /\ Says(m, "orderNouns")

IsLookupRequest(m) ==
  \/ Names(m)
  \/ IsListQuestion(m)
  \/ /\ ~Blank(m)
     /\ \/ Says(m, "delayed")
        \/ /\ Says(m, "orderNouns")
           /\ \/ Says(m, "statusWords")
              \/ Says(m, "arrival")
              \/ Says(m, "arrivalAsks") /\ Says(m, "arrivalVerbs")

\* Mutant: the first turn that named a number is taken.
MergeFirstNamed(m, prior) ==
  LET named == {i \in DOMAIN prior : Names(prior[i])}
      first == CHOOSE i \in named : \A j \in named : i <= j
  IN  IF Names(m) \/ ~Says(m, "followUp") \/ named = {}
      THEN m
      ELSE [m EXCEPT !.track = prior[first].track]

\* A bare follow-up takes the number of the last earlier text that carries one:
\* that text is put before it.  prior holds the texts, oldest first.
MergeFollowUp(m, prior) ==
  LET named == {i \in DOMAIN prior : Names(prior[i])}
      last  == CHOOSE i \in named : \A j \in named : j <= i
  IN  IF Names(m) \/ ~Says(m, "followUp") \/ named = {}
      THEN m
      ELSE [m EXCEPT !.track = prior[last].track,
                     !.words = @ \cup prior[last].words]

-----------------------------------------------------------------------------
(* Delivery estimates (eta.go) and prices (money.go).                        *)

StageDelivered == 12
LogisticsDefaultDays == <<1, 3, 1, 4, 5, 1, 1, 1, 2, 1, 3>>

DaigouToLogistics   == [code \in 0..6 |-> <<1, 1, 2, 1, 2, 3, 4>>[code + 1]]
JiyunToLogistics    == <<3, 3, 3, 4, 12>>
\* Mutant: one code too early.
DeliveryShifted     == <<4, 5, 7, 11, 9, 12, 8, 8>>
DeliveryToLogistics == <<3, 4, 5, 7, 11, 9, 12, 8>>

StagesOf(source) ==
  CASE source = "daigou" -> DaigouToLogistics
    [] source = "jiyun"  -> JiyunToLogistics
    [] source \in {"delivery", "unpicked"} -> DeliveryToLogistics
    [] source = "dashboard" -> <<>>

NoStage == 0
ResolveLogisticsStatus(source, code) ==
  IF code \in DOMAIN StagesOf(source) THEN StagesOf(source)[code] ELSE NoStage

EstimateRemainingDays(stage) ==
  LET days[s \in 1..StageDelivered] ==
        IF s = StageDelivered THEN 0 ELSE LogisticsDefaultDays[s] + days[s + 1]
  IN  IF stage >= StageDelivered THEN 0
      ELSE days[IF stage < 1 THEN 1 ELSE stage]

NoETA == -1
EstimateETA(o) ==
  LET stage == ResolveLogisticsStatus(o.source, o.code)
  IN  IF stage = NoStage THEN NoETA ELSE EstimateRemainingDays(stage)

\* A freight fee that is missing is what the total has over the goods, a total
\* that is missing is the sum of its parts.
NewPricing(goods, freight, amount) ==
  LET fee == IF freight <= 0 /\ amount > goods /\ goods > 0
             THEN amount - goods ELSE freight
  IN  [goods |-> goods, freight |-> fee,
       amount |-> IF amount <= 0 THEN goods + fee ELSE amount]

NoSum == -1
ConvertToUZS(cny, rate) == IF rate <= 0 \/ cny <= 0 THEN NoSum ELSE cny * rate

-----------------------------------------------------------------------------
(* Status labels (infra/sahiy/status.go): a text of the table, or the code.  *)

DeliveryLabels  == 1..8
JiyunLabels     == 1..5
DashboardLabels == {1, 8, 9}
DaigouLabels    == 0..6 \cup {10, 11, 12}

Code(code) == <<"code", code>>
DeliveryLabel(code) == IF code \in DeliveryLabels THEN <<"delivery", code>> ELSE Code(code)
JiyunLabel(code)    == IF code \in JiyunLabels THEN <<"jiyun", code>> ELSE Code(code)
DaigouLabel(code)   == IF code \in DaigouLabels THEN <<"daigou", code>> ELSE Code(code)
\* Codes 2 to 7 share one label, "delivered".
DashboardLabel(code) ==
  IF code \in 2..7 THEN <<"dashboard", 2>>
  ELSE IF code \in DashboardLabels THEN <<"dashboard", code>>
  ELSE Code(code)

StatusLabel(source, code) ==
  CASE source \in {"delivery", "unpicked"} -> DeliveryLabel(code)
    [] source = "jiyun"     -> JiyunLabel(code)
    [] source = "dashboard" -> DashboardLabel(code)
    [] source = "daigou"    -> DaigouLabel(code)

-----------------------------------------------------------------------------
(* What the model is told of a snapshot: Summarize.                          *)

OrderFacts(o, rate) ==
  [track |-> o.track, status |-> StatusLabel(o.source, o.code), eta |-> EstimateETA(o),
   total |-> IF o.price.amount <= 0 THEN NoSum ELSE o.price.amount,
   inUZS |-> ConvertToUZS(o.price.amount, rate)]

Summarize(snap, rate) ==
  [scope  |-> snap.scope,
   orders |-> {OrderFacts(o, rate) : o \in snap.rows},
   daigou |-> IF Of(snap.rows, "daigou") = {} THEN 0 ELSE snap.daigouTotal]

=============================================================================
