----------------------------- MODULE SahiyRows ------------------------------
(***************************************************************************)
(* What Sahiy holds of a customer and how its endpoints give it: the rows  *)
(* of the five sources, the pages they come in, the ways a customer is     *)
(* found, and the answer that is put together from rows.                   *)
(***************************************************************************)
EXTENDS OrderRules

CONSTANTS
    Customer,       \* whose orders Sahiy holds
    Nobody,         \* a request or a search without a user
    FreeText,       \* a search term that is no row's number
    LookupError,    \* instead of an answer
    ListPageSize,   \* DaigouPageSize: daigou rows in one list request
    FindPageSize,   \* daigou rows in one page of the search by number
    FindPages       \* pages that search reads at most

ASSUME RowsAssumption ==
    /\ Customer # Nobody
    /\ FreeText # NoTrack
    /\ ListPageSize \in Nat \ {0} /\ FindPageSize \in Nat \ {0} /\ FindPages \in Nat \ {0}

\* The fields lookupBySearch tries, in this order.
SearchFields == <<"track_number", "express_num", "tracking", "order_sn", "logistics_sn">>

\* The requests by what they are for; "owner" is the tracking endpoint.
Calls == {"owner", "phone", "delivery", "find", "custom", "analytics",
          "jiyun", "dashboard", "unpicked"} \cup {SearchFields[i] : i \in 1..5}

\* Nothing is known of the customer yet.
NoWorld == [rows |-> {}, tracking |-> FALSE, phone |-> FALSE, counts |-> FALSE,
            search |-> "none"]

Searchable(world) == \E i \in DOMAIN SearchFields : world.search = SearchFields[i]

\* A request is a message with the identity the customer has verified.
SearchTerm(req) == IF Names(req.msg) THEN req.msg.track ELSE FreeText
ByPhone(req)    == req.phone \/ req.msg.phone

\* Only China purchases carry a price.
MapRow(r) ==
    [source |-> r.source, pos |-> r.pos, code |-> r.code, track |-> r.track,
     numbers |-> r.numbers,
     price |-> IF r.source = "daigou"
               THEN NewPricing(r.price.goods, r.price.freight, r.price.amount)
               ELSE NewPricing(0, 0, 0)]

RowsOf(world, s) == {MapRow(r) : r \in Of(world.rows, s)}

\* intentStatusCodes(""): the list request always asks for the purchase phase.
IntentStatusCodes   == 0..5
CustomDaigou(world) == {o \in RowsOf(world, "daigou") : o.code \in IntentStatusCodes}

\* Where a row is in its list, and the pages the list is sent in.
Place(o, list)  == Cardinality({p \in list : p.pos <= o.pos})
FirstPage(list) == {o \in list : Place(o, list) <= ListPageSize}
Page(list, n) ==
    {o \in list : Place(o, list) \in ((n - 1) * FindPageSize + 1)..(n * FindPageSize)}
IsLastPage(list, n) == Cardinality(list) <= n * FindPageSize \/ n = FindPages

\* A server that reports no total is taken to have what it sent.
DaigouTotal(world, list) ==
    IF world.counts THEN Cardinality(list) ELSE Cardinality(FirstPage(list))

\* The displayed number must be the one that was asked for, as it is written.
Wanted(list, number) == {o \in list : o.track = number}
Foremost(list) == {o \in list : \A p \in list : o.pos <= p.pos}
First(list)    == CHOOSE o \in Foremost(list) : TRUE

OneDaigou(user, o) == [NewCustomerSnapshot(user, {o}) EXCEPT !.daigouTotal = 1]

ListAnswer(user, intent, list, daigouTotal) ==
    ApplyListIntent(
        Deduplicate([NewCustomerSnapshot(user, list) EXCEPT
                        !.daigouTotal = IF Of(list, "daigou") = {} THEN 0 ELSE daigouTotal],
                    intent),
        intent)

=============================================================================
