----------------------------- MODULE SahiyReads -----------------------------
(***************************************************************************)
(* What the program reads from the Sahiy API in several requests: lists    *)
(* that are kept for a time to live (the pickup points, page by page, and  *)
(* the categories), through the service user's client; and the line items  *)
(* of a customer's most recent orders, a bounded number at a time, through *)
(* the admin client.  Each call does one such read; its GETs are those of  *)
(* SahiyClient.                                                            *)
(***************************************************************************)
EXTENDS SahiyClient

CONSTANTS
    Lists,      \* the lists with a cache
    Pages,      \* how many pages the server has of a list, the empty one after a full one too
    MaxPages,   \* how many pages the client asks for at most
    Recent,     \* the calls that stand for the orders to be enriched
    EnrichLimit \* SKUEnrichConcurrency

ASSUME ReadsAssumption ==
    /\ Pages \in [Lists -> Nat \ {0}]
    /\ MaxPages \in [Lists -> Nat \ {0}]
    /\ Recent \subseteq Calls
    /\ EnrichLimit \in Nat \ {0}

VARIABLES
    where,  \* how far each read is
    list,   \* the list it reads
    got,    \* pages, or answers, it has
    cached, \* pages of a list in its cache
    fresh   \* the lists whose cache is younger than its time to live

reads == <<where, list, got>>
lists == <<cached, fresh>>
vars  == <<clientVars, reads, lists>>

TypeOK ==
    /\ ClientTypeOK
    /\ where \in [Calls -> {"new", "listing", "storing", "enriching", "done", "error"}]
    /\ list \in [Calls -> Lists]
    /\ got \in [Calls -> Nat]
    /\ cached \in [Lists -> Nat]
    /\ fresh \subseteq Lists

Init ==
    /\ ClientInit
    /\ where = [c \in Calls |-> "new"]
    /\ list \in [Calls -> Lists]
    /\ got = [c \in Calls |-> 0]
    /\ cached = [l \in Lists |-> 0]
    /\ fresh = {}

End(c, how) == where' = [where EXCEPT ![c] = how]
Gather(c, n) == got' = [got EXCEPT ![c] = n]

GetFailed(c) == pc[c] \in {"failed", "unauthorized"}

-----------------------------------------------------------------------------
(* Lists                                                                   *)

\* An empty list is never served from the cache.
IsHit(l) == cached[l] > 0 /\ l \in fresh

ReadCached(c) ==
    /\ mode = "service"
    /\ where[c] = "new"
    /\ IsHit(list[c])
    /\ Gather(c, cached[list[c]])
    /\ End(c, "done")
    /\ UNCHANGED <<clientVars, list, lists>>

\* A miss: the read lock is given back, and nothing keeps others from missing too.
StartList(c) ==
    /\ mode = "service"
    /\ where[c] = "new"
    /\ ~IsHit(list[c])
    /\ End(c, "listing")
    /\ Call(c)
    /\ UNCHANGED <<list, got, lists>>

\* A page arrived: it is the last one if it was short or empty, or the limit is reached.
ListPage(c) ==
    /\ where[c] = "listing"
    /\ pc[c] = "ok"
    /\ Gather(c, got[c] + 1)
    /\ IF got'[c] < Pages[list[c]] /\ got'[c] < MaxPages[list[c]]
       THEN Call(c) /\ UNCHANGED where
       ELSE End(c, "storing") /\ UNCHANGED clientVars
    /\ UNCHANGED <<list, lists>>

\* The first page fails the read; a later one ends the list where it is.
ListFails(c) ==
    /\ where[c] = "listing"
    /\ GetFailed(c)
    /\ End(c, IF got[c] = 0 THEN "error" ELSE "storing")
    /\ UNCHANGED <<clientVars, list, got, lists>>

\* Whatever was read, however long ago, is what the cache holds from now on.
StoreList(c) ==
    /\ where[c] = "storing"
    /\ cached' = [cached EXCEPT ![list[c]] = got[c]]
    /\ fresh' = fresh \cup {list[c]}
    /\ End(c, "done")
    /\ UNCHANGED <<clientVars, list, got>>

\* A time to live passes.
TimePasses(l) ==
    /\ l \in fresh
    /\ fresh' = fresh \ {l}
    /\ UNCHANGED <<clientVars, reads, cached>>

-----------------------------------------------------------------------------
(* Enrichment of orders                                                    *)

Enriching == {c \in Calls : where[c] = "enriching"}

\* A goroutine per order takes a slot and asks for the order by its number.
TakeSlot(c) ==
    /\ mode # "service"
    /\ where[c] = "new"
    /\ c \in Recent
    /\ Cardinality(Enriching) < EnrichLimit
    /\ End(c, "enriching")
    /\ Call(c)
    /\ UNCHANGED <<list, got, lists>>

\* The order is not in the answer, or its row has no id, or the id is asked for
\* next; the items are those of the last answer.
EnrichAnswer(c) ==
    /\ where[c] = "enriching"
    /\ pc[c] = "ok"
    /\ \/ got[c] = 0 /\ End(c, "done") /\ UNCHANGED <<clientVars, got>>
       \/ Gather(c, got[c] + 1) /\ End(c, "done") /\ UNCHANGED clientVars
       \/ got[c] = 0 /\ Gather(c, 1) /\ Call(c) /\ UNCHANGED where
    /\ UNCHANGED <<list, lists>>

\* The order keeps the items it has by now.
EnrichFails(c) ==
    /\ where[c] = "enriching"
    /\ GetFailed(c)
    /\ End(c, "done")
    /\ UNCHANGED <<clientVars, list, got, lists>>

-----------------------------------------------------------------------------

ReadStep(c) ==
    \/ CallStep(c) /\ UNCHANGED <<reads, lists>>
    \/ ListPage(c) \/ ListFails(c) \/ StoreList(c) \/ EnrichAnswer(c) \/ EnrichFails(c)

Finished ==
    /\ \A c \in Calls :
        where[c] \in {"done", "error"} \/ (where[c] = "new" /\ mode # "service" /\ c \notin Recent)
    /\ UNCHANGED vars

Next ==
    \/ \E c \in Calls : ReadCached(c) \/ StartList(c) \/ TakeSlot(c) \/ ReadStep(c)
    \/ ServerStep /\ UNCHANGED <<reads, lists>>
    \/ \E l \in Lists : TimePasses(l)
    \/ Finished

Spec == Init /\ [][Next]_vars

\* Every request is bounded by the timeout of http.Client, a free mutex goes to
\* one of those that wait for it, and a goroutine whose slot is free runs.
FairSpec == Spec /\ \A c \in Calls : WF_vars(ReadStep(c)) /\ WF_vars(TakeSlot(c))

-----------------------------------------------------------------------------
(* Properties                                                              *)

\* A list that is answered, from the cache or not, has its first page at least: a
\* failed read is an error and never becomes an empty list, for the caller nor,
\* through the cache, for others.
AnsweredListsHaveAPage ==
    \A c \in Calls : mode = "service" /\ where[c] = "done" => got[c] > 0

\* A read that was started ends, whoever holds the mutex and whatever fails: no
\* way out of Token keeps the lock.
EveryReadEnds ==
    \A c \in Calls : where[c] \in {"listing", "enriching"} ~> where[c] \in {"done", "error"}

=============================================================================
