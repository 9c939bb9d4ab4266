-------------------------- MODULE SahiyReads_proofs --------------------------
(***************************************************************************)
(* Safety of the shared client and of what is read through it, for any     *)
(* number of calls, revocations and failures.                              *)
(***************************************************************************)
EXTENDS SahiyReads, FiniteSetTheorems, TLAPS

\* Who is inside Token holds the mutex, and what it brings nobody has seen.
LockInv ==
    /\ \A c \in Calls :
        /\ pc[c] \in Locked <=> mutex = c
        /\ pc[c] \in Locked => mode # "static"
        /\ pc[c] = "store" =>
              /\ answer[c] = issued
              /\ issued \notin cache
              /\ \A d \in Calls : token[d] < issued /\ rejected[d] < issued
    /\ mode = "static" => issued = 0

\* The cached token is the latest handed out; a call that is to repeat its GET
\* will not find the token it was refused with.
TokenInv ==
    /\ \A s, t \in cache : s = t
    /\ \A t \in cache : \A d \in Calls : token[d] <= t /\ rejected[d] <= t
    /\ \A c \in Calls :
        /\ pc[c] \in {"token"} \cup Locked /\ attempt[c] = 2 => rejected[c] \notin cache
        /\ pc[c] = "invalidate" \/ attempt[c] = 2 => rejected[c] \in revoked
        /\ pc[c] = "unauthorized" => token[c] \in revoked /\ attempt[c] = 2

ClientInv == ClientTypeOK /\ LockInv /\ TokenInv /\ RetriesWithAnotherToken

\* A list that is about to be kept, is kept or was answered has a page.
ListInv ==
    /\ \A c \in Calls :
        /\ where[c] = "storing" => got[c] > 0
        /\ where[c] = "enriching" => mode # "service"
    /\ AnsweredListsHaveAPage

ClientStep == [ClientNext]_clientVars

-----------------------------------------------------------------------------

LEMMA ClientInitInv == ClientInit => ClientInv
BY ClientAssumption
DEF ClientInit, ClientInv, ClientTypeOK, LockInv, TokenInv, RetriesWithAnotherToken, Locked, Tokens, Static, Ended

LEMMA ClientTypeStep == ClientInv /\ ClientStep => ClientTypeOK'
<1> SUFFICES ASSUME ClientInv, ClientStep PROVE ClientTypeOK'
  OBVIOUS
<1> USE ClientAssumption DEF ClientInv, ClientTypeOK, Tokens, Static, Locked, Ended
<1>1. ASSUME NEW c \in Calls, Call(c) PROVE ClientTypeOK'
  BY <1>1 DEF Call, Goto, auth, server
<1>2. ASSUME NEW c \in Calls, TokenCached(c) PROVE ClientTypeOK'
  <2>1. token' \in [Calls -> 0..issued]
    BY <1>2 DEF TokenCached, Usable
  <2> QED
    BY <1>2, <2>1 DEF TokenCached, Goto, auth, server
<1>3. ASSUME NEW c \in Calls, Reauthenticate(c) PROVE ClientTypeOK'
  BY <1>3 DEF Reauthenticate, Goto, server
<1>4. ASSUME NEW c \in Calls, RefreshFails(c) PROVE ClientTypeOK'
  BY <1>4 DEF RefreshFails, Goto, auth, server
<1>5. ASSUME NEW c \in Calls, Issue(c) PROVE ClientTypeOK'
  <2>1. issued' = issued + 1 /\ issued \in Nat /\ answer' \in [Calls -> 0..issued']
    BY <1>5 DEF Issue
  <2> QED
    BY <1>5, <2>1 DEF Issue, Goto, auth
<1>6. ASSUME NEW c \in Calls, StoreToken(c) PROVE ClientTypeOK'
  <2>1. answer[c] \in 1..issued
    BY <1>6 DEF StoreToken, LockInv
  <2> QED
    BY <1>6, <2>1 DEF StoreToken, Goto, server
<1>7. ASSUME NEW c \in Calls, LoginFails(c) PROVE ClientTypeOK'
  BY <1>7 DEF LoginFails, Goto, server
<1>8. ASSUME NEW c \in Calls, GetOk(c) \/ GetFails(c) \/ GetUnauthorized(c) PROVE ClientTypeOK'
  <2>1. CASE GetOk(c)
    BY <2>1 DEF GetOk, Goto, auth, server
  <2>2. CASE GetFails(c)
    BY <2>2 DEF GetFails, Goto, auth, server
  <2>3. CASE GetUnauthorized(c)
    <3>1. rejected' \in [Calls -> Tokens]
      BY <2>3 DEF GetUnauthorized
    <3>2. pc' \in [Calls -> {"idle", "token", "get", "invalidate"} \cup Locked \cup Ended]
      BY <2>3 DEF GetUnauthorized, Goto
    <3> QED
      BY <2>3, <3>1, <3>2 DEF GetUnauthorized, auth, server
  <2> QED
    BY <1>8, <2>1, <2>2, <2>3
<1>9. ASSUME NEW c \in Calls, Invalidate(c) PROVE ClientTypeOK'
  BY <1>9 DEF Invalidate, Goto, server
<1>10. ASSUME ServerStep PROVE ClientTypeOK'
  BY <1>10 DEF ServerStep, Revoke, GrowStale, auth, server, calls
<1>11. ASSUME UNCHANGED clientVars PROVE ClientTypeOK'
  BY <1>11 DEF clientVars, auth, server, calls
<1> QED
  BY <1>1, <1>2, <1>3, <1>4, <1>5, <1>6, <1>7, <1>8, <1>9, <1>10, <1>11
  DEF ClientStep, ClientNext, CallStep

LEMMA LockStep == ClientInv /\ ClientStep => LockInv'
<1> SUFFICES ASSUME ClientInv, ClientStep PROVE LockInv'
  OBVIOUS
<1> USE ClientAssumption DEF ClientInv, ClientTypeOK, Tokens, Static, Locked, Ended, LockInv
<1>1. ASSUME NEW c \in Calls, Call(c) PROVE LockInv'
  BY <1>1 DEF Call, Goto, auth, server
<1>2. ASSUME NEW c \in Calls, TokenCached(c) PROVE LockInv'
  BY <1>2 DEF TokenCached, Usable, Unlocked, Goto, auth, server
<1>3. ASSUME NEW c \in Calls, Reauthenticate(c) PROVE LockInv'
  BY <1>3 DEF Reauthenticate, Unlocked, Goto, server
<1>4. ASSUME NEW c \in Calls, RefreshFails(c) PROVE LockInv'
  BY <1>4 DEF RefreshFails, Goto, auth, server
<1>5. ASSUME NEW c \in Calls, Issue(c) PROVE LockInv'
  <2>1. \A d \in Calls : pc[d] \in Locked => d = c
    BY <1>5 DEF Issue
  <2>2. /\ issued' = issued + 1 /\ issued' \notin cache
        /\ \A d \in Calls : token[d] < issued' /\ rejected[d] < issued'
    BY <1>5 DEF Issue
  <2> QED
    BY <1>5, <2>1, <2>2 DEF Issue, Goto, auth
<1>6. ASSUME NEW c \in Calls, StoreToken(c) PROVE LockInv'
  <2>1. \A d \in Calls : pc[d] \in Locked => d = c
    BY <1>6 DEF StoreToken
  <2> QED
    BY <1>6, <2>1 DEF StoreToken, Goto, server
<1>7. ASSUME NEW c \in Calls, LoginFails(c) PROVE LockInv'
  <2>1. \A d \in Calls : pc[d] \in Locked => d = c
    BY <1>7 DEF LoginFails
  <2> QED
    BY <1>7, <2>1 DEF LoginFails, Goto, server
<1>8. ASSUME NEW c \in Calls, GetOk(c) \/ GetFails(c) \/ GetUnauthorized(c) PROVE LockInv'
  BY <1>8 DEF GetOk, GetFails, GetUnauthorized, Goto, auth, server
<1>9. ASSUME NEW c \in Calls, Invalidate(c) PROVE LockInv'
  BY <1>9 DEF Invalidate, Unlocked, Goto, server
<1>10. ASSUME ServerStep PROVE LockInv'
  BY <1>10 DEF ServerStep, Revoke, GrowStale, auth, server, calls
<1>11. ASSUME UNCHANGED clientVars PROVE LockInv'
  BY <1>11 DEF clientVars, auth, server, calls
<1> QED
  BY <1>1, <1>2, <1>3, <1>4, <1>5, <1>6, <1>7, <1>8, <1>9, <1>10, <1>11
  DEF ClientStep, ClientNext, CallStep

LEMMA TokenStep == ClientInv /\ ClientStep => TokenInv' /\ RetriesWithAnotherToken'
<1> DEFINE Goal == TokenInv' /\ RetriesWithAnotherToken'
<1> SUFFICES ASSUME ClientInv, ClientStep PROVE Goal
  OBVIOUS
<1> USE ClientAssumption DEF ClientInv, ClientTypeOK, Tokens, Static, Locked, Ended, LockInv, TokenInv, RetriesWithAnotherToken
<1>1. ASSUME NEW c \in Calls, Call(c) PROVE Goal
  BY <1>1 DEF Call, Goto, auth, server
<1>2. ASSUME NEW c \in Calls, TokenCached(c) PROVE Goal
  <2>1. CASE mode = "static"
    BY <1>2, <2>1 DEF TokenCached, Goto, auth, server
  <2>2. CASE mode # "static"
    <3>1. PICK t \in cache : token' = [token EXCEPT ![c] = t]
      BY <1>2, <2>2 DEF TokenCached, Usable
    <3>2. TokenInv'
      BY <1>2, <3>1 DEF TokenCached, Goto, auth, server
    <3>3. RetriesWithAnotherToken'
      BY <1>2, <3>1 DEF TokenCached, Goto, auth, server
    <3> QED
      BY <3>2, <3>3
  <2> QED
    BY <2>1, <2>2
<1>3. ASSUME NEW c \in Calls, Reauthenticate(c) PROVE Goal
  BY <1>3 DEF Reauthenticate, Goto, server
<1>4. ASSUME NEW c \in Calls, RefreshFails(c) PROVE Goal
  BY <1>4 DEF RefreshFails, Goto, auth, server
<1>5. ASSUME NEW c \in Calls, Issue(c) PROVE Goal
  BY <1>5 DEF Issue, Goto, auth
<1>6. ASSUME NEW c \in Calls, StoreToken(c) PROVE Goal
  BY <1>6 DEF StoreToken, Goto, server
<1>7. ASSUME NEW c \in Calls, LoginFails(c) PROVE Goal
  BY <1>7 DEF LoginFails, Goto, server
<1>8. ASSUME NEW c \in Calls, GetOk(c) \/ GetFails(c) PROVE Goal
  <2>1. CASE GetOk(c)
    BY <2>1 DEF GetOk, Goto, auth, server
  <2>2. CASE GetFails(c)
    BY <2>2 DEF GetFails, Goto, auth, server
  <2> QED
    BY <1>8, <2>1, <2>2
<1>9. ASSUME NEW c \in Calls, GetUnauthorized(c) PROVE Goal
  BY <1>9 DEF GetUnauthorized, Accepted, Goto, auth, server
<1>10. ASSUME NEW c \in Calls, Invalidate(c) PROVE Goal
  BY <1>10 DEF Invalidate, Goto, server
<1>11. ASSUME ServerStep PROVE Goal
  BY <1>11 DEF ServerStep, Revoke, GrowStale, auth, server, calls
<1>12. ASSUME UNCHANGED clientVars PROVE Goal
  BY <1>12 DEF clientVars, auth, server, calls
<1> HIDE DEF Goal
<1> QED
  BY <1>1, <1>2, <1>3, <1>4, <1>5, <1>6, <1>7, <1>8, <1>9, <1>10, <1>11, <1>12
  DEF ClientStep, ClientNext, CallStep

-----------------------------------------------------------------------------

\* Every step of a read is a step of the client, or leaves it alone.
LEMMA ReadsUseTheClient == [Next]_vars => ClientStep
<1> SUFFICES ASSUME [Next]_vars PROVE ClientStep
  OBVIOUS
<1>1. ASSUME NEW c \in Calls, ReadCached(c) \/ StartList(c) \/ TakeSlot(c) PROVE ClientStep
  BY <1>1 DEF ReadCached, StartList, TakeSlot, ClientStep, ClientNext
<1>2. ASSUME NEW c \in Calls, ReadStep(c) PROVE ClientStep
  BY <1>2 DEF ReadStep, ListPage, ListFails, StoreList, EnrichAnswer, EnrichFails, ClientStep, ClientNext
<1>3. ASSUME ServerStep PROVE ClientStep
  BY <1>3 DEF ClientStep, ClientNext
<1>4. ASSUME NEW l \in Lists, TimePasses(l) PROVE ClientStep
  BY <1>4 DEF TimePasses, ClientStep
<1>5. ASSUME UNCHANGED vars PROVE ClientStep
  BY <1>5 DEF vars, ClientStep
<1> QED
  BY <1>1, <1>2, <1>3, <1>4, <1>5 DEF Next, Finished

\* The reads use the client as it is specified on its own.
THEOREM ReadsImplementClient == Spec => ClientSpec
<1>1. Init => ClientInit
  BY DEF Init
<1>2. [Next]_vars => [ClientNext]_clientVars
  BY ReadsUseTheClient DEF ClientStep
<1> QED
  BY <1>1, <1>2, PTL DEF Spec, ClientSpec

LEMMA ClientInvariance == Spec => []ClientInv
<1>1. Init => ClientInv
  BY ClientInitInv DEF Init
<1>2. ClientInv /\ [Next]_vars => ClientInv'
  BY ReadsUseTheClient, ClientTypeStep, LockStep, TokenStep DEF ClientInv
<1> QED
  BY <1>1, <1>2, PTL DEF Spec

\* No call repeats its request with the token that was refused.
THEOREM RetriesAreFresh == Spec => []RetriesWithAnotherToken
<1>1. ClientInv => RetriesWithAnotherToken
  BY DEF ClientInv
<1> QED
  BY ClientInvariance, <1>1, PTL

\* A revoked set that holds two tokens has two elements at least.
LEMMA TwoRevoked ==
    ASSUME ClientTypeOK, NEW s \in revoked, NEW t \in revoked, s # t
    PROVE  Cardinality(revoked) >= 2
<1>1. IsFiniteSet(0..issued) /\ revoked \subseteq 0..issued
  <2>1. IsFiniteSet(0..issued)
    BY FS_Interval DEF ClientTypeOK
  <2>2. revoked \subseteq 0..issued
    BY DEF ClientTypeOK, Tokens, Static
  <2> QED
    BY <2>1, <2>2
<1>2. IsFiniteSet(revoked)
  BY <1>1, FS_Subset
<1>3. IsFiniteSet({s}) /\ Cardinality({s}) = 1
  BY FS_Singleton
<1>4. IsFiniteSet({s, t}) /\ Cardinality({s, t}) = 2
  <2>1. {s, t} = {s} \cup {t} /\ t \notin {s}
    OBVIOUS
  <2> QED
    BY <1>3, <2>1, FS_AddElement
<1>5. Cardinality({s, t}) <= Cardinality(revoked)
  BY <1>2, FS_Subset
<1>6. Cardinality(revoked) \in Nat
  BY <1>2, FS_CardinalityType
<1> QED
  BY <1>4, <1>5, <1>6

\* One revoked token does not fail a call for want of authorization.
THEOREM OneRevocationIsSurvived == Spec => []SurvivesOneRevocation
<1>1. ClientInv => SurvivesOneRevocation
  <2> SUFFICES ASSUME ClientInv, NEW c \in Calls, mode # "static", pc[c] = "unauthorized"
               PROVE  Cardinality(revoked) >= 2
    BY DEF SurvivesOneRevocation
  <2>1. token[c] \in revoked /\ rejected[c] \in revoked /\ token[c] # rejected[c]
    BY DEF ClientInv, TokenInv, RetriesWithAnotherToken
  <2> QED
    BY <2>1, TwoRevoked DEF ClientInv
<1> QED
  BY ClientInvariance, <1>1, PTL

\* Tokens are handed out in the order in which they were issued.
THEOREM TokensAdvance == Spec => HandedOutTokensAdvance
<1>1. ASSUME ClientInv, ClientStep, NEW c \in Calls, token'[c] # token[c], NEW d \in Calls
      PROVE  token[d] <= token'[c]
  <2> USE DEF ClientInv, ClientTypeOK, Tokens, Static
  <2>1. CASE \E b \in Calls : TokenCached(b)
    <3>1. PICK b \in Calls : TokenCached(b)
      BY <2>1
    <3>2. CASE mode = "static"
      BY <3>1, <3>2, <1>1 DEF TokenCached, LockInv
    <3>3. CASE mode # "static"
      BY <3>1, <3>3, <1>1 DEF TokenCached, Usable, TokenInv
    <3> QED
      BY <3>2, <3>3
  <2>2. CASE \E b \in Calls : StoreToken(b)
    BY <2>2, <1>1 DEF StoreToken, LockInv
  <2>3. (\E b \in Calls : TokenCached(b) \/ StoreToken(b)) \/ UNCHANGED token
    BY <1>1 DEF ClientStep, ClientNext, CallStep, ServerStep, Call, Reauthenticate, RefreshFails, Issue,
               LoginFails, GetOk, GetFails, GetUnauthorized, Invalidate, Revoke, GrowStale, clientVars, calls
  <2> QED
    BY <1>1, <2>1, <2>2, <2>3
<1>2. ClientInv /\ [Next]_vars =>
        [\A c \in Calls : token'[c] # token[c] => \A d \in Calls : token[d] <= token'[c]]_clientVars
  BY <1>1, ReadsUseTheClient
<1> QED
  BY ClientInvariance, <1>2, PTL DEF Spec, HandedOutTokensAdvance

-----------------------------------------------------------------------------

IInv == TypeOK /\ ListInv

LEMMA ListInitInv == Init => IInv
BY ReadsAssumption, ClientInitInv
DEF Init, IInv, TypeOK, ListInv, AnsweredListsHaveAPage, ClientInv

LEMMA ListStep == IInv /\ ClientTypeOK' /\ [Next]_vars => IInv'
<1> SUFFICES ASSUME IInv, ClientTypeOK', [Next]_vars PROVE IInv'
  OBVIOUS
<1> USE ReadsAssumption DEF IInv, TypeOK, ListInv, AnsweredListsHaveAPage
<1>m. UNCHANGED mode
  BY ReadsUseTheClient DEF ClientStep, ClientNext, CallStep, ServerStep, Call, TokenCached, Reauthenticate,
     RefreshFails, Issue, StoreToken, LoginFails, GetOk, GetFails, GetUnauthorized, Invalidate, Revoke,
     GrowStale, clientVars
<1>1. ASSUME NEW c \in Calls, ReadCached(c) PROVE IInv'
  BY <1>1, <1>m DEF ReadCached, IsHit, Gather, End, lists
<1>2. ASSUME NEW c \in Calls, StartList(c) \/ TakeSlot(c) PROVE IInv'
  BY <1>2, <1>m DEF StartList, TakeSlot, End, lists
<1>3. ASSUME NEW c \in Calls, CallStep(c) /\ UNCHANGED <<reads, lists>> PROVE IInv'
  BY <1>3, <1>m DEF reads, lists
<1>4. ASSUME NEW c \in Calls, ListPage(c) PROVE IInv'
  BY <1>4, <1>m DEF ListPage, Gather, End, lists
<1>5. ASSUME NEW c \in Calls, ListFails(c) PROVE IInv'
  BY <1>5, <1>m DEF ListFails, End, lists
<1>6. ASSUME NEW c \in Calls, StoreList(c) PROVE IInv'
  BY <1>6, <1>m DEF StoreList, End
<1>7. ASSUME NEW c \in Calls, EnrichAnswer(c) PROVE IInv'
  BY <1>7, <1>m DEF EnrichAnswer, Gather, End, lists
<1>8. ASSUME NEW c \in Calls, EnrichFails(c) PROVE IInv'
  BY <1>8, <1>m DEF EnrichFails, End, lists
<1>9. ASSUME UNCHANGED <<reads, lists>> PROVE IInv'
  BY <1>9, <1>m DEF reads, lists
<1>10. ASSUME NEW l \in Lists, TimePasses(l) PROVE IInv'
  BY <1>10, <1>m DEF TimePasses, reads
<1> QED
  BY <1>1, <1>2, <1>3, <1>4, <1>5, <1>6, <1>7, <1>8, <1>9, <1>10 DEF Next, ReadStep, Finished, vars

LEMMA Invariance == Spec => []IInv
<1>1. ClientInv' => ClientTypeOK'
  BY DEF ClientInv
<1> QED
  BY ListInitInv, ListStep, ClientInvariance, <1>1, PTL DEF Spec

\* The variables have their types.
THEOREM TypeCorrect == Spec => []TypeOK
<1>1. IInv => TypeOK
  BY DEF IInv
<1> QED
  BY Invariance, <1>1, PTL

\* A failed read does not become an empty list.
THEOREM ListsHaveAPage == Spec => []AnsweredListsHaveAPage
<1>1. IInv => AnsweredListsHaveAPage
  BY DEF IInv, ListInv
<1> QED
  BY Invariance, <1>1, PTL

-----------------------------------------------------------------------------
(* Reads run out.                                                          *)

Reading == {"listing", "enriching"}

\* A read counts its pages within the limit, and has a GET under way only while
\* it waits for one.
CountInv ==
    \A c \in Calls :
        /\ where[c] = "new" => got[c] = 0
        /\ where[c] = "listing" => got[c] < MaxPages[list[c]]
        /\ where[c] = "enriching" => got[c] \in {0, 1}
        /\ where[c] \notin Reading => pc[c] \in {"idle"} \cup Ended

\* The most steps a GET still has before it: two attempts, each with a refresh
\* that fails, a login and what it brings.
GetLeft(c) ==
    LET first == IF attempt[c] = 1 THEN 6 ELSE 0
    IN  CASE pc[c] = "token"      -> first + 5
          [] pc[c] = "refresh"    -> first + 4
          [] pc[c] = "login"      -> first + 3
          [] pc[c] = "store"      -> first + 2
          [] pc[c] = "get"        -> first + 1
          [] pc[c] = "invalidate" -> 6
          [] OTHER                -> 0

\* The most steps of a list, and of an order's items: with every GET the step
\* that takes its answer.
Most(c) == IF mode = "service" THEN 2 + 12 * MaxPages[list[c]] ELSE 25

\* The most steps a read still has before it.
ReadLeft(c) ==
    CASE where[c] = "new"       -> Most(c)
      [] where[c] = "listing"   -> 2 + 12 * (MaxPages[list[c]] - got[c] - 1) + GetLeft(c)
      [] where[c] = "enriching" -> 1 + 12 * (1 - got[c]) + GetLeft(c)
      [] where[c] = "storing"   -> 1
      [] OTHER                  -> 0

ReadsAreBounded == \A c \in Calls : ReadLeft(c) \in 0..Most(c)

Advances(c) == ReadCached(c) \/ StartList(c) \/ TakeSlot(c) \/ ReadStep(c)

\* Neither another read nor the server sends a read back; each step of its own,
\* failed or not, is one less.
ReadsDescend ==
    \A c \in Calls : /\ ReadLeft(c)' <= ReadLeft(c)
                     /\ Advances(c) => ReadLeft(c)' < ReadLeft(c)

\* A step of a GET is one less of it and leaves the other calls alone.
LEMMA GetDescends ==
    ASSUME ClientTypeOK, NEW c \in Calls, CallStep(c)
    PROVE  /\ GetLeft(c)' < GetLeft(c) /\ GetLeft(c) \in 1..11 /\ GetLeft(c)' \in 0..11
           /\ pc[c] \notin {"idle"} \cup Ended
           /\ \A d \in Calls \ {c} : pc'[d] = pc[d] /\ attempt'[d] = attempt[d]
<1> USE DEF GetLeft, ClientTypeOK, Goto, Locked, Ended
<1>1. CASE TokenCached(c) \/ Reauthenticate(c)
  BY <1>1 DEF TokenCached, Reauthenticate
<1>2. CASE RefreshFails(c) \/ Issue(c)
  BY <1>2 DEF RefreshFails, Issue
<1>3. CASE StoreToken(c) \/ LoginFails(c)
  BY <1>3 DEF StoreToken, LoginFails
<1>4. CASE GetOk(c) \/ GetFails(c)
  BY <1>4 DEF GetOk, GetFails
<1>5. CASE GetUnauthorized(c)
  BY <1>5 DEF GetUnauthorized
<1>6. CASE Invalidate(c)
  BY <1>6 DEF Invalidate
<1> QED
  BY <1>1, <1>2, <1>3, <1>4, <1>5, <1>6 DEF CallStep

\* What a GET has before it when it is called, and when it is not under way.
LEMMA CallLeft ==
    ASSUME ClientTypeOK, NEW c \in Calls
    PROVE  /\ Call(c) => /\ GetLeft(c)' = 11 /\ GetLeft(c) = 0 /\ pc'[c] = "token"
                         /\ \A d \in Calls \ {c} : pc'[d] = pc[d] /\ attempt'[d] = attempt[d]
           /\ pc[c] \in {"idle"} \cup Ended => GetLeft(c) = 0
           /\ GetLeft(c) \in 0..11
BY DEF GetLeft, Call, ClientTypeOK, Goto, Locked, Ended

\* Each place a read can be in has its number.
LEMMA ReadByPlace ==
    ASSUME NEW c \in Calls
    PROVE  /\ where[c] = "new" => ReadLeft(c) = Most(c)
           /\ where[c] = "listing" => ReadLeft(c) = 2 + 12 * (MaxPages[list[c]] - got[c] - 1) + GetLeft(c)
           /\ where[c] = "enriching" => ReadLeft(c) = 1 + 12 * (1 - got[c]) + GetLeft(c)
           /\ where[c] = "storing" => ReadLeft(c) = 1
           /\ where[c] \in {"done", "error"} => ReadLeft(c) = 0
BY DEF ReadLeft

\* The same of the state after a step.
LEMMA ReadByNextPlace ==
    ASSUME NEW c \in Calls
    PROVE  /\ where'[c] = "new" => ReadLeft(c)' = Most(c)'
           /\ where'[c] = "listing" => ReadLeft(c)' = 2 + 12 * (MaxPages[list'[c]] - got'[c] - 1) + GetLeft(c)'
           /\ where'[c] = "enriching" => ReadLeft(c)' = 1 + 12 * (1 - got'[c]) + GetLeft(c)'
           /\ where'[c] = "storing" => ReadLeft(c)' = 1
           /\ where'[c] \in {"done", "error"} => ReadLeft(c)' = 0
BY DEF ReadLeft

\* What stands still leaves a read its number.
LEMMA ReadStands ==
    ASSUME NEW c \in Calls, mode' = mode, pc'[c] = pc[c], attempt'[c] = attempt[c],
           where'[c] = where[c], list'[c] = list[c], got'[c] = got[c]
    PROVE  ReadLeft(c)' = ReadLeft(c) /\ Most(c)' = Most(c)
BY DEF ReadLeft, GetLeft, Most

\* A client stays what it was configured to be.
LEMMA ModeKept == [Next]_vars => mode' = mode
BY ReadsUseTheClient
DEF ClientStep, ClientNext, CallStep, ServerStep, Call, TokenCached, Reauthenticate, RefreshFails, Issue,
    StoreToken, LoginFails, GetOk, GetFails, GetUnauthorized, Invalidate, Revoke, GrowStale, clientVars

\* A step of a read is one less of it, keeps count, and leaves the others alone.
LEMMA OwnStepDescends ==
    ASSUME TypeOK, CountInv, NEW c \in Calls, Advances(c)
    PROVE  /\ ReadLeft(c)' < ReadLeft(c)
           /\ list' = list
           /\ \A d \in Calls \ {c} : /\ pc'[d] = pc[d] /\ attempt'[d] = attempt[d]
                                     /\ where'[d] = where[d] /\ got'[d] = got[d]
           /\ where'[c] = "new" => got'[c] = 0
           /\ where'[c] = "listing" => got'[c] < MaxPages[list'[c]]
           /\ where'[c] = "enriching" => got'[c] \in {0, 1}
           /\ where'[c] \notin Reading => pc'[c] \in {"idle"} \cup Ended
<1> DEFINE limit == MaxPages[list[c]]
<1>t. /\ where \in [Calls -> {"new", "listing", "storing", "enriching", "done", "error"}]
      /\ list \in [Calls -> Lists] /\ got \in [Calls -> Nat] /\ ClientTypeOK
      /\ limit \in Nat \ {0} /\ Most(c) \in Nat \ {0}
      /\ mode = "service" => Most(c) = 2 + 12 * limit
      /\ mode # "service" => Most(c) = 25
  BY ReadsAssumption DEF TypeOK, Most
<1>g. /\ GetLeft(c) \in 0..11
      /\ pc[c] \in {"idle"} \cup Ended => GetLeft(c) = 0
  BY <1>t, CallLeft
<1>c. /\ where[c] = "new" => got[c] = 0
      /\ where[c] = "listing" => got[c] < limit
      /\ where[c] = "enriching" => got[c] \in {0, 1}
      /\ where[c] \notin Reading => pc[c] \in {"idle"} \cup Ended
  BY DEF CountInv
<1>1. CASE ReadCached(c)
  BY <1>t, <1>c, <1>1, ReadByPlace, ReadByNextPlace
  DEF ReadCached, Gather, End, lists, clientVars, calls, Reading
<1>2. CASE StartList(c) \/ TakeSlot(c)
  <2>1. Call(c) /\ where[c] = "new" /\ UNCHANGED <<list, got>>
    BY <1>2 DEF StartList, TakeSlot
  <2>2. \/ mode = "service" /\ where' = [where EXCEPT ![c] = "listing"]
        \/ mode # "service" /\ where' = [where EXCEPT ![c] = "enriching"]
    BY <1>2 DEF StartList, TakeSlot, End
  <2>3. GetLeft(c)' = 11 /\ got[c] = 0
    BY <1>t, <1>c, <2>1, CallLeft
  <2>4. ReadLeft(c)' < ReadLeft(c)
    BY <1>t, <2>1, <2>2, <2>3, ReadByPlace, ReadByNextPlace
  <2> QED
    BY <1>t, <2>1, <2>2, <2>3, <2>4, CallLeft DEF Reading
<1>3. CASE CallStep(c) /\ UNCHANGED <<reads, lists>>
  <2>1. UNCHANGED <<where, list, got>>
    BY <1>3 DEF reads
  <2>2. /\ GetLeft(c)' < GetLeft(c) /\ GetLeft(c)' \in 0..11
        /\ pc[c] \notin {"idle"} \cup Ended
        /\ \A d \in Calls \ {c} : pc'[d] = pc[d] /\ attempt'[d] = attempt[d]
    BY <1>t, <1>3, GetDescends
  <2>3. where[c] \in {"listing", "enriching"}
    BY <1>c, <2>2 DEF Reading
  <2>4. ReadLeft(c)' < ReadLeft(c)
    <3>1. CASE where[c] = "listing"
      BY <1>t, <1>g, <2>1, <2>2, <3>1, ReadByPlace, ReadByNextPlace
    <3>2. CASE where[c] = "enriching"
      BY <1>t, <1>g, <2>1, <2>2, <3>2, ReadByPlace, ReadByNextPlace
    <3> QED BY <2>3, <3>1, <3>2
  <2> QED
    BY <1>c, <2>1, <2>2, <2>3, <2>4 DEF Reading
<1>4. CASE ListPage(c)
  <2>1. /\ where[c] = "listing" /\ GetLeft(c) = 0 /\ list' = list /\ pc[c] \in Ended
        /\ got' = [got EXCEPT ![c] = got[c] + 1]
    BY <1>g, <1>4 DEF ListPage, Gather, Ended
  <2>2. got'[c] = got[c] + 1 /\ got[c] < limit
    BY <1>t, <1>c, <2>1
  <2>3. CASE Call(c) /\ UNCHANGED where /\ got'[c] < MaxPages[list[c]]
    <3>1. GetLeft(c)' = 11 /\ \A d \in Calls \ {c} : pc'[d] = pc[d] /\ attempt'[d] = attempt[d]
      BY <1>t, <2>3, CallLeft
    <3>2. ReadLeft(c)' < ReadLeft(c)
      BY <1>t, <2>1, <2>2, <2>3, <3>1, ReadByPlace, ReadByNextPlace
    <3> QED
      BY <1>t, <2>1, <2>2, <2>3, <3>1, <3>2 DEF Reading
  <2>4. CASE End(c, "storing") /\ UNCHANGED clientVars
    <3>1. ReadLeft(c)' = 1
      BY <1>t, <2>4, ReadByNextPlace DEF End
    <3>2. ReadLeft(c)' < ReadLeft(c)
      BY <1>t, <2>1, <2>2, <3>1, ReadByPlace
    <3> QED
      BY <1>t, <2>1, <2>4, <3>2 DEF End, Reading, clientVars, calls
  <2> QED
    BY <1>4, <2>3, <2>4 DEF ListPage
<1>5. CASE ListFails(c) \/ EnrichFails(c)
  <2>1. /\ where[c] \in Reading /\ GetLeft(c) = 0 /\ UNCHANGED <<list, got, pc, attempt>>
        /\ pc[c] \in Ended
    BY <1>g, <1>5 DEF ListFails, EnrichFails, GetFailed, clientVars, calls, Ended, Reading
  <2>2. \/ where' = [where EXCEPT ![c] = "error"]
        \/ where' = [where EXCEPT ![c] = "storing"]
        \/ where' = [where EXCEPT ![c] = "done"]
    BY <1>5 DEF ListFails, EnrichFails, End
  <2>3. ReadLeft(c)' = 0 \/ (where[c] = "listing" /\ ReadLeft(c)' = 1)
    <3>1. where[c] = "listing" \/ where' = [where EXCEPT ![c] = "done"]
      BY <1>5 DEF ListFails, EnrichFails, End
    <3> QED
      BY <1>t, <2>2, <3>1, ReadByNextPlace
  <2>4. ReadLeft(c) >= IF where[c] = "listing" THEN 2 ELSE 1
    <3>1. CASE where[c] = "listing"
      BY <1>t, <1>c, <2>1, <3>1, ReadByPlace
    <3>2. CASE where[c] = "enriching"
      BY <1>t, <1>c, <2>1, <3>2, ReadByPlace
    <3> QED BY <2>1, <3>1, <3>2 DEF Reading
  <2>5. ReadLeft(c)' < ReadLeft(c)
    <3>1. ReadLeft(c) \in Int
      BY <1>t, <1>c, <1>g, <2>1, ReadByPlace DEF Reading
    <3> QED
      BY <2>3, <2>4, <3>1
  <2> QED
    BY <1>t, <2>1, <2>2, <2>5 DEF Reading
<1>6. CASE StoreList(c)
  <2>1. where[c] = "storing" /\ where' = [where EXCEPT ![c] = "done"]
        /\ UNCHANGED <<list, got, pc, attempt>>
    BY <1>6 DEF StoreList, End, clientVars, calls
  <2>2. ReadLeft(c) = 1 /\ ReadLeft(c)' = 0
    BY <1>t, <2>1, ReadByPlace, ReadByNextPlace
  <2> QED
    BY <1>t, <1>c, <2>1, <2>2 DEF Reading
<1>7. CASE EnrichAnswer(c)
  <2>1. /\ where[c] = "enriching" /\ GetLeft(c) = 0 /\ list' = list /\ pc[c] \in Ended
    BY <1>g, <1>7 DEF EnrichAnswer, Ended
  <2>2. CASE End(c, "done") /\ UNCHANGED clientVars /\ \A d \in Calls \ {c} : got'[d] = got[d]
    <3>1. ReadLeft(c)' = 0
      BY <1>t, <2>2, ReadByNextPlace DEF End
    <3>2. ReadLeft(c)' < ReadLeft(c)
      BY <1>t, <1>c, <2>1, <3>1, ReadByPlace
    <3> QED
      BY <1>t, <2>1, <2>2, <3>2 DEF End, Reading, clientVars, calls
  <2>3. CASE got[c] = 0 /\ Gather(c, 1) /\ Call(c) /\ UNCHANGED where
    <3>1. GetLeft(c)' = 11 /\ \A d \in Calls \ {c} : pc'[d] = pc[d] /\ attempt'[d] = attempt[d]
      BY <1>t, <2>3, CallLeft
    <3>2. got'[c] = 1
      BY <1>t, <2>3 DEF Gather
    <3>3. ReadLeft(c)' < ReadLeft(c)
      BY <2>1, <2>3, <3>1, <3>2, ReadByPlace, ReadByNextPlace
    <3> QED
      BY <1>t, <2>1, <2>3, <3>1, <3>2, <3>3 DEF Gather, Reading
  <2> QED
    BY <1>t, <1>7, <2>2, <2>3 DEF EnrichAnswer, Gather
<1> QED
  BY <1>1, <1>2, <1>3, <1>4, <1>5, <1>6, <1>7 DEF Advances, ReadStep

\* Whatever else happens leaves every read where it is.
LEMMA OtherStepsLeave ==
    ASSUME [Next]_vars, ~\E c \in Calls : Advances(c)
    PROVE  UNCHANGED <<mode, pc, attempt, where, list, got>>
BY DEF Next, Advances, ServerStep, Revoke, GrowStale, TimePasses, Finished, reads, lists, vars, clientVars, calls

\* No read goes round in circles, however many calls share the client, whatever
\* they do to its token and whatever fails: a list takes at most 12 steps for
\* each page it may ask for and two more, the items of an order at most 25.
THEOREM ReadsRunOut == Spec => []ReadsAreBounded /\ [][ReadsDescend]_vars
<1>1. Init => CountInv /\ ReadsAreBounded
  <2> SUFFICES ASSUME Init, NEW c \in Calls
               PROVE  /\ where[c] = "new" /\ got[c] = 0 /\ pc[c] = "idle"
                      /\ ReadLeft(c) \in 0..Most(c)
    BY DEF CountInv, ReadsAreBounded, Reading
  <2>1. where[c] = "new" /\ got[c] = 0 /\ pc[c] = "idle" /\ Most(c) \in Nat
    BY ReadsAssumption DEF Init, ClientInit, Most
  <2> QED
    BY <2>1, ReadByPlace
<1>2. TypeOK' /\ CountInv' => \A c \in Calls : ReadLeft(c)' \in Nat
  <2> SUFFICES ASSUME TypeOK', CountInv', NEW c \in Calls PROVE ReadLeft(c)' \in Nat
    OBVIOUS
  <2>1. /\ where'[c] \in {"new", "listing", "storing", "enriching", "done", "error"}
        /\ got'[c] \in Nat /\ MaxPages[list'[c]] \in Nat \ {0} /\ ClientTypeOK'
        /\ Most(c)' \in Nat
    BY ReadsAssumption DEF TypeOK, Most
  <2>2. GetLeft(c)' \in 0..11
    BY <2>1 DEF GetLeft, ClientTypeOK
  <2> QED
    BY <2>1, <2>2, ReadByNextPlace DEF CountInv
<1>3. TypeOK /\ TypeOK' /\ CountInv /\ [Next]_vars => CountInv' /\ [ReadsDescend]_vars /\ list' = list /\ mode' = mode
  <2> SUFFICES ASSUME TypeOK, TypeOK', CountInv, [Next]_vars
               PROVE  CountInv' /\ ReadsDescend /\ list' = list /\ mode' = mode
    OBVIOUS
  <2>m. mode' = mode
    BY ModeKept
  <2>n. \A c \in Calls : ReadLeft(c) \in Nat
    <3> SUFFICES ASSUME NEW c \in Calls PROVE ReadLeft(c) \in Nat
      OBVIOUS
    <3>1. /\ where[c] \in {"new", "listing", "storing", "enriching", "done", "error"}
          /\ got[c] \in Nat /\ MaxPages[list[c]] \in Nat \ {0}
          /\ GetLeft(c) \in 0..11 /\ Most(c) \in Nat
      BY ReadsAssumption, CallLeft DEF TypeOK, Most
    <3>2. /\ where[c] = "listing" => MaxPages[list[c]] - got[c] - 1 \in Nat
          /\ where[c] = "enriching" => 1 - got[c] \in Nat
      BY <3>1 DEF CountInv
    <3> QED
      BY <3>1, <3>2, ReadByPlace
  <2>1. CASE \E c \in Calls : Advances(c)
    <3> PICK c \in Calls : Advances(c)
      BY <2>1
    <3>1. CountInv'
      <4> SUFFICES ASSUME NEW d \in Calls
                   PROVE  /\ where'[d] = "new" => got'[d] = 0
                          /\ where'[d] = "listing" => got'[d] < MaxPages[list'[d]]
                          /\ where'[d] = "enriching" => got'[d] \in {0, 1}
                          /\ where'[d] \notin Reading => pc'[d] \in {"idle"} \cup Ended
        BY DEF CountInv
      <4>1. CASE d = c
        BY <4>1, OwnStepDescends
      <4>2. CASE d # c
        BY <4>2, OwnStepDescends DEF CountInv
      <4> QED BY <4>1, <4>2
    <3>2. \A d \in Calls \ {c} : ReadLeft(d)' = ReadLeft(d)
      BY <2>m, OwnStepDescends, ReadStands
    <3>3. \A d \in Calls \ {c} : ~Advances(d)
      <4> SUFFICES ASSUME NEW d \in Calls \ {c}, Advances(d) PROVE FALSE
        OBVIOUS
      <4>1. ReadLeft(d)' < ReadLeft(d)
        BY OwnStepDescends
      <4> QED
        BY <2>n, <3>2, <4>1
    <3>4. ReadLeft(c)' < ReadLeft(c) /\ list' = list
      BY OwnStepDescends
    <3>5. ReadLeft(c)' <= ReadLeft(c)
      BY <1>2, <2>n, <3>1, <3>4
    <3> QED
      BY <2>m, <2>n, <3>1, <3>2, <3>3, <3>4, <3>5 DEF ReadsDescend
  <2>2. CASE ~\E c \in Calls : Advances(c)
    <3>1. UNCHANGED <<mode, pc, attempt, where, list, got>>
      BY <2>2, OtherStepsLeave
    <3>2. \A c \in Calls : ReadLeft(c)' = ReadLeft(c)
      BY <3>1, ReadStands
    <3> QED
      BY <2>n, <2>2, <3>1, <3>2 DEF CountInv, ReadsDescend
  <2> QED
    BY <2>1, <2>2
<1>4. ReadsAreBounded /\ TypeOK' /\ CountInv' /\ [ReadsDescend]_vars
      /\ list' = list /\ mode' = mode => ReadsAreBounded'
  <2> SUFFICES ASSUME ReadsAreBounded, TypeOK', CountInv', [ReadsDescend]_vars,
                      list' = list, mode' = mode, NEW c \in Calls
               PROVE  ReadLeft(c)' \in 0..Most(c)'
    BY DEF ReadsAreBounded
  <2>1. /\ ReadLeft(c) \in 0..Most(c) /\ ReadLeft(c)' \in Nat
        /\ Most(c)' = Most(c) /\ Most(c)' \in Nat
    BY <1>2, ReadsAssumption DEF ReadsAreBounded, TypeOK, Most
  <2>2. ReadLeft(c)' <= ReadLeft(c)
    <3>1. CASE ReadsDescend
      BY <3>1 DEF ReadsDescend
    <3>2. CASE UNCHANGED vars
      BY <2>1, <3>2, ReadStands DEF vars, reads, clientVars, calls
    <3> QED BY <3>1, <3>2
  <2> QED
    BY <2>1, <2>2
<1> QED
  BY <1>1, <1>3, <1>4, TypeCorrect, PTL DEF Spec

=============================================================================
