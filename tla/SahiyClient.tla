----------------------------- MODULE SahiyClient -----------------------------
(***************************************************************************)
(* An authenticated client of the Sahiy API: Client over ServiceUserAuth,  *)
(* or AdminClient over AdminAuth.                                          *)
(*                                                                         *)
(* Callers share one cached token.  Token holds the mutex for as long as   *)
(* it refreshes or logs in; a GET holds nothing.  A GET answered with 401  *)
(* invalidates the cache and is repeated once.  The server is external: it *)
(* issues tokens 1, 2, ... and may revoke any of them at any time.         *)
(***************************************************************************)
EXTENDS Naturals, FiniteSets

CONSTANTS
    Calls,          \* callers of GetJSON, each with one request at a time
    Nobody,         \* holder of the free mutex
    Modes,          \* the clients to consider, out of ClientModes
    MaxRevocations, \* tokens that expire on the server or are revoked
    MaxFaults       \* requests that fail otherwise

\* ServiceUserAuth; AdminAuth with a name and password; AdminAuth with a configured
\* token.  HasAdminAPI rules out an AdminAuth with neither.
ClientModes == {"service", "admin", "static"}

ASSUME ClientAssumption ==
    /\ Nobody \notin Calls
    /\ Modes \subseteq ClientModes
    /\ MaxRevocations \in Nat
    /\ MaxFaults \in Nat

VARIABLES
    mode,        \* which client this is
    mutex,       \* who holds it
    cache,       \* the cached token, or {} for nil
    refreshable, \* {} or the cached token, if it came with a refresh token
    stale,       \* {} or the cached token, if within the buffer before its expiry
    issued,      \* how many tokens the server issued and the client got
    revoked,     \* the tokens it does not accept any more
    pc,          \* where each call is
    answer,      \* the token its refresh or login brought
    token,       \* the token it sends
    attempt,     \* its first or second GET
    rejected,    \* history: the token its first GET was refused with
    faults

auth   == <<mutex, cache, refreshable, stale>>
server == <<issued, revoked>>
calls  == <<pc, answer, token, attempt, rejected>>
clientVars == <<mode, auth, server, calls, faults>>

\* The configured admin token, issued by nobody.
Static == 0
Tokens == {Static} \cup 1..issued

Locked == {"refresh", "login", "store"}
Ended  == {"ok", "failed", "unauthorized"}

ClientTypeOK ==
    /\ mode \in ClientModes
    /\ mutex \in Calls \cup {Nobody}
    /\ cache \subseteq 1..issued
    /\ refreshable \subseteq cache
    /\ stale \subseteq cache
    /\ issued \in Nat
    /\ revoked \subseteq Tokens
    /\ pc \in [Calls -> {"idle", "token", "get", "invalidate"} \cup Locked \cup Ended]
    /\ answer \in [Calls -> Tokens]
    /\ token \in [Calls -> Tokens]
    /\ attempt \in [Calls -> {1, 2}]
    /\ rejected \in [Calls -> Tokens]
    /\ faults \in 0..MaxFaults

ClientInit ==
    /\ mode \in Modes
    /\ mutex = Nobody
    /\ cache = {}
    /\ refreshable = {}
    /\ stale = {}
    /\ issued = 0
    /\ revoked = {}
    /\ pc = [c \in Calls |-> "idle"]
    /\ answer = [c \in Calls |-> Static]
    /\ token = [c \in Calls |-> Static]
    /\ attempt = [c \in Calls |-> 1]
    /\ rejected = [c \in Calls |-> Static]
    /\ faults = 0

\* Mutant: no lock.
NoLock == TRUE

Unlocked == mutex = Nobody

Goto(c, label) == pc' = [pc EXCEPT ![c] = label]

-----------------------------------------------------------------------------
(* Token                                                                   *)

\* GetJSON is called.
Call(c) ==
    /\ pc[c] \in {"idle"} \cup Ended
    /\ Goto(c, "token")
    /\ attempt' = [attempt EXCEPT ![c] = 1]
    /\ rejected' = [rejected EXCEPT ![c] = Static]
    /\ UNCHANGED <<mode, auth, server, answer, token, faults>>

Usable == cache \ stale

\* A cached token, or the configured one, which needs no lock.
TokenCached(c) ==
    /\ pc[c] = "token"
    /\ \/ mode = "static" /\ token' = [token EXCEPT ![c] = Static]
       \/ /\ mode # "static"
          /\ Unlocked
          /\ \E t \in Usable : token' = [token EXCEPT ![c] = t]
    /\ Goto(c, "get")
    /\ UNCHANGED <<mode, auth, server, answer, attempt, rejected, faults>>

\* The mutex is taken for the requests that follow.
Reauthenticate(c) ==
    /\ pc[c] = "token"
    /\ mode # "static"
    /\ Unlocked
    /\ Usable = {}
    /\ mutex' = c
    /\ Goto(c, IF mode = "service" /\ refreshable # {} THEN "refresh" ELSE "login")
    /\ UNCHANGED <<mode, cache, refreshable, stale, server, answer, token, attempt, rejected, faults>>

\* The refresh is refused or its answer lost: log in, still under the lock.
RefreshFails(c) ==
    /\ pc[c] = "refresh"
    /\ Goto(c, "login")
    /\ UNCHANGED <<mode, auth, server, answer, token, attempt, rejected, faults>>

\* The server grants a refresh or a login.
Issue(c) ==
    /\ pc[c] \in {"refresh", "login"}
    /\ issued' = issued + 1
    /\ answer' = [answer EXCEPT ![c] = issued']
    /\ Goto(c, "store")
    /\ UNCHANGED <<mode, auth, revoked, token, attempt, rejected, faults>>

\* The answer is cached and returned, and the mutex unlocked.  It may have come
\* without a refresh token.
StoreToken(c) ==
    /\ pc[c] = "store"
    /\ cache' = {answer[c]}
    /\ refreshable' \in {{}, cache'}
    /\ stale' = {}
    /\ token' = [token EXCEPT ![c] = answer[c]]
    /\ answer' = [answer EXCEPT ![c] = Static]
    /\ mutex' = Nobody
    /\ Goto(c, "get")
    /\ UNCHANGED <<mode, server, attempt, rejected, faults>>

\* Mutant: logs in until it succeeds.
LoginFailsAgain(c) ==
    /\ pc[c] = "login"
    /\ mutex' = Nobody
    /\ Goto(c, "token")
    /\ UNCHANGED <<mode, cache, refreshable, stale, server, answer, token, attempt, rejected, faults>>

\* The login fails or its answer is lost; what is cached stays.
LoginFails(c) ==
    /\ pc[c] = "login"
    /\ faults < MaxFaults
    /\ faults' = faults + 1
    /\ mutex' = Nobody
    /\ Goto(c, "failed")
    /\ UNCHANGED <<mode, cache, refreshable, stale, server, answer, token, attempt, rejected>>

-----------------------------------------------------------------------------
(* GetJSON                                                                 *)

Accepted(c) == token[c] \notin revoked

GetOk(c) ==
    /\ pc[c] = "get"
    /\ Accepted(c)
    /\ Goto(c, "ok")
    /\ UNCHANGED <<mode, auth, server, answer, token, attempt, rejected, faults>>

\* Any other status, a timeout or a body that does not decode.
GetFails(c) ==
    /\ pc[c] = "get"
    /\ faults < MaxFaults
    /\ faults' = faults + 1
    /\ Goto(c, "failed")
    /\ UNCHANGED <<mode, auth, server, answer, token, attempt, rejected>>

\* Mutant: no retry.
GetUnauthorizedOnce(c) ==
    /\ pc[c] = "get"
    /\ ~Accepted(c)
    /\ Goto(c, "unauthorized")
    /\ UNCHANGED <<mode, auth, server, answer, token, attempt, rejected, faults>>

GetUnauthorized(c) ==
    /\ pc[c] = "get"
    /\ ~Accepted(c)
    /\ IF attempt[c] = 1
       THEN Goto(c, "invalidate") /\ rejected' = [rejected EXCEPT ![c] = token[c]]
       ELSE Goto(c, "unauthorized") /\ UNCHANGED rejected
    /\ UNCHANGED <<mode, auth, server, answer, token, attempt, faults>>

\* Mutant: the cache is kept.
KeepCache(c) ==
    /\ pc[c] = "invalidate"
    /\ Unlocked
    /\ attempt' = [attempt EXCEPT ![c] = 2]
    /\ Goto(c, "token")
    /\ UNCHANGED <<mode, auth, server, answer, token, rejected, faults>>

\* Whatever is cached by now goes; a configured token stays.
Invalidate(c) ==
    /\ pc[c] = "invalidate"
    /\ mode = "static" \/ Unlocked
    /\ cache' = {}
    /\ refreshable' = {}
    /\ stale' = {}
    /\ attempt' = [attempt EXCEPT ![c] = 2]
    /\ Goto(c, "token")
    /\ UNCHANGED <<mode, mutex, server, answer, token, rejected, faults>>

-----------------------------------------------------------------------------
(* The server, and time                                                    *)

\* A token comes within the buffer before its expiry; the clients compare clocks.
GrowStale ==
    /\ cache # stale
    /\ stale' = cache
    /\ UNCHANGED <<mode, mutex, cache, refreshable, server, calls, faults>>

InUse ==
    IF mode = "static" THEN {Static}
    ELSE (cache \cup {answer[c] : c \in Calls} \cup {token[c] : c \in Calls}) \ {Static}

\* The server revokes a token somebody has, or lets it expire.
Revoke(t) ==
    /\ Cardinality(revoked) < MaxRevocations
    /\ t \in InUse \ revoked
    /\ revoked' = revoked \cup {t}
    /\ UNCHANGED <<mode, auth, issued, calls, faults>>

CallStep(c) ==
    \/ TokenCached(c) \/ Reauthenticate(c)
    \/ RefreshFails(c) \/ Issue(c) \/ StoreToken(c) \/ LoginFails(c)
    \/ GetOk(c) \/ GetFails(c) \/ GetUnauthorized(c) \/ Invalidate(c)

ServerStep ==
    \/ \E t \in Tokens : Revoke(t)
    \/ GrowStale

ClientNext ==
    \/ \E c \in Calls : Call(c) \/ CallStep(c)
    \/ ServerStep

ClientSpec == ClientInit /\ [][ClientNext]_clientVars

-----------------------------------------------------------------------------
(* Properties                                                              *)

\* "Token was revoked server-side: invalidate, re-authenticate, retry once": the
\* second GET never carries the token the first was refused with, whoever else
\* refreshed, logged in or invalidated in between.
RetriesWithAnotherToken ==
    \A c \in Calls :
        mode # "static" /\ attempt[c] = 2 /\ pc[c] \in {"get", "ok", "unauthorized"}
            => token[c] # rejected[c]

\* A call recovers from a token that was revoked, or expired early: it is refused
\* for good only if the server revoked at least two.
SurvivesOneRevocation ==
    \A c \in Calls :
        mode # "static" /\ pc[c] = "unauthorized" => Cardinality(revoked) >= 2

\* Once a token was handed out, no caller is handed an older one: a slow login
\* does not replace what a later one brought.
HandedOutTokensAdvance ==
    [][\A c \in Calls : token'[c] # token[c] => \A d \in Calls : token[d] <= token'[c]]_clientVars

=============================================================================
