------------------------------ MODULE LLMChain ------------------------------
(***************************************************************************)
(* ChainedClient: the failover chain every model call goes through.        *)
(*                                                                         *)
(* Concurrent calls to Complete compete for a bounded number of slots,     *)
(* then try the providers in order and end in the rules fallback.  Each    *)
(* call has the deadline of its request.  The provider client is the       *)
(* Anthropic one: it sends a temperature until the model has rejected it   *)
(* once.  Token usage is recorded by a detached goroutine per answer.      *)
(***************************************************************************)
EXTENDS Naturals, FiniteSets

CONSTANTS
    Calls,          \* calls to Complete
    MaxConcurrent,  \* AI_MAX_CONCURRENT; 0 means no cap
    Providers,      \* the chain is 1..Providers
    Configured,     \* the providers that are Available
    Picky,          \* the providers whose model rejects a temperature
    HasFallback     \* the chain ends in the rules client

ASSUME ChainAssumption ==
    /\ IsFiniteSet(Calls)
    /\ MaxConcurrent \in Nat
    /\ Providers \in Nat
    /\ Configured \subseteq 1..Providers
    /\ Picky \subseteq 1..Providers
    /\ HasFallback \in BOOLEAN

VARIABLES
    slots,         \* tokens in the slots channel
    pc,            \* where each call is
    at,            \* the provider it is at
    temperature,   \* its request carries a temperature
    expired,       \* the calls whose context is done
    noTemperature, \* providers known to reject a temperature
    result,        \* what Complete returned
    usage          \* usage records: none, on their way, stored or dropped

vars == <<slots, pc, at, temperature, expired, noTemperature, result, usage>>

Holding == {"choosing", "posting"}
Labels  == {"new", "waiting", "returned"} \cup Holding
Results == {"none", "model", "degraded", "error"}

TypeOK ==
    /\ slots \in Nat
    /\ pc \in [Calls -> Labels]
    /\ at \in [Calls -> 0..(Providers + 1)]
    /\ temperature \in [Calls -> BOOLEAN]
    /\ expired \subseteq Calls
    /\ noTemperature \subseteq 1..Providers
    /\ result \in [Calls -> Results]
    /\ usage \in [Calls -> {"none", "pending", "stored", "dropped"}]

Init ==
    /\ slots = 0
    /\ pc = [c \in Calls |-> "new"]
    /\ at = [c \in Calls |-> 0]
    /\ temperature = [c \in Calls |-> FALSE]
    /\ expired = {}
    /\ noTemperature = {}
    /\ result = [c \in Calls |-> "none"]
    /\ usage = [c \in Calls |-> "none"]

Capped == MaxConcurrent > 0

\* The deferred release, for a call that leaves with result v.
Release == slots' = IF Capped THEN slots - 1 ELSE slots

Return(c, v) ==
    /\ pc' = [pc EXCEPT ![c] = "returned"]
    /\ result' = [result EXCEPT ![c] = v]

-----------------------------------------------------------------------------
(* acquire                                                                 *)

Start(c) ==
    /\ pc[c] = "new"
    /\ pc' = [pc EXCEPT ![c] = IF Capped THEN "waiting" ELSE "choosing"]
    /\ UNCHANGED <<slots, at, temperature, expired, noTemperature, result, usage>>

Acquire(c) ==
    /\ pc[c] = "waiting"
    /\ slots < MaxConcurrent
    /\ slots' = slots + 1
    /\ pc' = [pc EXCEPT ![c] = "choosing"]
    /\ UNCHANGED <<at, temperature, expired, noTemperature, result, usage>>

\* Mutant: release deferred before the slot was taken.
GiveUpAndRelease(c) ==
    /\ pc[c] = "waiting"
    /\ c \in expired
    /\ Return(c, "error")
    /\ Release
    /\ UNCHANGED <<at, temperature, expired, noTemperature, usage>>

\* ctx.Done() while waiting; with a slot free as well, select takes either.
GiveUp(c) ==
    /\ pc[c] = "waiting"
    /\ c \in expired
    /\ Return(c, "error")
    /\ UNCHANGED <<slots, at, temperature, expired, noTemperature, usage>>

-----------------------------------------------------------------------------
(* Complete, with a slot                                                   *)

\* The loop over the chain skips providers that are not configured.
IsNext(c, p) ==
    /\ p > at[c]
    /\ \A q \in Configured : q > at[c] => p <= q

TakesTemperature(p) == p \notin noTemperature

\* The next provider that can serve; its request carries a temperature unless
\* that provider is known to reject one.
Choose(c) ==
    /\ pc[c] = "choosing"
    /\ \E p \in Configured :
          /\ IsNext(c, p)
          /\ at' = [at EXCEPT ![c] = p]
          /\ temperature' = [temperature EXCEPT ![c] = TakesTemperature(p)]
    /\ pc' = [pc EXCEPT ![c] = "posting"]
    /\ UNCHANGED <<slots, expired, noTemperature, result, usage>>

ProviderAnswers(c) ==
    /\ pc[c] = "posting"
    /\ c \notin expired
    /\ ~(temperature[c] /\ at[c] \in Picky)
    /\ Return(c, "model")
    /\ Release
    /\ usage' = [usage EXCEPT ![c] = "pending"]
    /\ UNCHANGED <<at, temperature, expired, noTemperature>>

\* Mutant: the chain is tried again from its start.
ProviderFailsAndRestarts(c) ==
    /\ pc[c] = "posting"
    /\ pc' = [pc EXCEPT ![c] = "choosing"]
    /\ at' = [at EXCEPT ![c] = 0]
    /\ UNCHANGED <<slots, temperature, expired, noTemperature, result, usage>>

\* Mutant: a call whose deadline passes at a provider is given up.
ProviderFailsForGood(c) ==
    /\ pc[c] = "posting"
    /\ IF c \in expired
       THEN Return(c, "error") /\ Release
       ELSE pc' = [pc EXCEPT ![c] = "choosing"] /\ UNCHANGED <<slots, result>>
    /\ UNCHANGED <<at, temperature, expired, noTemperature, usage>>

\* Any error, an empty completion, or the deadline.
ProviderFails(c) ==
    /\ pc[c] = "posting"
    /\ pc' = [pc EXCEPT ![c] = "choosing"]
    /\ UNCHANGED <<slots, at, temperature, expired, noTemperature, result, usage>>

\* A 400 about the temperature: remember it and post again without one.
RejectTemperature(c) ==
    /\ pc[c] = "posting"
    /\ c \notin expired
    /\ temperature[c]
    /\ at[c] \in Picky
    /\ noTemperature' = noTemperature \cup {at[c]}
    /\ temperature' = [temperature EXCEPT ![c] = FALSE]
    /\ UNCHANGED <<slots, pc, at, expired, result, usage>>

FallBack(c) ==
    /\ pc[c] = "choosing"
    /\ \A p \in Configured : p <= at[c]
    /\ Return(c, IF HasFallback THEN "degraded" ELSE "error")
    /\ Release
    /\ UNCHANGED <<at, temperature, expired, noTemperature, usage>>

-----------------------------------------------------------------------------
(* recordUsage's goroutine, and deadlines                                  *)

RecordUsage(c) ==
    /\ usage[c] = "pending"
    /\ \E outcome \in {"stored", "dropped"} : usage' = [usage EXCEPT ![c] = outcome]
    /\ UNCHANGED <<slots, pc, at, temperature, expired, noTemperature, result>>

\* The deadline passes, or the caller is done and cancels.
Expire(c) ==
    /\ pc[c] # "new"
    /\ c \notin expired
    /\ expired' = expired \cup {c}
    /\ UNCHANGED <<slots, pc, at, temperature, noTemperature, result, usage>>

Finished == (\A c \in Calls : pc[c] = "returned" /\ usage[c] # "pending") /\ UNCHANGED vars

Step(c) ==
    \/ Start(c) \/ Acquire(c) \/ GiveUp(c) \/ Choose(c)
    \/ ProviderAnswers(c) \/ ProviderFails(c) \/ RejectTemperature(c) \/ FallBack(c)

Next ==
    \/ \E c \in Calls : Step(c) \/ RecordUsage(c) \/ Expire(c)
    \/ Finished

Spec == Init /\ [][Next]_vars

\* Goroutines run, http.Client has a timeout, and every request context has a
\* deadline that passes.
FairSpec ==
    /\ Spec
    /\ \A c \in Calls : WF_vars(Step(c)) /\ WF_vars(Expire(c))

-----------------------------------------------------------------------------
(* Properties                                                              *)

Holders == {c \in Calls : pc[c] \in Holding}

\* Every token in the channel is held by a call that will take it out, and no
\* more calls reach a provider than the limit allows: no path out of Complete
\* keeps a slot, or gives one back twice.
SlotsAreHeld ==
    Capped => slots = Cardinality(Holders) /\ slots <= MaxConcurrent

\* Usage is accounted for exactly those calls a real model answered, once they
\* have returned, whatever became of the caller's context.
UsageOfModelAnswersOnly ==
    \A c \in Calls : usage[c] # "none" <=> result[c] = "model"

\* A provider known to reject temperatures is not sent one by a call that comes
\* to it later; a call that was under way repeats its request once at most.
TemperatureDroppedForGood ==
    [][/\ noTemperature \subseteq noTemperature'
       /\ \A c \in Calls : temperature'[c] /\ ~temperature[c] =>
              at'[c] \notin noTemperature /\ at'[c] # at[c]]_vars

\* Complete always comes back: a call that waits for a slot, or goes down the
\* chain, neither starves nor loops.
EveryCallReturns == \A c \in Calls : pc[c] # "new" ~> pc[c] = "returned"

\* Once a call has a slot it brings a reply, however many providers fail and
\* whenever its deadline passes.  With the rules client in place an error is for
\* the caller only whose deadline passed before it had a slot, as acquire's
\* comment wants it (chained.go:57-59).
OnlyShedCallsFail ==
    HasFallback => \A c \in Calls : result[c] = "error" => c \in expired /\ at[c] = 0 /\ Capped

=============================================================================
