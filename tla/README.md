# Formal models of sahiy-agent

TLA+ specifications of the customer-support agent in this repository, the TLC
configurations that model-check them, and TLAPS proofs of their most important
properties. File and line references are to the repository's root.

    tlc -config ChatTelegram.cfg MCChatSessions     # check one run
    tlapm ChatSessions_proofs.tla                   # check the proofs of one module

## 1. The system

Two programs share one Postgres database: `cmd/api` (HTTP: `POST /process`,
`/faq`, `GET /health`) and `cmd/bot` (Telegram, long polling). Both are wired by
`internal/platform/bootstrap`: connect, migrate, seed the FAQ, build the services.
A customer message takes this way:

    Telegram update / POST /process
      -> channel adapter        (internal/channel/telegram, internal/api/handler)
      -> ReplyService.Reply     (internal/app/chat): resolve the session, append,
           save, identity gate, respond, append, save
      -> RouterResponder        (internal/app/chat, internal/app/router): pick a route
           -> FAQ retrieval, order lookup, catalog, pickup points, support tickets
           -> LLM chain         (internal/infra/llm) and the Sahiy API (internal/infra/sahiy)
      -> delivery               (internal/channel/telegram): placeholder, edit, extras

| Component | State it keeps | Operations | What is hard | What makes it correct |
|---|---|---|---|---|
| Conversation aggregate and repository (`internal/domain/conversation`, `internal/infra/persistence/postgres/conversation_repository.go`) | `chat_sessions`, `messages`; in-memory copies per call | open, load (20 messages), append, close, save | copies are read and written without a lock or version | a turn is stored whole, in one session, of its own user; stored sessions keep their identity |
| Chat use case (`internal/app/chat`) | none between calls | `Reply`, `ResetSession`, `RegisterVerifiedPhone`, `RecordRating` | up to nine database steps per call, interleaved; each may fail; idle rotation in the middle | an answer follows its question; one active session; `/new` starts afresh; calls end |
| Support tickets (`internal/app/support`) | `tickets` | open or remind; close by session | find and insert are separate; closing is best effort | one open ticket per open session |
| Identity gate (`internal/app/identity`, `internal/domain/identity`) | marker messages in the session history | verify a phone or account, append markers | markers live in a bounded window and are messages of the user role like any text | whoever is served on Telegram is named by the transport or by a stored marker |
| Router and responder (`internal/app/router`, `internal/app/chat/router_responder.go`) | none | `Decide`, `dispatch`, the handlers, escalation | a message fits several routes; every outside call may fail, the model included | the precedence of the rules; a placeholder is no answer; what is unsure is handed over |
| Order lookup (`internal/infra/sahiy/customer.go`) | none between calls | find the customer, find a parcel, read five lists | four goroutines, fallbacks, paging; every request may fail | the answer depends on what failed, not on the order of answers |
| Order domain (`internal/domain/order`) | none | list intents, filters, deduplication, estimates, prices, follow-ups | tables in several places that must agree; one parcel under many numbers | no number is listed twice, no parcel is lost, filters and estimates agree, a follow-up is about the number that came last |
| Telegram adapter (`internal/channel/telegram`) | `UserStore`, `RatingScheduler` in memory | handlers of updates, timers | 32 workers; handlers of one customer overlap; contexts end with handlers | memory agrees with the database; a rating is asked for once |
| Telegram delivery and process life (`bot.go`, `delivery.go`, `messenger.go`) | the placeholder's message id | send, edit, retry; drain on shutdown | a request is carried out and its acknowledgement lost; a signal at any moment; handlers run on goroutines nobody waits for | replies are shown, a signal as such ends none, handlers end |
| LLM chain (`internal/infra/llm`) | slots, `noTemperature` | `Complete` | a bounded number of slots, deadlines, failover, detached usage recording | no slot leaks; exact usage; a call that had a slot has a reply |
| FAQ knowledge base, migrations, seed | `faq_embeddings`, `schema_migrations`, id sequence | retrieve, ingest, migrate, seed | two processes start at once | unique ids, idempotent starts |
| Sahiy clients (`internal/infra/sahiy`) | two token caches | token, refresh, login, invalidate | invalidation races with a refresh | a fresh token survives |
| Data caches (`categories.go`, `pickup_points.go`, `exchange/rates.go`) | one value and its date each | read through | slow or partial fetches overwrite | a call's list is usable, calls end |
| HTTP API, configuration, logging, value objects | none | | | |

`PROJECT.json` lists the same components with their status, and the hazards of
the code at the lines where they bite.

## 2. Modules

| Module | Models |
|---|---|
| `Conversations` | the abstract specification of the chat use case: what a call may do to the tables |
| `ChatSessions` | the chat use case over the database: conversation aggregate, repositories, tickets, identity gate; implements `Conversations` |
| `TelegramBot` | the Telegram adapter; EXTENDS `ChatSessions` and drives it |
| `BotLifecycle` | the bot's process: polling, the drain on shutdown, delivery of a reply with retries |
| `LLMChain` | the failover chain |
| `KnowledgeBase` | starts of the programs (migrations, seed) and the FAQ table |
| `SahiyClient` | an authenticated client of the Sahiy API and its token cache |
| `SahiyReads` | cached lists and order enrichment; EXTENDS `SahiyClient` and drives it |
| `OrderRules` | the pure rules of the order domain |
| `SahiyRows` | what Sahiy's endpoints give of a customer: rows, pages, totals, and the answer made of rows |
| `OrderAnswers` | the abstract specification of a lookup: one answer in one step |
| `OrderLookup` | the lookup as the code runs it; implements `OrderAnswers` |
| `Answers` | a turn of the router and responder; EXTENDS `OrderLookup` and drives it |
| `MCChatSessions`, `MCTelegramBot`, `MCLLMChain`, `MCKnowledgeBase`, `MCSahiyReads`, `MCOrderData`, `MCOrderLookup`, `MCAnswers` | model values, inputs and symmetry for TLC |
| `*_proofs` (eight modules) | theorems and proofs |

Definitions introduced by the comment "Mutant" belong to no specification: each is
a plausible bug in the definition that follows it, and shows that a property
notices it when it takes that definition's place.

### ChatSessions

Each handler call is a request `r` with a program counter `pc[r]`, the command it
serves `cmd[r]` and its own copy of a session `mem[r]`; the tables `sessions`,
`messages`, `tickets` are shared. One action is one SQL statement, transaction or
outside call, together with the in-memory work up to the next one:

| Action | Code |
|---|---|
| `Arrive` | a call enters `Reply`, `ResetSession` or `RegisterVerifiedPhone` |
| `FindSession`, `LoadMessages` | `FindByID` / `FindActive`, then `loadMessages` in `hydrate` |
| `CheckIdle`, `CloseTickets`, `SaveClosed` | `rotateIfIdle`; `ResetSession` shares the last two |
| `SaveOpened` | the early save "so FK-dependent writes succeed" (service.go:91-97) |
| `EnsureVerified`, `SaveMarkers` | the identity gate (Telegram only) |
| `Respond`, `FindTicket`, `SaveTicket` | the responder, and the support service behind it |
| `SaveReply` | `completeReply` |
| `VerifyPhone`, `SaveContact` | `RegisterVerifiedPhone` |
| `Fault` | a statement fails, a context expires, or a COMMIT takes effect and its acknowledgement is lost |
| `TimePasses` | an idle timeout goes by |

Data is abstracted to what the properties tell apart. A text is one of six kinds
(carries an account id, a phone, only that, reads as the marker of an account, or
none of these). A message has a date, a role, a body kind, whether it is read as
an account's marker (`marks`) and, as a label for the properties, the request that
appended it. `Reply` appends the text before it reads the identity from the
session's messages, so a text that reads as a marker counts in its own call
already (`Enriched`, `Entry`). A marker whose number is not positive is left out:
it is taken over, and then ignored by `EnrichMetadata`. A UUID drawn while serving
`r` is named `r`. The clock is logical: it ticks when a `created_at` is taken, and
`staleBefore` marks what has become an idle timeout old. The model assumes what
the deployment has: an identity service, a ticket repository, and a positive idle
timeout far longer than any call.

`Conversations` is the promise behind these steps. It knows the tables and, of a
call, what it was asked and whether it runs: no copies, no program counters, no
clock, no windows of history. A running call stores part of its turn in a session
of its customer (`Store`), opens one ticket there (`OpenTicket`), closes the
tickets there (`CloseTickets`), or changes nothing; a `Reply` returns only with
its answer in the table. Which session that is, and how often, is left open:
rotation and `/new` go through several. `ChatSessions` implements it under
`state[r] <- new, running, done or failed`, by `pc[r]` (`KeepsConversations`).

### TelegramBot

Update `r` makes at most one call of the chat use case, which is request `r` of
`ChatSessions`. `where[r]` says how far its handler is; each operation of
`UserStore` and `RatingScheduler` is one step because each takes its own lock,
and handlers interleave between them. `CallChat` snapshots the customer and makes
the command as `processMessage` and `handleOrderMenuCallback` do; `TakeResult` is
`SetSessionID`, `ClearSession` or `SetVerifiedPhone`. `Reschedule` and `ArmTimer`
are the two critical sections of `Schedule`; `HandlerReturns` is the deferred
`cancel` of `withHandlerContext`; `DelayPasses`, `TimerStops` and `TimerFires`
are the timer's goroutine. `RecordRating` and reply languages are left out; the
sending of texts is `BotLifecycle`'s.

### BotLifecycle

| Action | Code |
|---|---|
| `Signal`, `WorkerStops`, `RunReturns`, `ProcessEnds` | SIGTERM or `Stop`; a worker leaves its loop; `Start` returns when all have, and the deferred calls of `Run` cancel `handlerBase`; `main` returns |
| `DrainStarts`, `DrainEnds` | the goroutine of `drainOnShutdown`: the grace period's timer, or `handlerBase` |
| `Take`, `DeadlinePasses`, `Returns`, `Panics` | a worker starts a handler on a goroutine of its own; it runs under `withHandlerContext` and `recoverPanics` |
| `Call`, `Answered`, `Failed` | the chat use case under the handler's context; the apology of a message's handler |
| `Acknowledged`, `Hiccup`, `SendsInVain` | one attempt of `Messenger`: it succeeds, it fails although Telegram may have carried it out, or its context is done |

A text is one of the placeholder, the answer, the apology and the extras
`deliverRichContent` sends after it. `seen` counts the copies of each that a
customer sees. Whether the grace period is positive is part of the initial state.

The library (go-telegram/bot v1.14.1, not in the repository) is modelled as `New`
configures it (`bot.go:70-79`): without `WithNotAsyncHandlers` a worker starts
each handler on a goroutine of its own and takes the next update. So
`TELEGRAM_WORKERS` does not bound how many handlers run, `Start` returns when the
workers have left their loops whatever their handlers do, and `Run` then cancels
`handlerBase` under them (see the end of section 3). The process may end at any
moment after that, although closing the connection pool can hold it up for a
while. An edit that carries a reply keyboard is taken as accepted. The pauses
between attempts do not watch the context, so a handler whose context is done
still takes all its attempts (`SendsInVain`). After a handler's deadline the
apology is sent on the context that has expired, and cannot arrive. Buttons send
no apology at all.

### LLMChain

Calls to `Complete` take a slot (`Acquire`), give up when their context ends
(`GiveUp`), walk down the configured providers (`Choose`, `ProviderAnswers`,
`ProviderFails`), repeat a post the model rejected because of its temperature
(`RejectTemperature`) and end in the rules client (`FallBack`). `RecordUsage` is
the detached goroutine. A slot is released in the step that returns, as the
deferred call does. A call whose deadline passes while it waits for a slot is shed
with an error: `chained.go:57-59` and `chained_test.go:154-174` want it so.
(`chained.go:99-101` and `factory.go:11-12` read as if the rules client always
answered; the code and its tests follow the former.)

### KnowledgeBase

A program is started from some release, that is a build with its own list of
migrations and its own seed, and goes through `bootstrap.New`: `EnsureTable`,
then `CheckApplied`, `ExecMigration`, `RecordMigration` and `CommitMigration` for
each version, then the two statements of `SeedFAQ`. The second of these reads the
greatest id and sets the sequence to it, and other programs get between the two
(`ReadMax`, `SetVal`). `DrawId` and `StoreEntry` are the insert of a posted entry:
the default of its id is drawn before the row is checked against the primary key.
`StartFails` ends a start at any statement, a COMMIT that took effect included;
the container starts again. A migration's SQL is one step, since its statements
share a transaction and carry IF NOT EXISTS guards. Any release may be started at
any time, so rolling back is included. That posted entries meet a table at all is
ensured by `pc[p] = "serving"`.

### SahiyClient and SahiyReads

`mode` chooses the client: the service user's with its refresh token, the admin's
with name and password, or the admin's with a configured token. A call to
`GetJSON` goes through `Token` (`TokenCached`, or `Reauthenticate` and, under the
mutex, `RefreshFails`, `Issue`, `StoreToken`, `LoginFails`), its GET, and after a
401 `Invalidate` and both again. `GrowStale` is the clock reaching the buffer
before the expiry. The server is external: it may revoke a token that is in use
at any moment.

`SahiyReads` has the callers. A list is read page by page (the categories are the
list of one page) and kept for a time to live; nothing stops two calls from
fetching the same list, and the cache keeps what was stored last. An order is
enriched by one or two requests while it holds a slot. Lists on the server are
assumed not to be empty; the client does not cache an empty one.

`AdminClient.GetJSON` says it returns `(false, nil)` when no admin token is
configured; `AdminAuth.Token` returns an error in this case, so the model has no
such outcome (and `HasAdminAPI` does not build the client then).

### OrderRules, SahiyRows

`OrderRules` is the order domain as operators. A message is the set of keyword
tables its text hits, the number it names and whether it looks like a phone, so
that every combination of hits can be asked for; the tables themselves, and the
character rules behind `ExtractTrack`, are not modelled. `ParseListIntent`,
`MatchesFilter`, `Deduplicate`, `ApplyListIntent`, `MergeFollowUp`,
`EstimateETA`, `NewPricing`, `Summarize` and their helpers have the names of the
code. `KeepUnclaimed` is the loop of `chain.go:118`: rows are visited by source
priority and place, and a row claims its numbers when it is kept.

`SahiyRows` holds what the endpoints give: `MapRow` is the mapping of a row,
`Page` and `FirstPage` are the server's pages, `DaigouTotal` what a list request
reports, `ListAnswer` the end of `buildSnapshotWithIntent`.

### OrderLookup and OrderAnswers

| Action of `OrderLookup` | Code in `internal/infra/sahiy/customer.go` |
|---|---|
| `Lookup` | `Lookup`: which way the customer is found, and what is asked for |
| `LookupByTrack`, `LookupBySearch`, `LookupByPhone` | the three searches, each field of the second one request |
| `FetchDelivery`, `FindRequested`, `FindDaigouPage` | the head of `buildSnapshotWithIntent`, `findDaigouBySN` |
| `StartFetches`, `Fetch`, `FetchCustom`, `FetchAnalytics`, `Join` | the goroutines, `fetchDaigou` with its second endpoint, `wg.Wait` and the answer |

Every request may fail, and costs its source. `OrderAnswers` is the promise: it
has `Ask` and `Answer`, and `AnswerTo(lost)` says which answer goes with which
set of failed requests. `OrderLookup` implements it under
`failed <- IF pc = "done" THEN failed ELSE {}`; all its other steps stutter.

What the rules do in corner cases, beside the findings:

- Deduplication is not transitive. With rows A{1}, B{1,2}, C{2}, B is dropped for A
  and claims nothing (`chain.go:118`), so C stays, although `chain.go:61` says each
  physical parcel appears once. `ParcelsAreListedOnce` says what holds: no two
  listed rows share a number.
- Every row of the list of parcels that await their pickup is active
  (`list_intent.go:359-360`), and `eta.go:37` takes its code 7 for delivered, so
  that such a parcel would be listed as active and told to have arrived.
  `customer.go:368` asks the endpoint for undelivered parcels only; whether it
  ever sends code 7 the repository does not say, and `list_intent.go:342` provides
  for it. `FiltersAgreeWithEstimates` names this as the one exception.
- The daigou total stays the server's when nothing was dropped, although only
  a page of rows was read (compare `list_intent.go:391-393`).
- A number that was asked for and not found leaves the whole list as the answer
  (`customer.go:183` promises to surface only that order); a number is compared as
  it is written, so that its dashed form is another one.
- A purchase that has gone on to logistics is dropped from the list even when the
  logistics endpoints failed (compare `chain.go:65`).
- `UserExists` (`customer.go:83-92`) is true for every id from 1 up.
- The branch of `Summarize` for an empty list with a scope is not reachable, since
  an empty snapshot is replied to before.
- Rows are deduplicated before they are filtered, so that a parcel can be missing
  from a filtered list because the row that stands for it does not match.

### Answers

| Action | Code |
|---|---|
| `Decide` | `router.Service.Decide`: two rules, the model, the keywords |
| `Dispatch`, `OpenTicket` | `dispatch`: civility, the ticket, handlers that are wired |
| `SearchByVector`, `SearchByKeyword`, `StaticAnswer`, `Compose` | the FAQ service: retrieval, fixed answers, `ragAnswer` and `genericAnswer` |
| `StartLookup`, `LookUp`, `TakeSnapshot`, `Quote`, `AnswerOrder` | the order service over `OrderLookup`, the exchange rate, the model's reply |
| `SearchProducts`, `BrowseCategories`, `ListPickupPoints` | the shop's lists, as their possible outcomes |

A turn's earlier messages, `prior`, are those of the user role the session holds,
the markers of the gate among them. The digits of a `PHONE:` marker, or of a phone
typed without spaces, read as a tracking number, so they count when a follow-up
looks for the number that came last. A message that looks like a phone
may thus name a number as well, and is then looked up under it.

A reply of the model is prose or follows the contract with some confidence, or is
the marked placeholder of the rules client. Which services are configured
(`setup`) is part of the initial state. Confidences are percentages.

Reading the code for this module showed that replies of the product, category and
pickup handlers at a confidence of 0.3 are not handed over, although
`config.go:62` describes the threshold without exception; that the router's model
is called before an insult is recognised (`router_responder.go:106` reads
otherwise); that `MergeFollowUp` takes effect only if the model routes the bare
follow-up to the orders, since the keywords do not; that the stored answer of an
outage may have a lexical score of 0.38; and that a greeting in an outage is
answered with a stored article, at 0.95, when one matches by its words.

## 3. What is checked

All runs but the violations end with no error. Deadlock is checked in every
passing run; `Drained`, `Finished`, `AllQuiet`, `Exited` and `Ended` are the
states in which everything has been answered.

| Run | Instance | Distinct states | Shows |
|---|---|---|---|
| `ChatTelegram` | two calls of two customers in flight, both channels, an external session id, texts of four forms, contacts and resets, two failures | 492,844 | whoever is served has an account from the transport or a stored marker, markers are stored together with their ticket, turns are whole and stored, sessions and messages keep their owner, every transaction is one of `Conversations`, every call ends |
| `ChatResetRace` | three calls of one customer, two in flight, no failure | about 12,000 (violation) | a reply saved while `/new` runs reopens the closed session (`ResetStartsFresh`) |
| `ChatMarkerText` | two texts of one customer, one call at a time | 18 (violation) | a text that reads as a marker stands for one (`MarkersAreVerified`) |
| `LLMBurst` | three calls, two slots, three providers of which two are configured and one refuses a temperature | 38,216 | slots are held exactly while a call runs, only a call that was shed at the cap fails, every call returns |
| `BotSafety` | two overlapping updates of seven of the nine kinds, texts that are plain or read as a marker, two customers, one failure | 1,351,483 | the bot's memory of a customer agrees with the tables, nobody is asked twice |
| `BotSerial` | three updates of one customer one after the other (a contact, `/new` or an order), two failures | 455,152 | conversations, tickets and the bot's memory move together |
| `BotRatingLost` | two messages one after the other | about 750 (violation) | the inactivity prompt is never due (`InactiveCustomerIsAsked`) |
| `BotLifecycle` | one update, a reply of up to five texts, three attempts, four faults, a signal, with and without a grace period | 573,985 | what ends the context of a running handler, a reply is shown in spite of failures within the retries, every handler ends |
| `KnowledgeStart` | the api and the bot, an old and a new release, two posted entries, one fault, one exit | 147,085 | a program serves on the schema and entries it needs, acknowledged entries stay, when ids collide, every start gets to serve |
| `SahiyShared` | two reads, three clients, a list of two pages, two revocations, one failure | 440,872 | a retry has another token, one revocation is survived, tokens advance, every read ends |
| `Answers` | one turn of every kind over `MCWorlds`, three set-ups, two faults | 259,747 | what is answered and what is handed to a person; the concurrent lookup implements `OrderAnswers`; every turn ends |
| `CancelledOrders` | one lookup, one fault | about 6,500 (violation) | cancelled orders are never requested (`CancelledOrdersAreListed`) |

**Bounds.** `Requests`, `Users`, `ExternalIds`, `Calls`, `Updates` are finite;
`MaxInFlight` bounds how many calls overlap, `MaxFaults` how many steps fail. Two
overlapping calls are enough for every race the code has between a load and a
save, a third one lets a later call find what the race left behind.
`HistoryWindow` is 2 instead of 20, so that markers leave the window within a few
messages. Two customers and one foreign id are enough to confuse owners. One slot
fewer than calls makes calls wait. Two releases that differ by one migration and
one seed entry are enough for a start to meet a schema ahead of it, behind it or
halfway there; two posted entries let one meet the sequence the other left. Two
revocations are what a call cannot survive, so that both sides of
`SurvivesOneRevocation` occur; two pages give a failure on the first and on a
later page. `Workers` is 2 instead of 32: one worker can have stopped while the
other still starts a handler. Handlers share nothing but the process, so one update
is enough to see what the process does to a handler; its reply has all four extras,
and three attempts let a text fail and arrive, or fail for good, between others.
`BotSafety` leaves out the long text and the callback of a category, which take
the steps of a short text with no search awaited.

For the orders, `MCWorlds` has every pair of rows of one parcel out of a pool of
eleven over all five sources, a chain of three rows of which the second shares a
number with each of the others, and the whole pool at once. A server that finds
nobody at once and reports no total is tried with no rows and with the whole pool.
Pages of one or two rows make the second page, the last page and the list
request's cut happen. The messages are real questions of each kind, given by the
tables they hit. Confidences and similarities are values on both sides of each
threshold, and one out of range. Two faults make a source and its fallback fail
together.

Properties that say "calls that do not overlap" or `faults = 0` say what the code
achieves only then; `ChatResetRace` shows one of them failing as soon as calls
overlap.

**Fairness.** `FairSpec` of `ChatSessions` is weak fairness of each call's next
step: every database call and outside call runs under the handler's deadline
(120 s on Telegram, the HTTP server's otherwise), so it returns or fails.
Nothing is assumed about failures or new calls. `FairSpec` of `LLMChain` adds that
a request's context ends and that the detached goroutine runs; no fair queue for
the slots is assumed. `BotFairSpec` adds the handlers and timers. `FairSpec` of
`BotLifecycle` lets handlers proceed; the signal, the workers' ends, the drain and
new updates are not made to happen. `FairSpec`
of `KnowledgeBase` says that the statements of a start return and that containers
are started again, as the compose file's `restart: unless-stopped` has it.
`FairSpec` of `SahiyReads` rests on the timeout of every `http.Client`, and on
Go's mutex and channel serving those who wait. `AnswersFairSpec` is weak fairness
of the turn's next step, the handler's deadline again.

### Findings

1. `ResetStartsFresh` (`conversation_repository.go:131`): `Save` writes the status
   of an in-memory copy. A reply that loaded the session before `/new` closed it
   stores `active` again when it saves its answer, and the next message without a
   session id lands in the conversation that `ResetSession` promises to leave.
2. `MarkersAreVerified` (`app/chat/service.go:89`): the identity is read from the
   session's messages after the incoming text was appended, and every message of
   the user role with a marker's prefix is one (`markers.go:44-61`). A text of the
   customer's that has this form is taken for the marker the identity service
   writes, although `markers.go:15` and `:19` speak of verified accounts.
   `VerifiedBeforeRespond` says what holds instead: the account comes from the
   transport or from a stored message of the session with that form.
3. `InactiveCustomerIsAsked` (`state.go:171`): the timer's context is a child of the
   handler's, which is cancelled when the handler returns, immediately after
   `Schedule`. The prompt's delay (30 minutes by default) never passes first. The
   model lets the delay pass at any moment, so `TimerFires` and
   `AskedOncePerConversation` are still explored.
4. `CancelledOrdersAreListed` (`customer.go:391`): the purchases are always
   requested in the statuses of the purchase phase, 0 to 5, so that the filter for
   cancelled orders (10 and 11) finds none; `daigou_list.go:30` has the codes, and
   `chain.go:39-41` and `chain_test.go:124` speak of this very question.

Six more behaviours have no run of their own. `Start` returns when the workers have
stopped, not their handlers, and the deferred cancel of `bot.go:104` then ends the
replies still being composed, although `README.md:183-184` and `bot.go:110-111` say
that these may finish within the grace period; `ContextsOutliveTheSignal` therefore
names the return of `Run` as a third way for a context to end. A bare follow-up
sent after a parcel number, the gate's question and the phone is looked up under
the digits of the phone's marker (`app/order/service.go:72`) and answered with the
whole list, although `lookup_intent.go:106-111` speaks of the customer's own earlier
turn; `FollowUpsKeepTheirParcel` is about the number that came last, a marker's
included. `SetSessionID` after a slow reply
undoes the `ClearSession` of a `/new` handled meanwhile (`bot.go:463` against
`state.go:94`; `NextMessageOpensNew` is checked for handlers one after the other).
Operators' entries take the ids that follow the seed, and a later release's seed
entries of these ids are dropped by ON CONFLICT DO NOTHING (`seed.go:78`),
although adding an entry to the seed file is to make it appear on the next start
(`seed.go:43-45`). When a page after the first fails, `PickupPointsAPI` caches and
serves the part it has for a whole time to live; `StoreList` does the same, and no
property claims that answered lists are whole. And a call that fails after it
rotated an idle session leaves the bot with the id of the closed session: each
retry rotates it again and opens one more active session, which is why
`AtMostOneActiveSession` asks that nothing failed when calls name sessions.

## 4. What is proved

The proof modules establish their results for any number of calls, users, ids,
slots, providers, programs, releases, rows, worlds, thresholds and failures, from
the assumptions named in the modules: the sets of inputs are of their types, the
bounds are natural numbers, and `None` is none of the values it stands beside.
`WorldsAssumption` says what a lookup needs of Sahiy: lists are finite and a row has
a place of its own in its list. A row may have any status code.

*ChatSessions_proofs.* `Invariance` shows an inductive invariant. `TypeOK` and the
properties alone are not inductive: that a call in the gate has a row needs that
rows never vanish and that `mem[r]` is either marked persisted with its row
present or still to be inserted; that messages are owned needs that pending
messages belong to the in-memory session and that this session's user is the
caller's, which in turn needs that a persisted copy agrees with its row. The
strengthening states these per program counter. Theorems: `TypeCorrect`,
`RowsBeforeRespond`, `VerifiedCustomersOnly`, `MessagesAreOwned`, and the action
property `SessionsAreStable`, that no step takes a stored session away or gives it
another owner, channel or date. A second invariant, `TurnInv`, is about turns:
what a call has stored together with what it holds pending lies in one session, is
older than the clock and has at most one message of each kind the call's step
allows; an answer that is stored has its whole draft stored with it; and a call
only adds messages of its own. From it `TurnsAreWhole` and `AnswersHaveQuestions`.

`ConversationsAreKept` is the refinement. It needs `TurnInv`, and `TicketsInv`: a
ticket is its call's own, in the session that call serves. `Transaction` says what
one step may do to the tables; `StepIsTransaction` shows it action by action, and
`StepConverses` maps it to `Store`, `OpenTicket`, `CloseTickets` or a change of
`state` alone. A COMMIT that takes effect without being acknowledged maps to a
`Store` that fails, and the draft of an answer that is written in one go with what
the call had left is still one turn, told in order.

Another section is about the calls of one customer that come one after the other
(`OneCallPerCustomer`); calls of different customers overlap as they like, and any
step may fail. The finding behind `ChatResetRace` is why the hypothesis is needed:
two overlapping calls of one customer break all three properties. `SerialInv`
says that the row of a session is as the call that holds the session believes it
to be, that sessions a reset has closed stay closed and are held by no call that
came later, and that until a step fails each open ticket is the only one of an
active session. `OneInv` adds that the session a call has found is the customer's
active one, and that there is none when the call is about to insert another;
it needs that named sessions are live (`CallsNameLiveSessions`), since a call that
names a closed session opens one beside the active one. Theorems: `ResetIsFinal`,
`TicketsFollow`, `OneSessionAtATime`, `LiveCallsAreServed` (such calls fail only
where something they wait for does) and `OneCallAtATime`: with `MaxInFlight` at
most one, the hypothesis holds of every behaviour. `CallsRunOut` needs no
hypothesis: whatever overlaps, rotates or fails, a call ends within twelve steps.

*LLMChain_proofs.* The invariant counts: the slots taken are the calls that hold
one. The counting steps use the library's theorems on cardinalities. Theorems:
`TypeCorrect`, `NoSlotLeaks`, `UsageIsExact`, and the action property
`TemperatureStaysDropped`. With a limit of zero no slot is ever taken.
`SlotMeansReply`: a call that fails was shed at a cap by its deadline before it came
to any provider, so that with the rules client in place a call that has had a slot
always brings a reply (`ShedInv`).
`CallsRunOut` bounds a call by `3 * Providers + 3` steps.

*TelegramBot_proofs.* `BotUsesChatAsSpecified` shows that the composition
implements the chat use case: each step of `BotSpec` is a step of `ChatSessions`
or leaves its variables alone, hence every theorem above holds of the bot.
`BotInvariance` then relates the bot's memory to the tables: a call in place
`chat` is the update's own, a customer's verified flag comes with a stored marker
the identity service wrote, a call without it comes to the responder on a stored
message of the customer's own with the form of one, a remembered id names a row of
that customer, and a delivered prompt comes with the flag that stops the next.
Theorems: `BotTypeCorrect`, `OnlyTheVouchedFor`, `SessionsRememberedAreOwn`,
`NobodyIsAskedTwice`.

The rest is about customers whose handler returns before their next update is
taken up (`OneHandlerPerCustomer`), while those of different customers overlap.
`CallsInv` shows that then `OneCallPerCustomer` holds of the chat service, so that
its theorems apply (`OneHandlerIsOneCall`, `ResetsAndTicketsUnderTheBot`).
`FreshInv` says that a session the bot remembers is none that a `/new` has closed,
also while a result is on its way back to the memory, when the table and the
memory differ. `LiveInv` says that, until a step fails, it is the active one: the
bot thereby discharges `CallsNameLiveSessions`. Theorems: `NewIsFinal`,
`OneSessionUnderTheBot`, `HandlersAreServed`, and `OneHandlerAtATime`, by which all
of it applies to the run `BotSerial`.

`PromptsNeedTheirHandler` states the cause of the finding of `BotRatingLost` for all
values, and of overlapping handlers too: a timer that has not been cancelled belongs
to a handler that has not returned (`TimerInv`), so that a prompt comes while its
handler is at work or never.

*BotLifecycle_proofs.* The invariant says whose cancellation has reached the
handlers (`base` is done only after the grace period, without one, or when `Run`
has returned), and relates what a customer sees to the texts a handler has sent
and to the requests that failed so far: a text already passed over was shown once
plus at most once per failure, unless all its attempts failed. Theorems:
`TypeCorrect`, `ContextsOutlive`, `RepliesShown`, and `HandlersRunOut`, which bounds
a handler by `4 + (2 + MaxExtras) * SendRetries` steps.

*KnowledgeBase_proofs.* The invariant says at each statement of a start how far the
schema has come (all versions before the one at hand are on record), that two
programs never wait to commit the same version, and that what was seeded stays;
a posted entry's row is found under the id it drew. Theorems: `TypeCorrect`,
`SchemaIsOrdered`, `ReadyToServe`, `EntriesAreStored`, and the action property
`InsertOnly`. `IdsCollideOnlyWithSeeding` needs `SequenceInv`: while nothing raced,
the ids in use lie behind the sequence, the ids drawn are free and distinct, and
between a seed's two statements no entry is on its way.

*SahiyReads_proofs.* `ReadsImplementClient` shows that the reads use the client as
`ClientSpec` says. `ClientInv` relates the mutex to the program counters and the
cached token to all tokens handed out: at most one is cached, none is younger,
and the one a call was refused with is not cached while that call is in `Token`
again. Together with the cardinality of two revoked tokens this gives
`RetriesAreFresh`, `OneRevocationIsSurvived` and `TokensAdvance`; `ListInv` gives
`TypeCorrect` and `ListsHaveAPage`. `ReadsRunOut` counts the requests, refusals and
pages a read has left: 12 steps a page and two for a list, 25 for the items of an
order. It needs `CountInv`, that a read asks for a page only while it has got fewer
than it may ask for.

*OrderLookup_proofs.* `LookupImplements` is the refinement: a lookup answers as
`OrderAnswers` says. First the two modules are shown to share their rules (the
`Same...` lemmas), so that only the rows the rules are applied to matter. The
invariant follows the lookup: `Identifying` (no way to find the customer that was
tried has succeeded, and a failed one is on record), `Planning` (the user, the
number and the intent are those `OrderAnswers` computes; pages already read do not
have the number), `Fetching` (`got` is the union of what the fetches that are done
and did not fail have brought, whichever they are) and `Resting`. `PagesFound`
says that the first page with a hit has the foremost of all hits, and `RowsRead`
that the rows at the join are the promise's. (The attempt to prove it showed that
an early model called two requests by one name, the tracking endpoint and the
search by `tracking`, which no run had told apart.) `OneRowPerParcel`,
`NothingIsLost` and `CodesReadAlike` then say what the rules make of these rows:
no two share a number, none is lost, and one code is read in two ways (see
`OrderLookup` above). The recursion of `KeepUnclaimed` is unfolded by well-founded
induction over the parts of a finite list that are closed under coming before
(`ClaimingExists`), done by hand from `WFMin`; `KeptRows` is the result: a row is
kept if and only if no kept row before it is of the same parcel. `RemainingDays`
unfolds the sum of the estimates. `LookupTypes` shows that answers are made of
rows the endpoints hold, and `LookupsRunOut`, last, that every step of a lookup
brings it closer to its answer.

*Answers_proofs.* `AnswersUseLookup` and `AnswersKeepThePromise` carry these
results over to the replies. `AnswersInvariance` says which lookup, match and reply
of the model an outcome comes from. Theorems: `PeopleStandIn`,
`UnsureGoWithAHandoff`, `OperatorAnswers`, `OwnOrdersAreLookedUp` and
`FollowUpsStayWithTheirParcel`, which needs that a requested parcel that was found
is the only one told of, and is about the number that came last in any message of
the user role.
`AnswersTypeCorrect` shows, beside the types, that a confidence is a percentage
whatever a model claims and however often it is lowered. `TurnsRunOut` says that a
turn neither returns to a place nor looks up twice.

Only model-checked: the liveness properties (`EveryCallEnds`, `EveryCallReturns`,
`StartsSucceed`, `EveryReadEnds`, `HandlersEnd`, `EveryTurnEnds`, and the
counterexample to `InactiveCustomerIsAsked`), since fairness and ENABLED are
beyond the prover. Of most of them the half that is safety is proved, in the
`...RunOut` theorems: a number that each step of a call, handler, read, lookup or
turn lowers and no step of another raises, so that nothing goes round in circles.
That the steps are taken at all is what fairness adds, and stays with TLC.
`StartsSucceed` has no such theorem, since a start may be tried again. Every other
property of a passing run is a theorem; those of calls and handlers one after the
other under the hypothesis named above, which the run meets by its bound
`MaxInFlight`. The library's induction theorems take an operator as a parameter
and cannot be instantiated, so that induction over data is by hand where it is
needed; RECURSIVE operators are not used.

## 5. Plan

Done: the chat use case, its Telegram adapter, the bot's process and delivery, the
LLM chain, starts and the FAQ table, the Sahiy clients and their lists, the order
domain, the lookup with its abstract specification, the responder. What would come
next, in this order:

1. An abstract limiter of `n` slots, implemented by `LLMChain` and by the
   enrichment of `SahiyReads`.
2. `Answers` in the place of `Respond` of `ChatSessions`, so that the messages the
   gate stored are the ones that decide whose orders are looked up and under which
   number.
3. The exchange rates' cache, beside the lists of `SahiyReads`.

## 6. What is not modelled, and why

- Character rules: languages, normalisation, phone and track patterns, keyword
  tables. They have no state; what they find in a text is an input of the models.
- Texts: formatting, prompts, keyboards, captions, the typing indicator. They are
  computed from a reply and change no state.
- Vectors and the ranking inside a search: a match is a choice of a best one.
- Ratings and turn telemetry are appended to tables the program never reads.
- Domain events go to a publisher that logs them.
- The API server's lifecycle (a shutdown of at most 10 s), its middleware and
  schemas; parsing of settings, whose effect is the constants of the modules.
- The exchange rate's time to live: a rate is the service's or the configured one.
- Rows of purchases when no admin credentials are configured: the list is then
  absent, which is the model's case of two failed requests.
