# Formal verification of the Thesauros Partner API

TLA+ models of the service in `src/` (a NestJS application over Postgres, with a
TypeScript and a Python SDK), the TLC configurations that check them on small
instances, and TLAPS proofs that hold for instances of any size.

`src/...` below is the repository; `auth.service.ts:75` is a line of a file
under `src/src/`.

## 1. The system

| Part | State | Operations | Hard behaviour |
|---|---|---|---|
| Entity store (`store/store.service.ts`) | every table, through TypeORM | `get`, `filter`, `create`, `update`, `remove`, boot-time seeding | `update` reads the row, merges and saves the **whole** record; no transaction, no lock, no version column; seeding rewrites fixtures on every boot |
| API keys, authentication (`auth/`, `common/guards/api-key.guard.ts`) | `api_keys` | `authenticate`, `generateKey`, `revokeKey`, `revokeKeysForPartner` | authentication itself writes (`last_used_at`), so every call is a writer of the row a revocation writes |
| Partners (`partner/partner.*`) | `partners` | create (+ first key), PATCH (+ revocation cascade) | check-then-insert on slugs; cascade is a second, separate write |
| Campaigns (`partner/partner.service.ts`) | `campaigns` | create, PATCH, list | same shapes as partners, unique per partner |
| User onboarding, attribution (`users/`, `partner/attribution.service.ts`) | `users`, `attributions` | POST /users: check, insert user, insert attribution, emit | three writes without a transaction; `external_id` has no unique index |
| Webhooks (`webhooks/`) | `webhooks`, `webhook_deliveries` | register, PATCH, DELETE, test, `emit` → `dispatch` → prune | fire-and-forget fan-out, 3 s timeout, concurrent pruning of the delivery log |
| Observed balances (`reconciliation/monitor.client.ts`) | one cached snapshot, one promise in flight | `observed` | 5 min cache, single flight, failed networks swallowed |
| Reconciliation (`reconciliation/reconciliation.service.ts`) | none | `balances`, `ledger`, `snapshots`, `report` | verdict over a partly observed chain, rounding |
| APY snapshots (`analytics/apy-snapshot.service.ts`) | `vault_apy_snapshots`, one timer per instance | hourly `record` | several instances, builds and restarts in the same hour; timers that drift |
| Analytics, yield, vaults, status | none | read-only projections | floating point |
| Usage (`usage/`) | `request_logs` | one insert per request, bucketed series | fire-and-forget insert |
| Revenue, accrual, paging (`partner/revenue.service.ts`, `common/`) | none | pure functions | rounding, zero, boundaries |
| Crypto (`crypto/`) | the process's key | encrypt, decrypt, hash | an ephemeral key outside production |
| SDK transports (`sdk/`) | attempt counter | `request` with retries | a retried POST may have taken effect; body read without a timeout |

Requests meet only in Postgres: a handler is a sequence of statements with an
`await` between them, and any other handler may run at every `await`. The one
exception is the observed-balances client, whose cache is shared memory. Calls
between parts are plain method calls inside a request: controller → service →
store; `POST /users` → attribution → `emit`; `emit` starts `dispatch` tasks that
nobody awaits; `PATCH /partners/:id` → `revokeKeysForPartner`.

What makes each part correct: a revoked key and a disabled partner are locked out
and stay out; a key never changes hands; one partner per slug; a boot brings the
fixtures back; a user that exists is attributed, once, to its creator; a deleted
endpoint stays deleted; the delivery log keeps the newest rows and is bounded; a
report never presents what was not observed as observed; one APY row per vault
and hour; a retry never doubles an effect unless the client was told of a failure.

## 2. Modules

| Module | Models | Proofs |
|---|---|---|
| `EntityStore` | `StoreService.update` and TypeORM's `save`, as operators | |
| `KeyLifecycle` | partners, keys, authentication, boot and seeding of both | `KeyLifecycleProofs`, `KeyOverlapProofs` |
| `Recency`, `RetainedLog` | what the delivery log promises (abstract) | |
| `WebhookDelivery` | endpoints, events, dispatches, the delivery log | `WebhookDeliveryProofs` |
| `Accounting` | accrual, balances, ledger, revenue, paging, as operators | |
| `Reconciliation` | observed balances, the report, readers of the ledger | `ReconciliationProofs` |
| `Analytics` | averages, yield curve, signals, regime, uplift, advisor, as operators | |
| `RateHistory` | the hourly recording of rates, and `Analytics` over what it leaves | `RateHistoryProofs` |
| `UserOnboarding` | SDK transport, throttler, guard, `POST /users`, attribution, usage | `UserOnboardingProofs`, `OnboardingTimeProofs` |
| `SumTheorems` | what sums over finite sets are worth: lemmas for the proofs | itself |
| `MC...` | small instances: books, builds, keys and workloads | |

`KeyLifecycle` and `WebhookDelivery` use `EntityStore`; `WebhookDelivery` implements
`RetainedLog` by a refinement mapping; `Reconciliation` and `RateHistory` evaluate
`Accounting` and `Analytics` in every state they reach. Components that share a
table are modelled together; those that only meet through an immutable reference
(an onboarding call and the key it carries) are not.

Definitions commented "Wrong:" or "Mutation:" are variants of the code with a
plausible bug. No specification uses them: each shows that a property notices it.

## 3. Modules and the code

**`EntityStore`** — `Merge`, `Dirty`, `Written`: `StoreService.update` and the two
statements of TypeORM's `save` (SELECT, then UPDATE of the columns that differ).
`save` is not in `src/`; it is modelled from how the store uses it. A patch may lack a
property (`Unset`), and the record keeps what was read; or have it without a value
(`Undefined`), and the record loses what was read, and `save` skips the column
(`store.service.ts:129-131`). The body of `PATCH /partners/:id` is an
`UpdatePartnerInputDto`, compiled for ES2022: it declares `status`, so a body without
one has it undefined, and inherits `slug` through `PartialType`, which hands on no
property without a value, so a body without one lacks it.

**`KeyLifecycle`** — the tables `partners` and `api_keys` (`status`, `slug`;
`revoked`, `partner_id`), and `slot`, one record per request in flight: its
operation, its program counter and the handler's local variables. A program
counter names the next statement against Postgres:

| Handler | Steps |
|---|---|
| any authenticated call | `AuthFind` (key by hash, revoked?) → `AuthPartner` (partner disabled?) → `KeyGet` → `KeyLoad` → `KeyWrite` |
| `POST /keys` | `GenCheck` → `GenInsert` |
| `DELETE /keys/:id` | `KeyGet` → `KeyLoad` → `KeyWrite` |
| `POST /partners` | `CreateCheck` → `CreateInsert` → `GenCheck` → `GenInsert` |
| `PATCH /partners/:id` | `PatchBefore` → `SlugCheck` → `PartnerGet` → `PartnerLoad` → `PartnerWrite` → `Scan` → (`RevokeEach` → `KeyLoad` → `KeyWrite`)* |
| process | `Crash` → `Boot` or `BootFails` → `Supervise` |

`acked`, `late`, `shut` and `disableAcked` are history: what clients have been told
and what has been true since a request began. No guard reads them. `Boot` is one
step because nothing is served before `onModuleInit` returns.

**`WebhookDelivery`** — the tables `webhooks` (`active`, `events`) and
`webhook_deliveries` (`at`, and the endpoint, which gives the partner), `req`, the
PATCH and DELETE requests in flight, and `task`, what nobody awaits:

| Handler or task | Steps |
|---|---|
| `POST /webhooks` | `Register` |
| `PATCH /webhooks/:id` | `AskPatch` → `PatchFind` → `PatchGet` → `PatchLoad` → `PatchSave` |
| `DELETE /webhooks/:id` | `AskDelete` → `DeleteFind` → `Delete` |
| `POST /webhooks/:id/test` | `AskTest` → `TestFind` → a dispatch |
| `emit` | `Emit` → `EmitRead` → a dispatch for each endpoint |
| dispatch | `PostEnds` → `InsertRow` → `PruneRead` → `PruneRemove`* |
| faults | `RequestFails`, `TaskFails`, `Crash` |

The stamp `at` is set when the POST ends (`PostEnds`) and the row is inserted a
statement later, so rows can arrive out of order. A dispatch holds the endpoint as
its SELECT returned it: switching the endpoint off does not stop it. `owed` is
history: rows that a pruning which failed or died should have removed. `Recency`
defines `Newest`, the newest `Limit` rows; `RetainedLog` says that a log shows the
newest `Limit` deliveries ever recorded (`webhooks.service.ts:129-136`).

**`Accounting`** — in integers: cents, and a rate per tick as `apy / Scale`.
`BaselineValue`, `Value`, `Elapsed` (`common/accrual.ts`); `NetTVL`, `Summary`,
`RevenueShare` (`attribution.service.ts`, `revenue.service.ts`); `Balances`,
`DaySnapshot`, `Ledger` with its accrual row that closes the account
(`reconciliation.service.ts`); `Page`, `NextCursor` (`common/paged.ts`). `Round` is
`Math.round`: halves go up.

**`Reconciliation`** — `cache`, `flight` and `inFlight` are the fields of
`MonitorClient` and the one fetch they describe; `call` is a request that computes
a report or a client that follows cursors; `replies` is what the last step answered.

| Code | Actions |
|---|---|
| `report`, up to the fetch or the answer | `Ask`, then `Observe` = `Unconfigured`, `FromCache`, `Join` (the fetch in flight) or `Fetch` |
| the fetch | `Listed` or `ListFails`, then per network `NetworkRead` or `NetworkMissed` (a failure or timeout, which is logged and skipped), `EndFlight` |
| `GET /reconciliation/ledger` by cursor | `FirstPage` → `NextPage`* |
| environment | `MoveChain`, `Tick` |

`mode` is the configuration: no monitor, a monitor whose networks are listed by
itself, or `MONITOR_NETWORKS`. The last network read answers everyone who waits in
the same step: what follows the await is synchronous but for promise callbacks that
no other request can overtake. `Report` is the verdict, computed as in
`reconciliation.service.ts:262-380`.

**`Analytics`** — operators over a set of vaults, a set of recorded rows and the
book of positions: `TrailingAverage`, `YieldHistory`, `Signals`, `Ranked`, `RegimeOf`,
`Overall`, `Uplift`, `Decisions`, `Advisor`. Rates are whole basis points;
comparisons of square roots compare squares; sentences are left out.

**`RateHistory`** — `vaults` and `snaps` are tables, `inst` is a process each, with
its build, its step and its timer. `Boot` → `SaveVaults` → `DropStaleVaults` (the
seeding of vaults) → `Select` → `Insert` (INSERT ... ON CONFLICT DO NOTHING on
vault and hour) or `RecordFails`; then `Fire` every hour; `Kill` at any time. An
`Unseeded` instance boots without fixtures. `held` is history: every state the table
of vaults was in, with the tick.

**`UserOnboarding`** — `call` is a call of an SDK with its attempts, `handler` an
attempt on the server or its answer on the wire, `hits` and `blocked` the memory
of the throttler, `users`, `attributions` and `log` tables, `unlogged` and `emits`
promises that nobody awaits.

| Code | Actions |
|---|---|
| SDK `request` (`http.ts`, `_http.py`) | `Begin`, `Receive` (done, or sleep after 429 and 5xx), `Wake`, `GiveUp` (timeout or lost connection) |
| the reverse proxy in front (`bootstrap.ts:12-14`) | `ProxyFails` (502, 503 or 504, before the request arrives or while the server is at it) |
| guards | `Throttle` (429), `LacksScope` (403), `NoPartner` (403, or 400 of a body that validation refuses first), `Admit` |
| `POST /users` | `Check` → `InsertUser` → `AttributionRead` → `AttributionInsert` |
| `GET /usage` | `UsageSelect`, reported by `UsageSeries` and, for the list that is cut to ten, `TopKinds` and `TopEndpoints` |
| interceptor, `emit` | `Record`, then `LogInsert`; `Emit` |
| faults | `StatementFails` (which may have been carried out), `LogInsertFails`, `Crash`, `EmitRejects` (an unhandled rejection ends the process), `Unheard` |

A server does not notice that its client has gone: an abandoned attempt runs on, and
so does one that the proxy has answered for. `cut` is history: the attempts for which
the proxy answered before their handler had inserted the user.

## 4. What is checked

| Run | Bounds | Shows |
|---|---|---|
| `keys_concurrent` | 2 requests of any kind in flight, 1 partner, 2 keys, 1 crash, seeding on | `DisabledPartnerBlocks`, `RevocationSettles`, `BindingFixed`, `StatusIsAskedFor`, the invariant `Flow` |
| `keys_apart` | 2 requests in flight that save no key and decide on no partner at once, no crash | `RevokedKeyRejected`, `DisableRevokesKeys`, `PartialUpdate` |
| `partners_boot` | 2 requests that create or re-slug, 3 partners, 3 slugs, 1 crash | `FailedBootIsFinal` |
| `endpoint_races` | 1 endpoint, 2 PATCH or DELETE requests, 1 dispatch, 1 fault | `EndpointSettles` |
| `delivery_log` | 2 endpoints of a partner, 2 tasks, 3 deliveries, limit 1, 1 fault | `LogRetained` (implements `RetainedLog`), `NothingForgotten`, `CapRestored` |
| `reconciliation` | 2 callers, 2 networks, 2 assets, 4 positions, 3 ticks, 1 movement on a chain | `SingleFlight`, `AnswersAreFresh`, `VerdictSound`, `OneNetworkVoidsNothing`, `EveryCallAnswered`, `PagesLoseNothing`, `LedgerCloses`, `ViewsAgree` |
| `rates` | 2 instances, 2 builds, 3 vaults, 4 positions, hours of 2 ticks, 6 ticks, 2 boots, 1 failure | `RowsAreObservations`, `HourCovered`, `AveragesHonest`, `SignalsRestOnHours`, `SteadyRatesAreStable`, `UpliftAddsUp` |
| `onboarding` | 2 calls, 1 external id, 4 keys, 2 retries, budget 1, 1 fault or answer of the proxy, 1 endpoint listed of 2 | `OnboardedWhole`, `OneUserPerCall`, `KnownIsRefused`, `AccountWideLimit`, `AnswersAreLogged`, `UsageAddsUp`, `PatienceOutlastsBlock`, `CallEnds` |
| `keys_revival` | 2 requests, no crash | violated: `RevokedKeyRejected` |
| `keys_disable_crash` | 1 request, 1 crash | violated: `DisableRevokesKeys` |
| `monitor_unreachable` | 1 caller, 2 networks | violated: `UnreachableIsTold` |
| `onboarding_replay` | 2 calls, 1 fault or answer of the proxy | violated: `RetriedCreateReplays` |

A type invariant is checked once per component. Those of `Reconciliation` and
`RateHistory` also hold every answer against the shape that the DTOs of the service
declare (`reconciliation/dto/output.dto.ts`, `analytics/dto/output.dto.ts`, the
partner, user and vault DTOs).

**Bounds.** *Keys.* Two requests are enough for the lost updates, which need one
stale writer and one request to overrun; one crash suffices since a crash leaves
nothing but the tables behind; the theorems cover any number. A key id is set aside
for every request that may still insert a row (`KeyIdLeft`, `PartnerIdLeft`), a
bound of the model: ids are random in the code and never run out.
*Deliveries.* A limit of 1 (500 in the code) and three deliveries make every case: a
row beyond the limit in one SELECT and gone or joined by another in the next, two
prunings with overlapping plans, an older row inserted after a newer one, an excess
of two after a pruning failed. A stamp is set aside for every delivery under way.
*Reconciliation.* A second caller can find the cache fresh, stale or empty with a
fetch in flight; two networks give a partial observation; one network holds two
assets and one asset lies on two networks; a life of 2 ticks expires within the
run. The first position of the book earns so little that its accrual row appears
only after a while, in front of rows already listed: the case that could make a
reader of pages lose one. Readers are followed in the mode without a monitor
(`PagedIn`), as the ledger does not read the chains.
*Rates.* Six ticks are three hours: a row per hour, a timer that drifts over a
boundary, an hour skipped. The second build changes a rate, pauses a vault and adds
one without a baseline venue. `Lag` bounds both how late a timer fires and how long
a recording takes; seeding takes no time. The time, boots and failures end a
behaviour, so deadlock is not checked here.
*Onboarding.* Two calls give the overlap of two creations of one external id,
within and across partners, and a usage report beside a creation. Two retries and a
budget of 1 make a client meet a block, wait it out, and meet a fault on the way.
A call ends, and so does the system. `delivery_log` rests when its stamps are used
up. In the other passing runs deadlock is checked.

**Fairness.** Deliveries: `WF` on the steps of a task, as the event loop runs a task
whose promise is settled, Postgres answers (or the statement fails) and a POST is
aborted after 3 s. Reconciliation: `WF` on the handler's synchronous part
(`Observe`) and on the fetch, as every read ends in a row or a timeout. Onboarding:
`WF` on `Wake` and `GiveUp`, which are timers of the client, and on the clock;
nothing is assumed of the server, so that calls end (`CallEnds`) whatever it does.
No fairness on requests, events, faults or the environment. Keys and rates claim
safety only: a handler ends when Postgres answers, and nothing in the properties
depends on it.

**Violations** are disagreements between the code and what its documentation says
(`findings` in `PROJECT.json` quotes the lines):

- a call and the revocation of its key interleave, and the call writes
  `revoked = false` back (`auth.service.ts:75`, `store.service.ts:126-128`);
- a crash between disabling a partner and revoking its keys is never repaired, as
  the repeated PATCH finds the partner already disabled (`partner.controller.ts:90`);
- with `MONITOR_NETWORKS` set, a monitor that answers nothing yields an empty
  snapshot, which is cached and reported as reconciled (`monitor.client.ts:110`);
- a create whose user was written is answered 5xx, as its attribution then failed or
  as the proxy did not wait for it, is retried by the SDK under the same idempotency
  key, and refused as already existing (`users.controller.ts:76`). The run shows the
  second way, which is shorter.

What holds beside them is in the passing runs. The partner check in `authenticate`
covers for a revived key as long as the partner is disabled
(`DisabledPartnerBlocks`), and a key is revived only by a request that was in
flight when it was revoked (`RevocationSettles`). A PATCH without a status never
writes one, however PATCHes overlap (`StatusIsAskedFor`). A PATCH without a slug is
less careful: it writes the slug it read over one that another PATCH wrote meanwhile,
so `PartialUpdate`, which is about both columns, is checked where no two saves of a
partner overlap. The run `keys_apart` explores the interleavings in which the
conditions of section 5 hold. A partner that takes the slug of
a fixture makes the next boot fail, and every boot after it (`FailedBootIsFinal`).
A failed network, unlike an unreachable monitor, leaves a report on the others
(`OneNetworkVoidsNothing`); when all were read, the verdict is the chains' own
(`VerdictSound`). Overlapping creations can give one external id to two users;
calls made once it is stored cannot (`KnownIsRefused`). Retries of one call can in one
way: the proxy answers 5xx while the handler has not inserted yet, and the retry
overlaps it. `OneUserPerCall` says that there is no other way: after a 5xx of the server
itself the handler has ended, and an attempt that timed out or lost its connection is
not retried at all. A usage report adds up by its buckets; by endpoint it does as long
as none is cut off its list (`UsageAddsUp`).

Further disagreements, seen while modelling and without a run:

- Which deposits count: `QA-TESTING-GUIDE.md:340` says "Orbit: `total` = $5,000,
  `count` = 1" of `/partner/deposits`, though Orbit's only position is closed
  (`:133`, `:348`); the code leaves closed positions out
  (`attribution.service.ts:103`) and answers 0 and 0.
- What TVL is: `QA-TESTING-GUIDE.md:347` says "Acme TVL: sum of the principal of active
  positions = $85,000"; the code adds what has accrued
  (`attribution.service.ts:140-147`). `ViewsAgree` and `UpliftAddsUp` relate the routes of
  the service to each other as the code computes them, so they hold beside both lines.
- A PATCH without a slug can undo another's slug, as said above; `partner.controller.ts:80`
  calls it "Partial update". `PartialUpdate` is violated on the instance of `keys_apart`
  under `Spec`, which lets saves overlap, in place of `ApartSpec`.
- Two users of one call, as said above, where `types.ts:19-22` of the SDK promises that a
  retry replays the response "instead of producing a duplicate resource".
- A network that could not be read "shows up as absent coverage in the report"
  (`monitor.client.ts:112-113`), yet `observed_networks` names it: `networks` is the list
  before any was read (`:94`, `:119`).

Smaller ones: the SDK's `types.ts` declares `Signal.volatility`, `trend` and `forecast`,
`UpliftRow.aave_baseline` and `Reconciliation.onchain_total` as never null, a
`MarketRegime` without `unknown`, and calls `uplift_vs_aave_pct` a decimal fraction
(`types.ts:574`) where the service multiplies by 100 (`analytics.service.ts:322`); a
breakdown row whose chain figure is missing is documented as null
(`reconciliation.service.ts:47`) and given as 0 (`:306`); the scope of an
unavailable report is always `protocol` (`:358`); the advisor says that no baseline
venue is active whenever the baseline total is 0 (`analytics.service.ts:430-437`).

## 5. What is proved

Every theorem is about all values of the constants that satisfy the assumptions
named in the module: any number of requests, tasks, callers, instances or calls, any
limits, any number of faults.

| Module | Theorem | Property |
|---|---|---|
| `KeyLifecycleProofs` | `TypeCorrect`, `FlowHolds` | `TypeOK`, `Flow` |
| | `DisabledIsBlocked`, `ReferencesHold` | `DisabledPartnerBlocks`, `KeysHavePartners` (a part of `Flow`) |
| | `BindingIsFixed`, `RevocationIsSettled` | `BindingFixed`, `RevocationSettles` |
| | `FailedBootIsForGood` | `FailedBootIsFinal` |
| `KeyOverlapProofs` | `RevokedIsRejected`, `DisableIsFinal` | `RevokedKeyRejected`, `DisableRevokesKeys` |
| | `StatusIsAsked`, `PatchIsPartial` | `StatusIsAskedFor`, `PartialUpdate` |
| `WebhookDeliveryProofs` | `TypeCorrect` | `TypeOK` |
| | `ExcessIsNeverForgotten` | `NothingForgotten` |
| | `LogIsRetained` (refinement) | `LogRetained` |
| | `EndpointsSettle` | `EndpointSettles` |
| `ReconciliationProofs` | `AnswersAreShaped` | `TypeOK` |
| | `OneFetchServesAll`, `NoStaleAnswer` | `SingleFlight`, `AnswersAreFresh` |
| | `PartialObservationCounts`, `ReportsAreRight` | `OneNetworkVoidsNothing`, `VerdictSound` |
| | `LedgersRunUp`, `CursorsMissNothing` | `LedgerCloses`, `PagesLoseNothing` |
| | `OneBookManyViews` | `ViewsAgree` |
| `RateHistoryProofs` | `RatesWereObserved` | `RowsAreObservations` |
| | `NoTwoHoursMissing` | `HourCovered` |
| | `TrendsRestOnHours` | `SignalsRestOnHours` |
| | `AveragesAreHonest` | `AveragesHonest` |
| | `SteadyTablesMakeNoTrend` | `SteadyRatesAreStable` |
| | `ComparisonsAddUp` | `UpliftAddsUp` |
| | `AnswersHaveTheirShape` | `TypeOK` |
| `UserOnboardingProofs` | `RetriesCreateOnce`, `KnownIdsAreRefused` | `OneUserPerCall`, `KnownIsRefused` |
| | `BudgetIsTheKeys` | `AccountWideLimit` |
| | `UsersAreWhole`, `AnswersHaveRows` | `OnboardedWhole`, `AnswersAreLogged` |
| `OnboardingTimeProofs` | `OnboardingTyped`, `PatienceOutlasts` | `TypeOK`, `PatienceOutlastsBlock` |
| | `ReportsAddUp` | `UsageAddsUp` |

Each component has an inductive invariant, named `IInv` or, where more is needed,
`TInv` (time), `HInv` (what was read of the chains), `PInv` (pages) and `RInv` (rates). One lemma per
action shows that it is preserved, and the properties are taken from it.

*Keys.* A handler acts on local variables it filled several statements ago. `Flow`
adds to the types that these locals are still right about the tables at every
program counter (`Local`), which is so because rows are never deleted and a key
never changes its partner (`RowsKept`), and that a request which has seen its
partner disabled throughout is still in front of the check that will turn it away
(`ShutOut`). `FailedBootIsForGood` needs only that a failed process has a slug clash,
and that nothing but a request, which a failed process does not serve, could remove
it. Assumed: the fixtures are among the ids, and the nulls are none of the
values they stand beside.

*Overlapping requests.* Three properties are false of the code as it stands
(`keys_revival`, `keys_disable_crash`), and true of it where requests that save the
same row are kept apart, as a row lock would. The theorems name exactly that, as
conditions on the behaviour: `KeyUpdatesApart` and `PartnerUpdatesApart` (no two
requests between the SELECT and the UPDATE of one key, of one partner),
`StatusDecisionsApart` (from the controller's first read of the partner to the end of
the cascade), `KeysOutliveBoots` (a boot restores no key) and `MaxCrashes = 0`. All
other requests overlap as they like. Under them, whoever is about to save a row has
read what the row still is (`SavesExact`, `KeysExact`), so a save changes only the
columns it was asked to. `StatusIsAsked` needs none of these conditions: `Local` says that
the record a PATCH is about to save has the status of its body, or none.

*Deliveries.* `IInv` = `TypeOK`, `Budget` and `StampsUnique` (a stamp for every
delivery under way, each used once), `TasksKnow` and `NothingForgotten`. The heart is
that a row beyond the limit stays beyond it while a pruning that has read it runs:
new rows only add later ones, and another pruning removes only rows that are beyond
the limit themselves. From this, a removal leaves `Newest` as it is, and an insert
maps to `Record`. `EndpointsSettle` needs the types and `TestsAreTests` only.
Assumed: endpoints and tasks are finite sets.

*Reconciliation.* `SingleFlight` alone is not inductive: a fetch may start only
when nobody waits. `Waits` adds that whoever waits does so for a fetch, and computed
the recorded side by now. `AnswersAreFresh` follows because a fetch stamps its snapshot
when it ends, after everyone who waits for it had asked. `HInv` says that what a fetch
has read of a network is what the chains held, as long as they stood still meanwhile.
The verdict then comes down to sums regrouped by asset and to one fact about rounding:
the deviation, rounded to hundredths, reaches the tolerance exactly when the exact one
reaches it less half a unit, which is how `Differs` states the margin.
*Ledgers*: the running total of the movements telescopes, and the accrual row closes
the gap to the value of the position; the gap is never negative and never shrinks.
*Pages* (`PInv`): offsets number the rows of a listing, and as time passes a row only
moves away from the beginning, so a cursor never skips over one that was not shown.
*Views*: the same sum by user, by day and by partner; a position that a view leaves
out is worth nothing there. Assumed: the book is a table of positions and one of
events, each with its own ids (`BookAssumption`); the seed wrote it
(`SeedAssumption`: positions opened in the past, no movement after the last update,
deposits that add up to the principal and what was withdrawn,
`store.service.ts:295-314`); `None` is not a caller nor `Null` an asset. TLC evaluates
these on the book of `MCReconciliation`.

*Sums.* `SumTheorems` proves what the accounts need of sums over finite sets: order
does not matter, unions, groups, images, multiples, bounds. Induction over subsets is
by a smallest counterexample (`SmallestBad`), as no theorem that takes an operator
can be instantiated.

*Rates.* `Table`: a row's hour is that of its time, its vault had that rate then or
within `Lag`, and no vault has two rows in an hour. `Instances`: a recording that
began at some time is followed by one that begins within two hours, and every
window of two hours since the instance came up, or last failed, has a row. Assumed:
`2 * Lag <= Hour` (a timer is late, and a recording takes, at most half an hour),
and vault ids are unique within a fixture (`BuildAssumption`). `RInv` adds where rows
come from. A recording reads one state of the table of vaults and inserts a row for
every active vault of it, less those whose hour is taken; so every row is explained by
a state that was read in its time, its hour has every active vault of that state
(`Explained`), and rows of one hour that began at different times come from different
states (`Differing`). While the table stands still, therefore, every recording that
shows leaves a row of each active vault at its rate, and the blend of an asset is the
same at each of them. The points of a series are numbered evenly around its middle, so a
flat one has no rise, and no spread. An average weighted by natural numbers lies between
the least and the greatest rate that went in. `TypeOK` needs besides that the deviation
of n rates up to m is below m + 1/2, or there would be no volatility to round to.

*Comparisons.* `UpliftAddsUp` is about the book under any table of vaults. Rows of a
comparison and active positions correspond one to one, so the totals are sums over
positions, and the summary's are the same sums. What a position earns is never
negative, and a principal is positive, so a baseline total is 0 only without a
baseline. The decisions on a position are its routing in the order of the table: the
first is the deposit that `Origin` looks for, and the changes of rate telescope from it
to the last. Assumed: positions and events are tables (`BookAssumption`), and what the
seed writes (`SeedAssumption`): principals are positive, the routing of a position is
in time order and opens with a deposit that names a vault (`store.service.ts:295-314`).
A vault keeps its asset and its place in the table (`VaultAssumption`).

*Onboarding.* Attempts of one call overlap once the proxy has answered for one of
them. `Serves`: an attempt has one handler; one that may still insert (`Creating`) is
either of the attempt the call waits for, or was given up with it, or is in `cut`
(`Follows`). `Creates`: of a user and a handler of one call that is about to insert, the
earlier attempt is in `cut` (`Beside`). With `Belongs`: what each handler has written of the
user and its attribution. `Throttled`: the hits of a key in the window. `Logged`:
rows for what was answered. Assumed: there is a key, and null is not a partner.

*Time of onboarding.* The clock may pass `MaxTime` while clients sleep; `Bounded` shows
that each tick beyond it is paid for by what a client may still sleep, so the clock stays
within `Latest`, which the type invariant needs. `Patient` compares, for a client that met
a block, what it has slept so far with what is left of the block it was told of: when
it gives up, all its sleeps are behind it. `PatienceOutlasts` therefore assumes
`MaxDelay * MaxRetries >= Window`: three sleeps of up to 30 s (`http.ts:22-26`) against
60 s (`app.module.ts:24`). `ReportsAddUp` is sums by group, that a sum over some of the groups
is no more than the sum over all, and that a percentile of the times of a group is
between two of them.

**Only model-checked**, because they are liveness: `CapRestored`, `EveryCallAnswered`,
`CallEnds`. Every invariant and action property of the passing runs is a theorem.

Writing the proofs corrected the model in places where TLC's instance was too
small to show it: `Differs` has the half unit of rounding, a usage percentile is one of the
times, `met` is the first block a call was told of, references of a user's ledger are
numbers and not positions in a set, and the views are compared for partners that own
a position. Of the rates: `held` had kept single vaults, with which a table that lacked
a vault between two states of one tick looked still and yet made a trend; coverage
rounds to nothing below one position in 20000; a decision may leave from the vault of the
position itself (`Places`); and a vault has the types of its columns (`IsVault`).

## 6. Not modelled

- **Campaigns**: the check, the insert and the unique index are those of partners;
  no other part reads campaigns.
- **URL guard, encryption, hashing, webhook signatures**: string parsing and library
  calls; their verdict is an input. Deliveries assume the `ENCRYPTION_KEY` that
  production requires.
- **Status**: a read-only report over counters that other parts keep.
- **SDK resources**: typed wrappers without decisions. Of the transports, a body that
  arrives after the timer was cleared, and `lastResponse`, are left out: an answer
  arrives in one piece.
- **Seeding of users, positions and events**: taken as the initial book. Dates given as
  days ago are computed anew at each boot; within a run the book does not change.
- **`APY_SNAPSHOTS=false`**, loyalty points of a user, scopes other than the one of
  `POST /users` and `GET /usage`, validation of bodies and formats, wording, the
  administrator's own key.
- **Coarser than the code**: the seeding of vaults saves all rows in one step and drops
  the stale ones in another (`store.service.ts:192-236` goes row by row), so no instance
  selects from a half-seeded table; the points of a blend are rounded to whole basis points
  (`analytics.service.ts:193-195` does not round them) and a slope likewise, so a regime
  next to a threshold can differ; an uplift in percent has two decimals where the code has
  four; two recordings may fall on one tick, and their rows into one point of a blend,
  where the code tells their milliseconds apart; in the report a position whose vault was
  deleted counts for its own asset, where the code takes the asset of the first position
  of that vault (`reconciliation.service.ts:298-301`), which differs only if positions of
  one vault are in several assets. No property rests on these.
- In `KeyLifecycle`, statements that fail because Postgres is unreachable, and several
  instances of the service; in `WebhookDelivery`, the `status` of a delivery (no step
  depends on it), equal stamps, and an endpoint's URL and secret.
- Hazards that no property covers are listed with the reason in `PROJECT.json`.
