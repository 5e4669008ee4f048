# Verification of the ZuSu trading backend

TLA+ models of the parts of this repository whose correctness depends on
order, timing and interleaving, checked by TLC on small instances and, where a
property matters for every instance, proved with TLAPS. Paths are relative to
the repository; `api` stands for `apps/api/src`.

## 1. The system

A TypeScript monorepo: `apps/api` (Fastify, Prisma over PostgreSQL, Redis),
`apps/web` (React) and `packages/shared` (enumerations, state tables, money).
Everything runs on Node's single thread: code between two `await`s is atomic,
and requests interleave at the awaits. The database transaction is the only
other unit of atomicity.

| Component | Source | State | Operations | Hard behaviour |
|---|---|---|---|---|
| Order lifecycle | `packages/shared/src/lifecycle.ts` | none (tables) | `canTransitionOrder`, `isTerminalOrderStatus` | every producer of statuses must obey it |
| Demo broker | `api/modules/broker/demo-broker.ts` | orders, fills, keys, cash, positions | place, poll, list, cancel, account, positions, reset | lazy replay of market time, partial fills, expiry, retries, rounding, orders competing for cash and shares |
| Circuit breaker | `api/lib/circuit-breaker.ts` | state, counters, openedAt | `execute`, `status`, `reset` | concurrent calls, stale results, lazy cool-down |
| Kill switch | `api/modules/risk/kill-switch.service.ts` | portfolio rows, risk events | `engage`, `release` | decisions on rows read before awaits, failing transactions, sweeping orders one await at a time |
| Trading gate | `api/modules/risk/trading-gate.ts` | none | `evaluate`, `assertCanTrade` | row read before the health snapshot is awaited |
| Portfolios | `api/modules/portfolios/portfolio.service.ts` | portfolios, positions, snapshots | create, update, mark, summarise | environments, sums over rows read at different times |
| Auth sessions | `api/modules/auth/*`, `api/plugins/{auth,security}.ts` | users, refresh tokens, challenges, cookies | login, MFA, refresh, logout | rotation races, reuse detection, lockout counting, sessions older than the factor |
| Web API client | `apps/web/src/lib/api.ts`, `useAuth.tsx`, `LoginPage.tsx` | cookies, refresh in flight, form step | request, refresh | single flight per page, one retry |
| Access control | `api/modules/rbac/access-control.ts`, `packages/shared/src/permissions.ts` | grants, links, owners | scope queries, assertions | one question answered in several places, once per request or once per socket |
| Audit log | `api/modules/audit/audit.service.ts` | hash chain | `record`, `append`, `verifyChain` | serialised appends inside larger transactions, locks taken in two orders, what a verification can miss |
| Clients | `api/modules/clients/client.service.ts` | clients | create, list | audited transactions, a unique reference |
| Live events | `api/modules/ws/gateway.ts`, `api/app.ts`, `apps/web/src/hooks/useLiveEvents.ts`, dashboard queries | sockets, scopes, fetches | register, publish, ping, connect, fetch | events against fetches, stale scopes, closes during the handshake, missed events |
| Health | `api/modules/health/*`, `api/lib/redis.ts` | last snapshot, Redis client | `snapshot`, `/ready`, `persist` | overlapping snapshots on one breaker, a client that gives up |
| Demo data seed | `apps/api/prisma/seed.ts` | all tables | run | interrupted and run again |
| Database invariants | `apps/api/prisma/migrations` | triggers | on write | the last line when a service forgets |
| Broker registry, environments | `broker-registry.ts`, `environment.ts` | constant tables | `forPortfolio`, `forEnvironment` | none |
| Signal lifecycle | `packages/shared/src/lifecycle.ts` | none (table) | `canTransitionSignal` | none yet |

They interact like this. Routes authenticate (`plugins/auth.ts`), ask access
control for the scope and call a service. The kill switch writes portfolio
rows, appends to the audit log in the same transaction, cancels orders through
the broker adapter of the portfolio's environment and announces through the
gateway. The trading gate reads the same rows and the health snapshot, whose
probes run through one circuit breaker per dependency. The browser polls and
listens; what it sees of orders is what polling the broker returns.

What makes each correct: a broker's reports never contradict its ledger nor
the shared table, whatever the polling pattern; a breaker trips, waits and
closes on the counts its thresholds name; a halt leaves a trace, sweeps what
rested and is not undone behind anyone's back; an allowance was true at some
moment; a refresh leaves one usable token, a revoked family yields nothing and
an account that must have a second factor has no session without it; the audit
chain has no forks and tells the present state; the page catches up with what
happened; a reported outage is a real and recent one; profit is what prices
earned; everybody gets the same answer to who may reach a portfolio; transactions
that wait for one another in a circle include a rename; a seed
that ended is complete.

## 2. Modules

| Module | Role |
|---|---|
| `OrderLifecycle` | the shared tables, constant operators |
| `OrderContract` | abstract specification: what any venue promises about its orders |
| `DemoBroker`, `DemoBrokerProofs`, `MCDemoBroker` | the simulated venue, refining `OrderContract`; its theorems; its instances |
| `CircuitBreaker`, `CircuitBreakerProofs` | the breaker with overlapping calls; its theorems |
| `KillSwitch`, `KillSwitchProofs`, `MCKillSwitch` | kill switch, trading gate, resting orders and the actors around them |
| `Health` | health snapshots: `CircuitBreaker` used by concurrent requests, and the Redis client |
| `LiveEvents` | gateway, browser hook and polled query: what a dashboard shows |
| `MonitoringProofs`, `MCMonitoring` | theorems and instances of `Health` and `LiveEvents` |
| `Sessions`, `SessionsProofs`, `MCSessions` | sign-in, second factor and refresh tokens, with the browsers that use them |
| `Records`, `RecordsProofs` | audited transactions over portfolios with the locks they meet, and the hash chain |
| `Valuation` | a portfolio's equity and daily profit, read while the books move |
| `Access` | who may reach which portfolio |
| `Seed` | the demo data seed, interrupted and repeated |
| `PlatformProofs` | theorems of `Valuation`, `Access` and `Seed` |
| `FiniteSums` | lemmas about sums of integer functions, for the books of `DemoBroker` |
| `MCPlatform` | instances of `Sessions`, `Records`, `Valuation`, `Access` and `Seed` |

`KillSwitch` composes the services around one portfolio's trading state,
`Health` composes the breaker with its users, `LiveEvents` and `Sessions`
compose server and browser. The components of `MCMonitoring` and of
`MCPlatform` share no variable; there a behaviour chooses one of them (`part`)
and moves that one only. Their states add up instead of multiplying, and
nothing is claimed about combinations.

Definitions ending in a variation of another's name and commented "Mutant of"
are deliberate bugs. They are not used by any specification; substituted for
the definition they are named after, each makes one property fail, which shows
the property is sensitive to the code.

### 2.1 DemoBroker

*Correspondence.* `now` is `this.now()` in match slices of
`MATCH_SLICE_MS`; `orders`/`placed` are `this.orders` with the key of
`ordersByIdempotencyKey` inside the record; `cash` and `position` are the
account. A call is synchronous JavaScript, so `pc` tells where the call in
progress is, and neither the clock nor another call moves meanwhile. `settle`
(the heart of the file) is split at the pass of its `while` loop: each pass is
one action named for the way it leaves the pass (`SliceClosed`,
`SliceUntriggered`, `SliceNotExecutable`, `SliceGivesUp`, `SliceNothingLeft`,
`SliceUnaffordable`, `FillPartially`, `FillCompletes`), and the code after the
loop is `LeaveLoop` and `FinishUnfilled`. `cancelOrder` is a settlement followed
by `RequestCancel` and `ConfirmCancel`; the account and list calls settle every
order in turn (`SettleAll`).

*Abstractions.* The deterministic price path is an arbitrary sequence of
quotes, revealed as time passes and remembered so that a replay sees the prices
of the time it replays. Money is integral with the roundings of `roundMoney`
and `roundQuantity` (half-even division, truncation) in place; the weighted
average keeps `AvgScale` steps per price unit. A calendar day has `DayTicks`
ticks, of which `ClosedTicks` are closed; `ClosedDays` are weekends. The
pre-market, regular and after-hours sessions are alike to the matching loop and
are one. A Halted session has no producer in the simulator.

*Assumptions.* `VenueAssumption` includes `MaxSlices <= ClosedTicks`: the slice
budget of one settlement (900 s) is shorter than the closed part of a day. It
is what makes `DayOrdersFillOnTheirDay` true; with a longer budget a single
late poll could replay into the next session before the expiry check runs.
`SaleAssumption` says that a sale brings in at least its fees: the impact of a
slice is at most half of the price (3 bps in the code), the rate on the notional
a quarter at most (0.278 bps), and a bid is at least 16 times the fee per share
(the fee is a sixtieth of a cent, and the path of the cheapest instrument stays
above 14 dollars). No line of the code states it; without it a sale could
overdraw the account, and only `CashNeverNegative` uses it.

### 2.2 CircuitBreaker

`Start` is `execute` up to `await fn()`, `Succeed` and `Fail` are what follows
the await; any number of calls overlap. `elapsed` is `now() - openedAt`, kept up
to the timeout it is compared with. The dependency (`healthy`, `Outage`,
`Repair`) is external: a call may fail if it overlapped an outage. `streak`,
`wins` and `sinceOpened` are history variables that count what the code does
not, so that the properties do not repeat its counters.

### 2.3 KillSwitch

One action runs from one `await` to the next; a transaction is one action.
`op[e]` is the local state of an operator's request (targets found, portfolio in
hand, orders still to cancel), `gate[g]` that of a gate evaluation with the
row's verdict as it was read. Reconciliation and the order manager are not in
the repository (the states and comments are); they appear as the external
actions the code provides for: a mismatch sets and its resolution clears
`RECONCILIATION_ERROR`, an allowed order is submitted. `EngageFails` covers both
an aborted transaction and one whose acknowledgement is lost. `cleared` is a
history variable: the evaluations that overlapped a moment at which the
portfolio was open.

### 2.4 Health

A request is one user of the breaker. `CheckDatabase` is `execute` up to the
query, `Refused` its `CircuitOpenError`, `DatabaseUp` and `DatabaseDown` the
answer, `OpenClient` and `CheckRedis` the rest of `snapshot`, which ends by
writing `lastSnapshot`. `Services`, `Overall`, `Readiness` and `Blocking` compute
what `/ready` answers and the gate refuses for. The Redis client (ioredis, as
`lib/redis.ts` configures it) connects, retries and gives up for good. The
in-process demo venue always answers, so its own breaker never opens and is
left out. `sinceFailed` is a history variable.

### 2.5 LiveEvents

`row` counts versions of the portfolio's row; answers and events are versions.
`engage` commits (`Engage`) and publishes later (`Announce`); `release` does not
publish. Each socket has the browser's end (`link`), the server's handshake
(`server`: `Connect`, `ReadUser`, `Register`) and its `Subscriber` (`sub`).
`Cut` is a connection that dies without a word, `Restart` a new process. The
query follows React Query: an event drops a fetch in flight and asks again,
except during the very first load, which it joins (`HandleEvent`); polling
leaves a fetch alone; errors keep the old data. `heard` and `sub.beats` are history.

### 2.6 Sessions

One account. A handler runs from one `await` to the next; `call[c].pc` says
where it is, `call[c].row` what it has read. `flight[p]` is a page's
`refreshInFlight` together with the server's `refresh` that it awaits. Pages
may share a cookie jar (two tabs) or not (two devices). Secrets, tokens and
families are numbered in order of creation; a code is the number of the secret
it was computed from. `LockExpires`, `AccessExpires` and `RefreshExpires` are
time; `Disable` is administration. `verified`, `excused`, `ended` and `alarms` are
history. Timing-equalising work, password hashing and the audit entries are
left out.

### 2.7 Records

The transactions of `PortfolioService.create` and `update`, `ClientService.create`,
the kill switch and `recordSafe`, as lists of statements (`Statements`) that
interleave under READ COMMITTED. A hash is the sequence of payloads it covers,
that is, hashing is injective. `Alter` damages storage once, to say what
`verifyChain` finds.

PostgreSQL is external; what is modelled of it is whom a statement waits for:

- `row`: an UPDATE waits for the row and then sees what was committed. One that
  changes the name changes a key (`portfolios_name_environment_key`) and needs
  the row for itself; the others share it with foreign keys (`RowBlockers`).
- `index`: a new name or `externalRef` waits, with the row held, for a
  transaction that is writing or replacing the same value (`IndexBlockers`). A
  value that is taken is an error, that is, a `Rollback`.
- `record`: `pg_advisory_xact_lock` waits for the chain, which is then read.
- `insert`: the entry's `portfolio_id` is a foreign key to `portfolios`: with the
  chain held, it waits for somebody else's rename of that row (`KeyBlockers`), and
  afterwards shares the row until it commits (`Sharing`).

Everything is held until `Commit` or `Rollback`; the transaction that the
database aborts to end a deadlock is a `Rollback`. The closing entry of the seed
takes the same locks as `DenyAccess` (chain, then row) and is not a transaction of
its own here.

### 2.8 Valuation, Access, Seed

`Valuation` reads at the four moments of `summarise` (`ReadRow`, `ReadBooks`,
`MarkPrices`, `Summarise`) while deposits, trades, prices, quotes and midnight go
on. It has one symbol: a portfolio in which some positions have a quote and
some have none, where `everyPositionMarked` decides, is not distinguished from
one without a quote.

`Access` translates the computations of scope: the list a browser is told, the
filter of queries, the check of a portfolio named by a request, and the filter a
socket is registered with (`Register`), of which each user has one at a time.
`changed` is a history variable. `LiveEvents` follows one portfolio that exists
when the page opens; of one created later, a page learns by polling.

`Seed` goes through the parts of `seed.ts` row by row: those that upsert each row
are `Keyed`, the others are skipped as a whole when their check finds a row;
`Interrupted` may happen at any await.

## 3. Runs

All constants are in the `.cfg` files. The numbers are distinct states.

| Run | Instance | Shows |
|---|---|---|
| `broker_kinds` (1.22 M) | one order, all 33 kinds (side x type x time in force, one dust order), 13 ticks over three days, the second closed, two quotes | types, `StatusTellsFills`, `FillOrKill`, `ExecutionsInSession`, `DayOrdersFillOnTheirDay`, refinement of `OrderContract` |
| `broker_account` (1.20 M) | three orders, buys of three lots and sells of two over liquidity of two, cash for three | `CashNeverNegative`, `LedgerReconciles`, `CostBasisReconciles`, `OneOrderPerKey` |
| `broker_liveness` (62 k) | one resting order over two days, fair polling | `DayOrdersEnd` |
| `kill_switch` (276 k) | an administrator and a manager, two portfolios (one without an adapter), one order, one gate evaluation | `HaltLeavesTrace`, `SweepComplete`, `AllowedWasOpen`, `RestingOrdersGo` |
| `monitoring` (215 k) | two health requests, thresholds 2/2, timeout 2, one Redis retry; one socket at a time, two changes of the row | breaker: types, `ClosedWhileTolerable`, `TripsAtThreshold`, `ClosesAfterSuccesses`, `StaysOpen`, `Recovers`; health: `DownIsFresh`, `ReadyRecovers`; dashboard: `HeardIsShown`, `ShownEventually`, `DeadSocketsGo` |
| `platform` (1.34 M) | sessions: two calls in three layouts of tabs and browsers, three requests, three tokens, lockout at two, one secret; records: two transactions over two names and a client reference, with one portfolio, three entries and a horizon of two, or two portfolios and two entries (`locks`); valuation: five moves, two quotes; access: one user, two clients, two portfolios; seed: three runs | `OneLiveToken`, `AlarmsExplained`, `RevocationFinal`, `MandatoryVerified`, `LockHolds`; `ChainLinear`, `TamperEvident`, `LastAuditIsCurrent`, `DeadlockNeedsRename`; `PnlIsMarketGain`, `EquityNeverInvented`; `ScopesAgree`; `CompleteUnlessCut` |
| `limit_price`, `short_sale`, `single_trial`, `mismatch_stands`, `pre_enrolment`, `socket_scope` | | the divergences of section 5 |

*Why the bounds are enough.* `broker_kinds`: the kinds do not influence each
other except through cash and positions, which `broker_account` covers; 13
ticks let every kind be placed before, in and after a session, be polled once
after a whole day, and cross the closed day. Three lots over liquidity two give
partial fills and the thin slice FOK must refuse; the two quotes lie on both
sides of every limit and stop. `broker_account`: cash for three lots and three
orders give orders that run out of cash untouched and in mid-fill, and
positions that grow, shrink, close and flip. `broker_kinds` has one order on a flat
account, so all its SELL kinds are rejected when placed: what it shows of fills
it shows of BUY; sells execute in `broker_account`, and the theorems cover both
sides for every kind. In `kill_switch` two requests are
enough for every pairwise race; `RiskCap = 1` tells none from some, which is all
`release` distinguishes.

`monitoring`: thresholds of two are the smallest at which a count can be off by
one in both directions, and two requests give a stale result next to a fresh
one. Two changes let an answer and an event be of different versions in either
order; a browser opens one socket after another, and one slot already gives a
server end that outlives its peer, because the slot is taken again only when
both ends have let go.

`platform`: the hazards of `Sessions` are races of two; three tokens are a
sign-in, a rotation and one more of either, three requests let a page sign in,
fail and retry while the other acts. With two failures to a lock, parallel and
successive failures are told apart. One secret means that a second enrolment of
an account that has a factor is not reached; `MandatoryFactorHolds` covers it. In `Records` two transactions meet at every
statement, and three entries with a horizon of two give an alteration in front
of, at and behind the horizon. `locks` has the two portfolios and two names that a
circle of two renames needs; rename against denial, and two renames to one
another's names, are both reached as deadlocks. Five moves let `Valuation` buy, take a snapshot,
pass midnight, and change price and flows after it. `Access` quantifies over
users and portfolios one at a time; two clients tell the owner from a link. Three runs
of the seed can interrupt each other twice in different parts.

*Symmetry* is used in `broker_account` only, over keys, which nothing orders;
never in a run with a liveness property.

*Deadlock* is not checked where the system may stop: once the bounds are used
up (`platform`, `pre_enrolment`), where transactions wait for one
another in a circle (`Rollback` ends it), or where no actor asks for anything.

*Fairness.* `DemoBroker!FairSpec`: a call in progress finishes (it is
synchronous code: WF of `Settle`), time passes and the dashboard's polling asks
for all orders again and again between other calls (SF, because each is
disabled while any call runs). `HealthFairness`: time passes, every query and
ping is answered, and snapshots are asked for again and again, by the load
balancer, the dashboard and each gate evaluation; nothing is fair about outages,
`Recovers` and `ReadyRecovers` are conditional on their end. `LiveFairness`: the
interval of the query fires (WF of `Poll`), and a request repeated for ever is
not answered with an error for ever (SF of `List` and `Show`, which an event can
interrupt); no socket, event or grant is fair. `KillSwitch!FairSpec`: awaits of a
running request are answered (WF of `Proceed`), no request is assumed to be
made. In `monitoring`, `HealthFairness` is required of the behaviours that move
`Health`; `LiveFairness` asks nothing while no page is mounted.

## 4. Proofs

TLAPS proves the following for all values of the constants satisfying the
named assumptions (which TLC evaluates in every run).

*DemoBroker* (assumes `VenueAssumption`, `PriceAssumption`, `RequestAssumption`,
and for the cash and the limits `SaleAssumption`).
`TypeOK` is not inductive: matching is typed only because the order in progress
exists, and the fills stay within the request only because a finished order is
not matched. The inductive invariant `IInv` adds, order by order, what status and
quantity say about each other (`Sound`), that the table holds exactly the
placed orders (`TableFull`), and what the call in progress may rely on at each
`pc` (`CallSound`). Two lemmas carry the steps: `ReturnPreserves` for those that
end the work on an order, `WorkPreserves` for those that go on; each of the
fourteen actions of `Settle` is reduced to one of them. From `IInv`:

- `VenueTypeOK`, `StatusNeverContradictsFills`, `FillOrKillIsAllOrNothing`;
- `KeyNamesOneOrder`, with `SettleReports`: a pass of `settle` leaves the book
  alone or reports one order, never touching a key;
- `VenueKeepsContract`: the refinement of `OrderContract`, by mapping every
  step to `Accept`, `Report`, `Forget` or a stutter;
- `ExecutionsKeepTheirTime` and `DayOrdersKeepTheirDay`, from `ClockInv`:
  `matchedTo` is past every execution of the order and at most one tick ahead of
  the clock, and a DAY order that is open between two calls was not matched
  beyond the end of its day. The slices one call replays (`Late`) therefore end
  inside the night, where nothing executes (`NightIsClosed`), and the call that
  replays past midnight also expires the order;
- `CashIsNeverOverdrawn`: a purchase is compared with the cash of its moment, and
  a sale is made at half the bid at least (`SalePrice`), which covers its fees
  whatever is rounded (`SaleCoversFees`);
- `LedgerAlwaysReconciles`: each total is a sum over the orders of a sum over
  their executions. A step is a fill, which appends one execution to one order
  (`FillStep`, `FillTotals`), a reset, or leaves executions, account and the
  requests of the orders placed alone (`QuietStep`);
- `CostBasisAlwaysReconciles`, from `BooksInv`. For one position, reducing,
  closing and flipping lose nothing (`ReducedCost`), and adding loses half a
  rounding step per share held at most (`AddedCost`). The bound of the property
  is inductive only together with: no position is larger than all that was
  traded, so that a loss per share held is one per share traded;
- `LimitsHoldUpToImpact`: the run `limit_price` refutes that a limit
  order executes within its limit; this bounds by how much it may miss it. The
  quote was within the limit (`Executable`) and `applyFill` books the quote moved
  by the impact of the slice, rounded (`BuyNearLimit`, `SellNearLimit`);
- `EveryCallEnds`: `Work`, the passes left through the matching loop plus a whole
  settlement for each order a sweep has still to visit, is a natural number that
  every step of `Settle` decreases, so a call returns whatever it meets.

The last two have no run property of their own: they were checked on the
instances of `broker_kinds` and `broker_account` before they were proved.

*FiniteSums.* The community modules define the sum of a function by choosing
elements of its domain in an unknown order. The module proves that any element
may be taken out first (`SumSplits`), and from it how a sum changes with one value
(`SumChanges`), grows by one element (`SumExtends`) and ignores zeros. Induction
is over sets of numbers instead of predicates (`NumbersAll`, from the well-founded
order of the naturals), and the recursion exists because it exists up to every
cardinality (`SumExists`).

*CircuitBreaker* (assumes `BreakerAssumption`). The invariant relates the code's
counters to the history: while closed, `failures` equals `streak` and is below
the threshold; half-open, `successes` equals `wins` and is below its
threshold; open, the cool-down `elapsed` never exceeds the time since opening. From it `BreakerTypeOK`,
`NeverClosedOverThreshold`, `TripsExactlyAtThreshold`,
`ClosesOnlyAfterSuccesses` and `StaysOpenForTimeout`.

*KillSwitch* (assumes `SwitchAssumption`). `IInv` adds to the types and the trace
that orders rest only where there is an adapter, because the gate allows
nothing else (`AdapterOnly`; without it a sweep of a portfolio without an
adapter would be complete by luck), that an evaluation holding an open verdict
has seen the portfolio open (`ReadWasOpen`), and that the orders resting at a
halt are listed or gone (`SweepCovers`). Steps of requests go through
`RequestStep`, all others through `OtherStep`. From it `SwitchTypeOK` (whose type
invariant says that no request leaves its caller's scope), `HaltsAreTraced`,
`SweepsAreComplete` and `AllowancesWereTrue`.

*Health and LiveEvents* (`MonitoringProofs`; assumes `BreakerAssumption`, `LiveEventsAssumption`). Every
step of `Health` is a step of `CircuitBreaker` or leaves it alone
(`SnapshotsKeepBreaker`), so the breaker's invariant is available; with
`OpenSinceFailure` - while OPEN, the last failure is no older than the
cool-down - it gives `OutagesAreFresh`. `HeartbeatDropsDead` needs that a
subscriber whose peer is gone and who has been pinged once is marked not alive.
`PageKeepsUp` rests on what a fetch may still bring: an answer on its way is at
least as new as everything handled since it was asked for, and so is a version
announced, because engage commits before it publishes.

*Records* (assumes `RecordsAssumption`). `RecordsInv` says what a transaction may
rely on at each statement (`OpenSound`), that whoever holds a lock has done the
statement that takes it (`LocksHeld`) and that the first link an alteration
broke stays broken (`DamageStays`), whatever is appended later. From it
`AppendsFormOneChain`, `VerificationDecides` and `OnlyRenamesDeadlock`: in a circle
without a rename nobody waits in `insert`, because only a rename blocks a foreign
key; then nobody waits for the chain, whose holder is about to insert or
commit; then nobody for an index, whose holder comes after it; and then nobody
for a row. The order of locks is row, index, chain, and only a rename turns it
round.
`AuditTellsThePresent` needs `AuditInv`: a transaction that wrote a row holds its
lock, and the row is still as it wrote it, until its entry is committed with it
(`HoldsItsRow`, `TellsItsRow`), and an identifier being created is known to nobody
else (`AloneIfCreating`); so entries about a row are in the order of its writes.

*Sessions* (assumes `SessionsAssumption`). `MandatoryVerified` is made inductive by
what the records in flight promise between two awaits (`Proper`): a handler that
is about to issue a session of an account that must have a factor has had a
code checked, and one that is about to write the lockout columns read them
unlocked. Each action is one lemma (`...Keeps`). From it `MandatoryFactorHolds`
and `LocksHold`. The tokens need `TokensInv`: one browser holds a family
(`OneBrowser`: its cookie, its refreshes, its sign-outs and the answer to its
sign-in); unless the family is excused, one request at a time uses it and
presents its newest token (`InTurn`), where the cookie may lag only while the
answer that replaces it is on its way (`Changing`); and a family that was ended
has neither a live token nor a refresh that read one (`Closed`). From it
`OneTokenIsLive`, `AlarmsAreExplained` and `RevocationsAreFinal`.

*Valuation* (assumes `ValuationAssumption`; like the next two in `PlatformProofs`).
What is held is worth what a snapshot said plus what prices have earned and the
money moved since (`BooksBalance`: trading at the price moves nothing), and a
reader under which nothing changed holds what is there (`ReadIsCurrent`). From
it `PnlAlwaysIsMarketGain` and `EquityIsNeverInvented`.

*Access* (no assumption) and *Seed* (assumes `SeedAssumption`). `ScopesAlwaysAgree`
needs that grants name portfolios that exist, and that a socket's filter is
right about every portfolio not noted as changed (`SocketKeepsScope`): each
action notes all users whose scope it changes (`ConcernsKeeps`). `SeedCompletes` needs
that a checked part is half written only where a run was interrupted or is
still at it (`Partial`), and that what the running seed has passed is done (`Passed`).

*Only model-checked.* Every invariant and every action property of the passing
runs has a theorem. Liveness has none: `DayOrdersEnd`, `Recovers`,
`ReadyRecovers`, `ShownEventually` and `RestingOrdersGo` rest on fairness, and the
prover does not reason about `ENABLED`. The counterexamples of section 5 are
instances and need no proof.

## 5. Where the code and its documents differ

Each of these has a run whose counterexample is the scenario.

- A limit order can execute worse than its limit: impact is added after the
  comparison (`demo-broker.ts:394`; test "at or better than its limit").
- Two sells covered by the same shares both execute (`demo-broker.ts:556`; "does
  not permit short selling").
- A half-open breaker lets every caller through (`circuit-breaker.ts:65`; "A
  single trial call").
- `engage` and `release` can overwrite a mismatch recorded after they read the
  row (`kill-switch.service.ts:81`, `:160`; "do not weaken it").
- A session opened before the second factor was set up outlives it by one
  automatic refresh (`auth.service.ts:313`; "must not survive the change",
  `plugins/auth.ts:58`).

- A socket keeps the scope of the moment it was registered (`app.ts:134`; "the
  same portfolio scope as the REST API", `gateway.ts:18`): events of a portfolio
  created or granted later are not delivered, those of one taken away still are.

The following are modelled, most of them as the exceptions the properties name;
they have no violation run.

- An administrator is told the ids of all portfolios (`auth.service.ts:394`), and
  `ScopesAgree` says so; `packages/shared/src/schemas.ts:79` says of that list
  "Portfolios this principal may read. Empty for an admin (= all)".
- The kill switch cancels every open order, exits too
  (`kill-switch.service.ts:204`); `API.md:153` says "resting entry orders".
- A quantity that rounds to zero is accepted and rests (`demo-broker.ts:272`),
  and IOC or FOK orders rest through closed or untriggered slices (`:357`).
- The seed is "safe to re-run" (`seed.ts:8`) except when it was interrupted
  inside a part that it checks as a whole (`CompleteUnlessCut`).
- `/ready` answers 503 when Redis is down, although its absence must not block
  (`redis.ts:6`) and the route names the database only (`health.routes.ts:34`);
  after its last retry the client never comes back. `ReadyRecovers` assumes a
  client that is connected again, and says nothing about this.
- A rename of a portfolio holds its row and waits for the chain; a refusal of
  access to it (`access-control.ts:84`) or the closing entry of the seed
  (`seed.ts:47`) holds the chain and waits for the row; two renames to one
  another's names wait for one another. The database ends such a deadlock by
  aborting one of them: a `PATCH` that fails, or a refusal that `recordSafe` does
  not record (`DeadlockNeedsRename`).
- A gate decision can be older than a halt (`trading-gate.ts:123`):
  `AllowedWasOpen` says no more than that the row was open when it was read.
- A refresh that has read its token before the family is revoked adds a live
  token to it afterwards (`RevocationFinal`).
- Parallel failed sign-ins count as one, and a late failure or success undoes a
  lock (`LockHolds`).
- `verifyChain` sees neither alterations behind its horizon nor one of the last
  row that also changes its hash (`TamperEvident`).
- Money that moves between the last snapshot of a day and midnight is counted
  as the next day's profit (`PnlIsMarketGain`).

## 6. Not modelled

- Money formatting, option pricing and the option chain, bar and quote
  generation beyond the price path: pure functions of no consequence to state.
- Cryptography, password hashing, redaction, canonical JSON, logging,
  configuration, the Prisma wrapper, rendering, CI and containers.
- The triggers of the migrations: the order tables they guard are written by no
  code yet; that the audit log cannot be updated or deleted through the API is
  built into `Records`.
- Operations without a caller: `seedPosition` of the demo broker, `persist` and
  `lastKnown` of the health service, the signal table. The list of
  clients, a read.
- The confirmation dialog of `KillSwitch.tsx`, which decides by the state shown.

## 7. Plan

1. The dialog's state in `LiveEvents`, with a property about what was confirmed,
   and a retry of engage-all in `KillSwitch`.
2. The safety half of the other liveness properties as theorems, as
   `EveryCallEnds` is for the venue's calls: that an open order of an earlier day
   is ended by its next complete settlement, and that a breaker past its timeout
   refuses nobody.
