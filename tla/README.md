# Verification of the Options and Futures Calculator

TLA+ models of the concurrent and stateful core of this repository, the TLC
configurations that check them, and TLAPS proofs about them. Paths are relative
to the repository; `modules/` is `src/backend/src/modules/`.

The program is a C++23 gRPC engine (pricing, finance and a language-model
assistant) behind Envoy, a Postgres database, a Next.js frontend and a
Cloudflare worker for billing. Most of its lines are pure numerics and parsing.
What is hard to get right is the rest: an inference queue that several engine
replicas share through one Postgres table, the backend that mixes its jobs with
local ones, a mirror of the queue into an SGEE cluster, per-caller quotas, the
webhooks that decide who is entitled to what, and a browser page whose stores
have many requests in flight at once. Those parts are modelled.

## 1. Inventory

### 1.1 Modelled

**Inference queue** (`modules/inference_queue.cpp`, table `inference_jobs` in
`migrations/02_inference_queue.sql`). State: one row per job (state, attempts,
fencing token, lease and submit deadlines, result). Operations: `submit_remote`
(count the pending rows and insert, in one statement), `lease` (claim the oldest
pending row, draw a new fencing token), `heartbeat`, `complete` and `fail`
(fenced by token and state), `sweep_once` (expired leases, timed-out
submissions, retention; under a session advisory lock). Every replica runs
submitters, workers and a sweeper against the same rows. Hard: a worker whose
lease expired still writes; replies are lost after the commit; sweepers end half
way; `lease` never looks at `max_attempts`. Correct when: a stored result is
that of the last lease, a job is tried at most `max_attempts` times, a settled
row keeps its outcome, and the pending bound is exceeded by no more than the
racing submitters.

**Postgres admission** (`PostgresAdmission`, `PostgresLeaseSource` in
`modules/inference_admission.cpp`). State: where each RPC handler is, and its
deadline. A handler submits, polls its row, and answers with the outcome or
degrades to the local backend. Hard: its deadline races the sweeper's, its row
may be deleted, its replica may die. Correct when: it always answers, and what
it says agrees with the row for as long as the row exists.

**Decoder backend** (`QueuedBackend` in `modules/inference_admission.cppm`,
`SensenBackend::run` in `modules/assistant_service.cpp`). State: a bounded queue
of promises, the running batch, the slots, an optional lease source. RPC threads
push and block on a future; one thread takes local jobs and leases remote ones
into free slots, decodes in rounds, and on a stop fails what is left. Hard: a
push after the last drain, a notification nobody waits for, a round that fails
with local and remote jobs in it. Correct when: each promise is in exactly one
place and is fulfilled.

**SGEE mirror client** (`SgeeQueueClient` in `modules/sgee_queue_client.cpp`).
State: a ring that drops its oldest payload, two counters, a cached leader. RPC
threads push; one thread finds the cluster's leader and enqueues; the destructor
stops and joins it. Hard: retries after a lost reply, redirects, the stop.
Correct when: every payload is counted once, a counted one was committed, and
the thread leaves nothing behind and does end.

**Quotas** (`modules/quota.cpp`). State: two token buckets per caller, filled
when the caller calls and forgotten an hour after its last call. One mutex makes
a call one step; what is hard is time. Correct when: lazy filling and forgetting
cannot be seen from outside, and the advised wait is enough.

**Billing worker** (`src/workers/billing/src/index.ts`). State: none of its own;
it writes the account's tier in Supabase and mails licences. Stripe delivers
events in any order, concurrently, and again until one is answered 200. Correct
when: the tier follows the subscription, a subscriber has a way in, and events
of other products change nothing.

**Calculator page** (`src/frontend/src/store/`, the panels in
`src/frontend/src/components/`, and `modules/strategy_store.cpp` behind the
saved scenarios). Four stores in one tab, one event loop, no locks, and a
network that answers in any order:

- the calculator (`useCalculatorStore`): the instrument in the header, its
  quote, its option chain, the position's legs, the ticket, the risk-free rate,
  the pricing result and which refusals are drawn over it. Every change of the
  legs prices again; a pricing call first waits for the rate. Hard: quotes,
  chains, rates and prices land after the user has moved on; a call is parked
  across a change of everything it is about; an Undo brings legs back before
  their quote; the engine may answer with the rows of another expiry than the
  one asked for. Correct when: legs, header, chain, ticket and result belong
  together, and what can be priced does get an answer.
- the assistant (`useAssistantStore`): an utterance is parsed by the engine, the
  parameters the user applies drive the calculator, the expiry once the chain
  is there. Correct when: what is shown answers the last utterance, and the wait
  for a chain ends.
- the exercise-style pricer (`useTreePricerStore`): prices the ticket again,
  after a pause, whenever an input changes. Correct when: prices at rest are for
  what is on the page.
- the saved scenarios (`useSavedScenariosStore`): lists, saves, deletes and
  reopens rows of `saved_strategies`. Hard: a save whose reply is lost is still
  running when the user saves again. Correct when: a name has one row.

How they interact: an RPC handler calls the admission, which calls the queue and
the mirror; the backend's lease source calls the queue from the owner thread;
quotas stand before all of it; tiers reach the quotas through API keys and
accounts. The page calls the engine through Envoy; its assistant, pricer and
saved scenarios read and drive the calculator's store within one turn of the
event loop. The assistant runtime (`modules/assistant_runtime.cppm`) installs the
lease source of a backend before it starts it, and so does the model.

### 1.2 Planned

| Component | State | What is hard, and what makes it correct |
|---|---|---|
| SGEE admission and lease runner (`inference_admission.cpp`, `with_leader`) | tasks of the cluster, leases of foreign routes | retries of enqueue and complete after lost replies, back-off on foreign tasks; every call answers, a task's outcome is taken once |
| Encoder queue (`encoder_queue.cppm`) | an atomic count of calls in flight | spilling to the shared queue and entering locally after it degraded; the count returns to zero, a limit holds for what does not spill |
| Postgres pool (`pg.cppm`) | slots, a breaker, a listen thread | a trial call that ends in neither success nor failure; a connection released inside a transaction; the pump outliving its handler |
| Market data (`market_data.cppm`) | caches of chains and rates, last good values | a slow older fetch replaces a newer one; an answer is never older than the limit |
| State refresh (`state_refresh.cpp`) | a session lock, a transaction, `job_runs` | a statement whose error is ignored inside the transaction; a reported run did write |

### 1.3 Left out

Finance, calculator, pricing and tax code, the parsing and verification of
assistant output and the weight store compute on floating-point numbers, text
or bits, one call at a time, and TLC cannot say much about them. API keys,
licences and FIPS mode are cryptography. The schema's policies are enforced by
Postgres. Deployment scripts, probes, model training and the pages other than
the calculator's have no protocol. `PROJECT.json` lists each of them. The `sgee`
and `sensen` submodules are not in the tree: of SGEE, the cluster is modelled as
the mirror client sees it.

## 2. Modules

| Module | Models | Built on |
|---|---|---|
| `JobLedger` | what a job queue promises: open, tried a bounded number of times, settled once | |
| `InferenceQueue` | the table and every operation on it | implements `JobLedger` |
| `PostgresAdmission` | RPC handlers over the queue | extends `InferenceQueue` |
| `QueuedBackend` | callers, lease source, owner thread | |
| `SgeeMirror` | callers, worker, destructor, cluster | |
| `TokenMeter` | an allowance filled every tick, nobody forgotten | |
| `Quota` | the buckets as the code keeps them | implements `TokenMeter` |
| `Billing` | Stripe, accounts, concurrent webhook handlers | |
| `Calculator` | the calculator's store, what the user does to it, the network's replies | |
| `Assistant` | utterances, their answers, the parameters applied | extends `Calculator` |
| `TreePricer` | the pause, the pricing calls and the panel's settings | extends `Calculator` |
| `SavedScenarios` | one user's rows, the statements on them, the tab's calls | |
| `Workspace` | the page: the four of them in one event loop | extends `Assistant` and `TreePricer`, instance of `SavedScenarios` |
| `MC*` | constants for TLC | their module |
| `InferenceQueueProofs`, `PostgresAdmissionProofs`, `QueuedBackendProofs`, `SgeeMirrorProofs`, `QuotaProofs`, `BillingProofs` | theorems | their module |
| `WorkspaceTypes` | theorems about the types of the page and about the saved rows | `Workspace` |
| `WorkspaceProofs` | theorems about what is on the page | `WorkspaceTypes` |

State and actions correspond to the code as follows (`PROJECT.json`, "map",
names the lines of each definition).

- `InferenceQueue`: `row[j]` is the row of submission `j` with its columns;
  timestamps are kept as the ticks left. A statement is one step, except that
  `submit_remote` is two: concurrent statements count the same committed rows
  (`SubmitCount`) before their inserts commit (`SubmitInsert`). A statement that
  commits and whose reply is lost is an action (`LeaseReplyLost`,
  `WriteBackLost`). `sweep_once` is a sequence of statements under the lock,
  with a crash or an error possible between any two, and an `UPDATE` that skips
  the rows another transaction has locked.
- `PostgresAdmission`: `pc[j]` is the place in `submit()` and `await_result()`.
  Reading the row and looking at the clock are two steps. A crash takes the
  handlers, the leases and the sweep of one replica.
- `QueuedBackend`: `queue`, `taken` and `active` are those of the code; a push
  and its `notify_one()` are two steps, since the lock is released between.
- `SgeeMirror`: one action per line of `worker_loop()` that waits or releases
  the lock and per outcome of `process_item()`; the test of the wait's
  predicate and the block are two steps, which is what a notification without
  the lock can fall between. A request whose reply is lost may be committed now,
  later or never.
- `Quota`: tokens are counted in parts of 1/period, so one tick fills exactly
  `capacity` parts and the fractions of the code's doubles are exact; a clock is
  the time since, up to the longest that matters.
- `Billing`: a handler is a chain of awaits, one step each, of any number of
  events at once; each call may fail. `faults` records what went wrong, and the
  properties say which faults they tolerate.
- `Calculator`: `calc` is the store with the calls in flight. Handlers call each
  other (`removeLeg` ends in `calculateStrategy`), so a store function is an
  operator from a store to the next one (`Calculate`, `Switched`, `LoadChain`,
  `AddLeg`), and an action composes those that run in one turn of the event
  loop, React's effects on what changed (`Effect`, `Seeded`) included. The
  counter `calculationSeq` is only compared with its newest value, so a call
  carries `newest` and a new one clears it (`Superseded`); a call is `parked`
  while it waits for the rate and `sent` while the engine works on it. Quotes
  and chains carry no token in the code; they are counted by what they were
  asked for, and their replies look at the symbol in the header, as the code
  does. A price is named by what it is the price of. A chain names the expiry its
  rows are of, apart from the one it was asked for, which the store puts above
  it: `Answers` is what `fetch_chain()` may return (the rows asked for, no rows,
  or another expiry's last good ones) and `ChainLanded` what the store makes of
  it. The select of expiries and that of strikes look at what is listed and at
  the rows (`ExpiriesShown`, `StrikesShown`).
- `Assistant` and `TreePricer` do the same with `asst` and `tree`. The panel's
  effect that resolves a pending expiry runs before any further event
  (`MustResolve`); the one that restarts the pricer's pause runs within the step
  that changed one of its inputs (`TreeFollows`), which also folds the panel when
  a futures symbol takes its place.
- `SavedScenarios`: a save takes its snapshot (`SaveBegins`) and inserts later
  (`SaveEnds`), as one statement at READ COMMITTED does; a connection can break
  in between, which leaves an `orphan` that still inserts.
- `Workspace`: `Event` is the user, `Reply` the network and the timers,
  `RunEffects` the effects.

## 3. Runs

| Run | Question | States |
|---|---|---|
| `queue` | fencing, attempts, the pending bound, one outcome, the ledger | 531 000 |
| `admission` | answers against rows, retention, and the two liveness properties, beside a row that still fills the queue | 66 000 |
| `admission_never_leased` | refutes a comment (below) | |
| `backend` | one place per promise, slots, stop, every call returns | 43 000 |
| `mirror` | counters against commits, the ring, the stop | 169 000 |
| `mirror_shutdown` | the destructor can wait forever (below) | |
| `quota` | the eager meter is implemented, the wait is enough | 141 000 |
| `quota_upgrade` | a changed tier (below) | |
| `billing` | tier, licence, other products' events | 274 000 |
| `billing_cancelled` | a failed tier write (below) | |
| `workspace` | what is on the page belongs together, and waits end | 798 000 |
| `workspace_emptied` | a result for no legs (below) | |

**Bounds, and why they are enough.** Two jobs, two replicas and two attempts let
a lease expire, be granted again to another replica and be written back by both
holders, with a sweep in between; a third of any of them adds no new pair of
actors. In `queue` a lease lasts one tick, and rows are kept no longer, so that
every deadline passes while something else is under way. Its pool is 2, its
bound 1, and it has a third submission: two that count before either inserts do
exceed the bound by one, and the third is the one that a looser count would let
in. It is made or held only until two leases have been granted (`TwoAfterwards`,
`LeasesOfThree`), since what comes later needs two jobs. Larger pools are left
to the theorem (`SoftBound`). The bound is on rows not yet leased: the comment
at `inference_queue.cppm:194` speaks of all pending ones, but a job put back to
pending (`inference_queue.cpp:462`) is counted by no submitter. In the admission
runs the pool is 1, a tick is a lease of 30 s, the deadline is three of them (90 s) and the
retention as long as the deadline, the shortest the code's values allow; with a
pending bound of 1 and the row of an earlier request that nobody may lease any
more, a request finds the queue full until that row is swept. In
`backend` two callers and two leased jobs compete for two slots and a queue of
one, so a caller is refused, a batch is mixed, and jobs are left at the stop.
In `mirror` three payloads on a ring of two overflow it while one is being sent.
In `quota` the minute is 2 ticks, the hour 5 and the sweep's gate 3, in the order
of the code's 60 s, 3600 s and 300 s as far as the sweep's gate lies between
them; a caller with both limits and one with compute units alone (a key's own
limits) are metered. In `billing` four events of one subscription of ours and
one of another product are enough for create, failed payment, recovery and
cancellation, each possibly delivered late or again. In `workspace` the user
does three things, which is enough to start a request, change what it is about
and start another (or undo); replies, timers and effects are not bounded. The
header can be an equity with two expiries, a futures root with a curve or a coin
without a feed: the three ways `setSymbol()` and `loadChain()` go. A position
has up to two legs of three kinds, an option with an implied volatility, one
that expires today and a future, because the refusals of `calculateStrategy()`
tell these apart. Two names and a cap of one row let a save be refused, replace
a row, and race a save whose reply was lost.

`billing`, `backend`, the mirror runs and the workspace runs allow deadlock: a
bounded number of events, calls or user operations, or a stop, ends them.

**Refinements.** `ImplementsLedger` maps a row to its job's entry (pending and
leased are both open; a result is named by the attempt that wrote it).
`ImplementsMeter` maps a bucket to the level a refill would find now, and a
caller without an entry to a full allowance; calls that are refused stutter.

## 4. Fairness

- `PostgresAdmission`: time passes, and a handler that began goes on: its waits
  are timed and its statements have a `statement_timeout`. Nothing is assumed of
  workers or sweepers for `EveryRequestAnswered`. `EveryRowSettles` assumes the
  sweepers: some replica's ticker starts a sweep again and again, and a
  statement of it that is possible again and again does not always fail
  (strong fairness, since an error ends the sweep and the next one starts over).
- `QueuedBackend`: the owner thread is scheduled, and so is a caller between its
  push and its notification. `OfferedIsLeased` also assumes that a fill which is
  tried again and again with room succeeds at times, as it does when Postgres is
  up; and it speaks of a backend whose local load pauses, because local jobs go
  first.
- `SgeeMirror`: the worker and the destructor are scheduled. The cluster owes
  nothing: it may never have a leader.
- `Workspace`: every request ends, with an answer or with a failure, a timer
  fires, and the event loop runs the effects: `WF_vars(Reply \/ RunEffects)`. One
  condition for all of them is enough, since each such step uses up what it
  answers and only the user, who does finitely many things, starts new ones. The
  user owes nothing. `PricedPositionIsAnswered` and `PendingExpiryIsResolved`
  rest on it.
- `Quota` and `Billing` have no liveness properties. That Stripe delivers an
  event until it is answered is in the properties: they speak of the states in
  which no event is left (`Quiet`).

## 5. Proofs

TLAPS proves the following for all values of the constants that satisfy the
assumptions in the modules (`QueueAssumption`, `FiniteJobs`,
`AdmissionAssumption`, `BackendAssumption`, `MirrorAssumption`,
`QuotaAssumption`, `BillingAssumption`, `CalculatorAssumption`,
`WorkspaceAssumption`).

**Queue.** `QueueInv` is inductive (`Invariance`). The properties alone are not:
that a late write is refused needs to know that no lease's token is newer than
its row's and that a token names one lease; that attempts are bounded needs that
a pending row has some left, which only the sweeper sees to; that the overshoot
is bounded needs a bound on rows and inserts in flight together. Hence its
parts: what each state of a row implies about its columns (`RowsOK`), tokens
(`LeasesOK`), first inserts (`CountedOK`) and the overshoot (`FreshOK`). From it
follow `Typing`, `Fencing`, `LastLeaseWrites`, `BoundedAttempts`, `SoftBound`,
`OneOutcome` and `Refinement`. Most actions only make rows "tamer", which is one
lemma (`TameStep`), so that their proofs are short.

**Admission.** `AdmissionUsesQueue` proves that every behaviour of the handlers,
workers and sweepers is one of the queue, so that all of the above holds there.
`AnswersAgree` and `RowsOutliveWaits` need, on top of it, that an answered
request has been inserted and that the row of a waiting one, settled or not, is
kept at least as long as the handler waits (`AdmInvariance`). The assumption is
that both retentions are at least the deadline.

**Quotas.** `Typing` holds whatever tiers a caller is seen with. `Refinement`
assumes that each caller is only seen with one tier (`OneTierEach`), and needs
`QuotaInv`: a bucket has its caller's limits, and one that is metered was last
refilled when the caller was last seen, so that whoever is idle for an hour is
full. That last fact is what makes forgetting invisible, and it uses only that
a minute is no longer than an hour. `RetriesAreServed` is about two calls of a
caller with anything of other callers, sweeps and ticks between them. Its
invariant (`RetryInv`) says that, while a caller waits, its allowance and what
the ticks it still has to wait will add cover the price of the refused call, and
that its buckets can hold that price. The first part rests on the division in
`charge()` being rounded up (`WaitIsEnough`), the second on the calls no wait
can help being told apart (`PriceFits`); that it survives the entry being
forgotten is the refinement above. `WindowsAreBounded` is what the limits are
for: in any window a caller is admitted to no more than a full bucket and what
the window refills, because what is left and what was admitted since the window
opened never exceed that together (`SpentOK`). It speaks of `WindowSpec`, which
is `Quota` with an observer that opens windows and adds up; it has a proof and
no run. Each step of it is one of `Quota` (`ObserverWatches`).

**Backend.** `Invariance` says, for each place the owner thread can be at, which
jobs it may hold there (`PlaceOK`): without that, `OneHome` is not inductive,
because a job is moved in several steps and the lock is released between them.
`PromisesHaveOneHome`, `SlotsAreBounded` and `ExitStrandsNobody` follow for any
finite sets of callers and leased jobs and any limits.

**Mirror.** The counters alone do not add up inductively. The invariant says
where the worker is and what it holds there (`WorkerOK`), that a payload on its
way is in one place (`OnePlace`), that what was committed or may be committed
late is no more than the attempts made so far (`SentOK`), and that there are at
least as many committed payloads out of the way as are counted (`SettledOK`). `CallsAreCounted`, `EnqueuedIsCommitted` and
`ExitLeavesNothing` follow for any cluster, ring and number of attempts.

**Billing.** The handlers of another product's events never go past the place
where they are told apart (`OthersWait`), which is `OthersAreIgnored`. That a
quiet system leaves every subscriber a way in (`SubscribersHaveAWayIn`) needs
that until a licence is mailed the subscription's checkout is not acknowledged
(`WayIn`), and that Stripe's checkout events are of completed ones
(`CheckoutsComplete`). `TierIsOfTheSubscription` supposes that one subscription
is ours (`OneOfOurs`), as the property does; any number of other products' may
be there. Its invariant (`TierInv`): as long as nothing but the mail has failed,
one event is handled at a time and before the newer ones; a cancellation is the
last event of its subscription; and the tier is that of the status, or an event
that will make it so is not yet acknowledged.

**Calculator page.** `PageInv` has a part for each store. For the calculator:
what also holds between two functions of one turn (`Loose`), and, between turns,
that the newest call in flight is for the legs on the screen (`Newest`), so that
the answer it brings is (`Shown`). The lemma that carries the proof is that
`calculateStrategy()` turns any loose store into one that satisfies the
invariant; the handlers then follow by composition. For the chain it takes that
an answer, whatever rows it holds, is of the instrument asked for and that only
rows of another expiry can differ from their label (`AnswerIsLabelled`); for the
assistant, that nothing is shown
while an answer is awaited; for the pricer, that the newest call is for what is
on the page unless the panel is closed or its pause is running. The theorems
hold for any instruments, listings, legs and number of operations.

All of it rests on the types (`TypesHold`), for which each operator on a store
has a lemma that says what it keeps, and the handlers follow by composition. To
be inductive the type invariant says of the assistant that what has been said
and what may still be done together stay within the bound (`AsstTyped`), and of
the saved rows that no two have one name (`SavedInv`), which is `OneRowToAName`:
the insert replaces what is there when it commits, whatever its snapshot held. A delete and an upsert build
the rows that stay one by one (`Without`). The library's induction theorems
cannot be used with the provers at hand, so what holds of every prefix of that
construction is proved from the least length at which it would fail
(`LeastOf`, `LeftExists`, `WithoutKeeps`).

**Only model-checked.** Liveness: `EveryRequestAnswered`, `EveryRowSettles`,
`EveryCallReturns`, `OfferedIsLeased`, `RingDrains`, `PricedPositionIsAnswered`
and `PendingExpiryIsResolved`, which need fairness and `ENABLED`. Every other
property that a passing run checks is a theorem.

## 6. Where the code disagrees

1. `mirror_shutdown`: `~Impl()` requests the stop and notifies without the
   mutex (`sgee_queue_client.cpp:150`). A worker that has tested its predicate
   and has not yet blocked misses both, and `join()` does not return.
2. `quota_upgrade`: a bucket keeps the limits of the tier its caller was first
   seen with (`quota.cpp:312`). After an upgrade, calls the new tier allows are
   refused as ones that can never succeed, for as long as the caller is active.
3. `billing_cancelled`: `handleWebhook()` ignores the result of
   `setSupabaseTier()` (`index.ts:457`) and answers 200, so a cancellation whose
   tier write fails is not delivered again and the account stays on pro.
4. `admission_never_leased`: a comment says that a job nobody leases before its
   deadline falls back to the local backend. The sweeper can fail the row at
   the deadline before the waiter's last poll, and the caller gets the error.
5. `workspace_emptied`: `clearLegs()` (`useCalculatorStore.ts:832`), like
   `removeLeg()` and `setSymbol()`, empties the position and leaves
   `calculationSeq` alone. A request in flight is still the newest, and its
   answer or refusal is shown for no legs, which the comment at line 501 says
   the token prevents.

Seen while modelling, without a run of their own, because the models have the
behaviour and no property that could pass speaks against it:

- A pricing call that was superseded while it waited for the rate goes on when
  the rate lands (`useCalculatorStore.ts:1265` does not look at its token). It
  sets `isLoading`, and its reply is dropped, so the sign stays on.
- Two saves of new names, of two tabs or after a lost reply, count before either
  commits and together pass the cap (`strategy_store.cpp:235`); the comment at
  line 216 says that only a count apart from its insert would.
- `fromProtoLeg()` (`useSavedScenariosStore.ts:108`) drops the contract
  multiplier of a saved futures leg.
- When upstream fails, `fetch_chain()` serves the last good chain of any expiry
  of the symbol (`market_data.cppm:1551`). The store puts the expiry it wanted
  above those rows and calls the chain ready (`useCalculatorStore.ts:1062`,
  1095; `chain.test.ts:196` has such an answer and expects the expiry wanted), so
  a leg can be committed under one date with the strike and price of another.
  `ChainIsTheOneSelected` says what holds all the same.
- Two chain requests of one symbol are not told apart (line 1046): the older
  one's reply, when it comes last, takes the page back to the expiry before.
- `setSymbol()` (line 676) leaves the ticket's strike and premium as they are, of
  the instrument before; and a strike picked in the ticket from the old rows
  while a new expiry loads keeps its price under the new date. The comment at
  `OptionChain.tsx:268` clears the strike because "its price is not the price of
  the new contract".
- A quote and a chain are compared with the symbol in the header alone (lines
  757 and 1046), and one symbol can name two instruments of different classes.
  The model allows such instruments; the runs have none.
- A reopened scenario carries its price as the quote, and no quote is asked for.

Hazards of the code that no list in `PROJECT.json` has room for: jobs put back
to pending are not counted against the bound (`inference_queue.cpp:462`); an
advisory lock that cannot be released stays with the pooled session (line 443);
`notified_ids_` keeps the ids of other replicas' jobs (line 152); the pump's
handler outlives the queue it captures (line 139); the mirror asks a node that
names no leader again (`sgee_queue_client.cpp:375`); `with_leader()` repeats a
call whose reply was lost (line 474).

## 7. What the models leave out

- Queue: the surface and route a worker asks for, notifications (they shorten a
  wait), who owns a lease, the order of equal timestamps.
- Admission: the breaker and the pool in front of a statement appear as a
  failure of the statement; the local backend's answer is an answer.
- Backend: tokens, prompts and the prefix cache. How many steps a job takes is
  chosen freely up to a bound.
- Mirror: the breaker's thresholds (it refuses or allows), the time budget of an
  item (any attempt may be the last).
- Quota: the rounding of doubles; the clock that is read before the mutex is
  taken, so that two calls can see it in the other order; unlimited axes that
  become limited for a known caller, beyond what `quota_upgrade` shows.
- Calculator page: `setSpotPrice` and the dividend yield; the ticket's side,
  type and quantity (of the ticket, its expiry and whether its strike has a
  price are kept); chains that list strikes and no expiry, lists of expiries that
  change, and the age of last good rows (those of the expiry asked for are taken
  for fresh ones, and past their limit they are a failure); what kind of failure
  ends a parse (a denial, a model limit, an error); the greeks, matrices
  and charts of a result; `reset()` and `clearFailure()`, which nothing calls;
  who may use what (a denial is a possible reply). One user has the rows, since
  Postgres keeps users apart.
- Billing: the statuses `trialing`, `paused` and `incomplete`, two subscriptions
  of one address, changes of an address, the licence page.

## 8. Plan

In this order, each with an MC module, a run and its theorems where they apply:

1. `SgeeAdmission`: `with_leader`, the poll loop, `LeaseRunner` and the lease
   source's back-off over the cluster of `SgeeMirror`; abstract specification:
   a task is answered at most once and with an outcome some worker computed.
2. `EncoderQueue`: the in-flight count and the spill, over an abstract queue.
3. `StateRefresh`: the advisory lock, the transaction and the recorded run.
4. `MarketCache`: `TtlCache`, the last good chain and rate; an answer's age.
5. `PgPool`: slots, breaker and pump.
6. An instance of `Workspace` with one symbol for two instruments.

To check everything: `tlc -config X.cfg M` for each run of `PROJECT.json`,
`tlapm M.tla` for each proof module.
