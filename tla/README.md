# A TLA+ model of the asset repayment service

The service under `src/src` receives notifications of bank transfers, finds the
deployment (a financed asset) the customer is repaying, and moves its balance.
Notifications are repeated, overlap, time out and fail half way; the balance
must nevertheless be moved once, by the right money, and no credit may be lost.
This directory holds TLA+ modules that model that machinery, TLC runs that check
them on small instances, and TLAPS proofs about every one of its modules, for every
instance.

Paths below are relative to `src/src/internal` unless they start with `src/`.

## 1. The system

| Component | State it keeps | Operations |
|---|---|---|
| Payment ledger: `infrastructure/database/repositories/payment_repository.go`, the migrations | tables `payments` (append-only, key `transaction_reference`) and `deployments` (materialised `amount_paid`, `payment_count`, `status`, ...) | `Apply` (one statement: UPDATE, split, INSERT), `Record`, `replay`, `GetByReference` |
| Payment service: `domain/payment/service.go`, the HTTP handler and use case above it | none; each request is a goroutine | `Accept` (cache, then queue or inline), `Process` (route, then apply or record, then cache) |
| Deployment service and repository: `domain/deployment/service.go`, `deployment_repository.go` | rows of `deployments`; one open deployment per customer (partial unique index) | `Create`, `Resolve`, `GetByCustomerID`, `GetPosition` |
| Cache: `infrastructure/cache/cache.go` | Redis keys: customer to deployment, reference to result, with TTLs | `GetRef`, `SetRef`, `GetResult`, `SetResult` (all best effort), `InvalidateRef` (no caller) |
| Queue: `infrastructure/queue` | a Redis stream, its consumer group with pending entries, a dead-letter stream, messages in the memory of workers | `Enqueue`, worker `run`/`handle`, `reclaim`, `deliveries`, `deadLetter`, `ack`, start and stop |
| Repayment position and money: `domain/deployment/entity.go`, `src/src/pkg/money` | none: pure functions of a deployment row and a date | schedule, arrears, coverage, projection, split, proration, parsing |
| Validation: `domain/payment/entity.go` | none | `Notification.Validate` |
| Admission and middleware: `src/src/pkg/middleware`, `server.go` | a counting semaphore, the open requests | load shedding, signature, body limit, timeout, panic recovery, drain at shutdown |
| Configuration: `config/config.go` | the settings, fixed at start | `New`, `Validate` |
| Health, metrics, wiring | gauges and counters, the list of lifecycle hooks | none that touch money; the stop of the process |

How they interact: a webhook request runs `Accept`, which asks the result cache,
and then either runs `Process` itself or appends the notification to the stream
and answers 202. A worker reads the stream and runs the same `Process`. `Process`
asks the deployment service for a route (cache, then database), and calls
`Apply` or `Record`, whose SQL statement is the only writer of the ledger. The
components share nothing but Postgres and Redis, so every call is a point where
another goroutine, another replica, a timeout or a crash can come between.

What is hard:

- concurrency inside one SQL statement: the duplicate probe is a snapshot, the
  row lock re-reads, the unique key decides, and a loser rolls back a balance it
  has already moved;
- stale data between calls: routes and results out of the cache, a row read by a
  statement of its own after a lost race;
- failure between calls: an answer lost after a commit, an enqueue that timed
  out and arrived, a lost acknowledgement, a dead letter that cannot be written;
- at-least-once delivery: workers die, are robbed of their batch by the
  reclaimer while alive, and messages that can never be processed must retire;
- a Redis that loses its data, the stream together with the consumer group, while
  the workers go on;
- one amount in four spellings: text of the provider, JSON on the queue, a
  `NUMERIC(24,6)` column, text of an answer, with limits set at each place;
- shared resources of a process: a slot must come back however a request ends,
  and a stopping process may not close what its workers and requests use;
- roundings that meet: an instalment rounded by itself against an expectation
  rounded once.

What makes each component correct is stated as properties, in section 4.
`PROJECT.json` lists the hazards line by line, with the properties aimed at
each and the ones nothing covers yet.

## 2. The modules

```
Ledger             what a ledger promises: atomic credits and filings
  ^ implemented by
ApplyStatement     the SQL statements of concurrent sessions, step by step
ApplyStatementProofs   theorems about ApplyStatement
PaymentService     goroutines over cache, queue and (atomic) ledger; implements Ledger
PaymentServiceProofs   theorems about PaymentService
Inbox              what a queue promises: a message waits until it is dealt with
  ^ implemented by
PaymentQueue       the stream, its group, its workers, the reclaimer
PaymentQueueProofs theorems about PaymentQueue
Money              amounts between text, decimals and columns
  ^ used by
MoneyProofs        lemmas about Money: an amount stays the amount it is
Intake             a request's content: settings, validation, encoding, columns
IntakeProofs       theorems about Intake
Repayment          the position: arithmetic over days and payments
RepaymentProofs    theorems about Repayment
Pod                one process: middleware, semaphore, workers, shutdown
PodProofs          theorems about Pod
SumTheorems        induction and sums over finite sets, for the modules *Proofs
MC*                instances of them for TLC, with the .cfg files
```

The layers fit by abstraction. `ApplyStatement` shows that `Apply` and
`Record` are atomic, by implementing `Ledger`; `PaymentService` takes them so, and
implements `Ledger` in its turn: the caches, the queue and the retries around the
statements move no balance of their own and rewrite no row. `PaymentService` has the
queue as a set of unacknowledged notifications that any worker may be handed at
any time; `PaymentQueue` has the stream in detail and `Process` as a step that
succeeds, fails or is refused. What its abstract `Inbox` may `Drop` or lose in a
`Break`, the coarser queues of `PaymentService` and `Intake` may drop and lose too:
an entry has *room* for `MaxLen` newer ones, and when they have come, XADD may drop it
at any time, read or not. `Intake` takes one request at a time and has its
content in detail: what `PaymentService` calls a notification is what passes
`Intake`'s `Valid`, with the amount as a number of minor units. `Pod` has the requests and workers as work that
ends some time: it is about what they hold meanwhile.

### Ledger

`Credit` and `File`: a row and a balance, in one step, for a reference that has
no row. It is the abstract specification of the statements and of the service.

### ApplyStatement

One session is one pooled connection; its statement is `begun` (the `NOT
EXISTS` probe, an uncorrelated subquery of the snapshot, has found nothing),
`moved` (the UPDATE holds the row lock and has computed the row it returns),
`inserted` (the INSERT holds the primary-key entry) and then committed, or it
lost and is at `replay`.

| Action | Code |
|---|---|
| `BeginApply`, `Move`, `Insert`, `Conflict`, `Commit` | `Apply` and `applyPaymentQuery`: probe; CTE `moved`; CTE `recorded`; SQLSTATE 23505; end of the autocommitted statement |
| `BeginRecord`, `Insert`, `Conflict`, `Commit` | `Record`, `ON CONFLICT DO NOTHING` |
| `Lookup` | `replay` / `GetByReference` after a lost race |
| `Abort` | deadline, lost connection or database restart before the commit |
| `Advance`, `AppliedPart`, `AppliedRow`, `FiledRow` | the SET list, CTE `split`, the two SELECT/VALUES lists |

`HoldsRow`, `HoldsKey`, `RowFree` and `KeyFree` are Postgres's row lock and
unique-index wait, which the code relies on (READ COMMITTED, its default). The
foreign key's share lock does not conflict with an UPDATE of non-key columns and
is left out, and so are the columns no property tells apart. Commits are
durable in the model, see section 7.

### PaymentService

State: the ledger rows (with the balance before and after), the created deployments
with their balance, both caches,
the set of queued and the set of dead-lettered notifications, the goroutines,
`outstanding`, what the provider will still retry, and `room`, how many entries may
still follow a notification's newest one on the stream before Redis need not keep it. A goroutine is a webhook
request, a worker with one message, or a registration; every action is one call
to Redis or Postgres with the computation after it.

| Action | Code |
|---|---|
| `Receive`, `LookupHit`, `LookupMiss`, `Enqueue`, `EnqueueFails` | `ApplyPaymentUsecase.Execute`, `Accept` |
| `Appended` | `XADD MAXLEN ~`, with every trim Redis may choose |
| `Deliver`, `Settle` (in `Reply`) | `worker.handle` |
| `RouteCached`, `RouteMiss`, `RouteRead`, `RouteFails`, `FillRoute` | `Resolve`, `isRoutingFailure` |
| `Record`, `Apply`, `CacheResult`, `Reply` | `Process`, `record`, `PaymentRepository.Apply`/`replay`, `SetResult` |
| `StartCreate`, `Create`, `FillCreated` | `CreateDeploymentUsecase`, `Create` |
| `Fail` | any error that is not a 4xx, a deadline, a crash: in any state, so also after a commit whose answer is lost |
| `LoseData` (external) | Redis comes back empty: both streams and both caches are gone, what goroutines have in memory is not |

A cache read may miss at any time (expiry, eviction, error) and a write may be
lost. A deployment is open while its balance is below the principal: no code
changes the status otherwise, and `PositionIsDerivable` shows the equivalence.
Two copies of one notification on the stream are one element of the set.

### Inbox

`Accept`, `File`, `PutAside`, `Forget`, `Drop`, `Break`: a message waits until it
is in the ledger or aside, and only then is it forgotten; it may be dealt with
several times; with `MaxLen` newer ones in front of it, it may be dropped; and the
inbox may break, with all that is in it. It is the abstract specification.

### PaymentQueue

Messages are numbered in stream order and the stream holds an interval of them,
`first..last`.

| Action | Code |
|---|---|
| `Enqueue`, `Trimmed` | `Enqueue`: `XADD MAXLEN ~`, with every trim Redis may choose |
| `Read` | `run`: `XREADGROUP >`, in batches; without the group an error that is tried again |
| `Claim`, `NextScan` | `reclaim`: `XAUTOCLAIM` with its cursor, and what it does to pending entries the stream no longer holds |
| `Age` | a pending message becomes idle, whether or not its worker is alive |
| `Count`, `CountFails` | `deliveries` |
| `Processed`, `Refused`, `Transient` | the ways `handle` goes on after `Process` or `decode`; `Transient` may have committed |
| `Bury`, `BuryFails`, `Ack`, `AckFails` | `deadLetter`, `ack` |
| `Restart`, `GroupStart` | a crash or a stop with a start; `ensureGroup` |
| `LoseData` (external) | Redis comes back empty: stream, group and dead letters are gone, what consumers have in memory is not |

The delivery counter stops at `MaxAttempts`, beyond which the code does not tell
values apart. Stream ids grow with the clock, so a stream that is made anew goes on
with greater numbers, and a message from before a loss is never mistaken for one
after it.

### Money and Intake

A decimal is a coefficient and an exponent, as in `shopspring/decimal`, so that
10.5 and 10.50 are different values of one number; text is a sequence of digits and
marks in which the code or the symbol of a currency is one element. `Parse`,
`ParsePositive`, `Lookup` and `Format` are those of `pkg/money`, `Plain` is what
JSON and the database driver make of a decimal, and `Column` what a `NUMERIC(24,6)`
column does. A text is read by recursive functions over its places (`Without`,
`Spelled`), which the provers can reason about as they cannot about `SelectSeq`.

| Action | Code |
|---|---|
| `Start`, `Load`, `ValidSettings` | `config.New`, `Validate`, `QueueEnabled` |
| `Register`, `Terms`, `ValidTerms`, `FitsDeployment`, `Taken` | `CreateDeploymentUsecase.Execute`, `deployment.Create`, the columns and the two unique indexes of `deployments` |
| `Accept`, `Valid`, `Validate` | `Accept`, `Notification.Validate`, `ParseTransactionDate` |
| `Encode`, `Work`, `Aside` | `Enqueue` and `decode`, `worker.handle`, `permanent` |
| `Enqueue`, `Entry`, `Aged`, `Promise` | `XADD MAXLEN ~`: a new entry, what becomes of the older ones, and of the promise that is watched |
| `LoseData` (external) | Redis comes back empty |
| `Record`, `Apply`, `Replay`, `SameRequest`, `RowOf`, `FitsRow` | `Process` and the repository, the columns of `payments`, `sameRequest` |
| `Prints`, `Done` | `NewPaymentDTO`, `NewDeploymentResponse`; the client reads the answer, and the next request comes |

Other texts are words with a length, and may be *dressed*: with blanks around them,
or in lower case where the code ignores case. A notification of the model carries
`means`, what its sender has in mind, which no action reads: the properties compare
it with what became of the spelling. `storable` says whether Postgres takes its texts,
and its whole body as `raw_payload JSONB`: `Validate` looks at neither, so a `\u0000`
in any field, also in one that nobody reads, an invalid UTF-8 byte in the body or a
number beyond `NUMERIC` reaches the statements, which refuse it before they look at
a table.

### Repayment

One deployment's position on every day, with the payments that change it.
Money is in minor units, so `decimal` arithmetic is integer arithmetic, and
`Prorate` rounds half away from zero as `DivRound` does. Coverage and percentage
are in hundredths. The one place where binary floating point shows is
`ProjectedCompletionDate`: with a run-rate below one currency unit a week the 16
decimals of the run-rate can push an exact quotient over a whole week, so
`WeeksRemaining` is a set of the possible results there. (1.00 paid in three
weeks and 1.00 owed is projected at four more weeks, not three.)

### Pod

A connection carries one request after the other; `pc` says how deep in the
middleware chain the current one is. `slots` is the length of `LoadShedding`'s
channel, `gauge` the `PaymentsInflight` gauge, `hook` the `OnStop` hook that runs.

| Action | Code |
|---|---|
| `Connect`, `ReadBody`, `BodyFails`, `Signature`, `Unsigned`, `Admit`, `Shed` | `Setup` and the middleware `Body`, `Signature`, `LoadShedding`, in the order of `Chain` |
| `Decline`, `Begin`, `Finish`, `Panic`, `Unwind` | the handlers and `ApplyPaymentUsecase.Execute`, with the deferred calls of `Execute` and `LoadShedding`, and `Recovery` |
| `Take`, `Done`, `Leave` | the loops `run` and `reclaim`, one batch at a time, and the cancellation of their context |
| `Terminate`, `Drained`, `DrainExpires`, `WorkersStopped`, `Close` | the `OnStop` hooks of the server, `StartWorkers`, the cache and the database |
| `Die` (external) | the stop timeout of fx, a panic in a worker, a kill |

fx runs the hooks in the reverse of the order in which the constructors append
them: `StartWorkers` is invoked first and needs the payment service, which needs
the pool and the cache; the server is invoked after it. A hook that returns an
error (`DrainExpires`) does not keep the next ones from running.

## 3. The runs

| Run | Question | Bounds |
|---|---|---|
| `apply_ledger` | are the materialised columns and the snapshots right when credits race for the last room of a deployment? | 2 sessions, 3 references, 1 deployment, principal 3, amounts 1 and 2, 2 dates |
| `apply_races` | is the ledger append-only and atomic when copies of a reference race, also on different deployments, and can statements wait for each other for ever? | 2 sessions, 2 references, 2 deployments, 1 amount, fair lock queues |
| `service_inline` | do answers, caches and ledger agree, is one caller told that a credit was applied, is a balance the settled money of its own customer, and is the service as a whole a ledger? | 2 goroutines, 2 customers, 2 deployments, 2 references, 3 notifications |
| `service_queued` | is an accepted notification kept in queue mode for as long as Redis keeps it, and everything filed in the end? | 1 goroutine, 2 notifications, trimming to 1, fairness |
| `queue_retires` | are the newest credits kept, is a good message not given up early, is the queue an inbox, and does every message retire? | 2 messages, one undecodable, 1 worker and the reclaimer, batches of 2, 2 attempts, trimming to 1, 1 restart, 1 loss of Redis's data, fairness |
| `intake` | is only what has no format refused, does the ledger hold what was meant, do answers read back, does the database refuse only what nothing checks before, and is a queued credit kept for as long as Redis keeps it? | 9 environments, 8 well-formed and 12 malformed notifications, 11 registrations, 2 references, 4 digits before the point instead of 18 and 3 behind it in a column instead of 6, 1 message queued, trimming to 1, 1 put aside, 2 deployments |
| `repayment_position` | do the figures of a position agree with the ledger, each other and the ones before? | principals 1, 10, 12; terms 1, 3, 4 weeks; days -1 to 30; up to 6 payments of 1, 3 or 7 |
| `pod_stops` | does a slot leak, is anything closed under its users, and does the process stop? | 3 payments, 2 slots, 1 request of the operator, 2 workers, fairness |

Why these bounds are enough to be interesting: two sessions race for any lock
(what a third could add is proved, section 5); three payments for two slots shed load; three references on one
deployment give a chain of snapshots with a middle, and amounts 1 and 2 under a
principal of 3 leave a split payment in every order; two goroutines with
failures at every step already give duplicate, overtaken, lost and retried
calls, since a goroutine that ends can serve the next request; a batch of two
with a worker and the reclaimer leaves one message in hand while another is
claimed, and what more messages, consumers and faults could do is proved
(section 5). In `intake` every format has a notification that keeps to it and one
that does not, and the amounts lie at the limits: the most digits, the most
decimals, zero, and the one that fills a balance; with one message queued at most, a
second enqueue always trims the first. `service_queued` has one goroutine at a time,
which requests, workers and redeliveries take in turn, with a failure possible at
every step: a message that was enqueued and applied inline as well meets its own
redelivery, and another message on the stream is trimmed by either. Two goroutines on
two notifications have 15 million states; what their overlap could do to
`AcceptedIsKept` and `AppliedToldOnce` in queue mode is proved (section 5), what it
could do to progress is not checked. Terms that do and do not divide the principal,
and one with an instalment that rounds to nothing, reach all roundings.

Four further runs (`service_closed`, `service_unmoved`, `service_currency` and
`queue_trimmed`) check a sentence of the documentation and TLC finds it
violated, see section 6.

## 4. What is checked

Ledger: every column of a deployment is the aggregate of its rows
(`PositionIsDerivable`); the debt is paid once (`DebtIsPaidOnce`); the
`balance_before`/`balance_after` snapshots of the rows tile the balance, so no
update was lost (`LedgerTiles`); what a statement computed under its locks is
still true when it commits (`LocksProtect`); a statement told that its reference
is used finds the row (`ReplayFindsRow`); rows are never rewritten
(`AppendOnly`); statements end (`StatementsEnd`); and the statements implement
`Ledger` (`LedgerSpec`).

Service: the row behind any answer is the stored one and a replay is for the
same request (`AnswersMatchLedger`); one caller at most is told "applied"
(`AppliedToldOnce`, in the run without the queue; the proof covers both modes); cached
results and routes repeat the database (`CachesRepeatDatabase`); balances are made of settled money of the owner
(`BalanceIsOwnersMoney`); what the provider was told to forget is in the ledger
or on a stream (`AcceptedIsKept`), and everything is filed in the end
(`EveryNotificationIsFiled`), except what Redis dropped with `MaxLen` newer entries
behind it, or lost with its data (`GoneWithQueue`; section 6, point 4); and all of it, with its caches, retries and late
answers, implements `Ledger` (`LedgerSpec`).

Queue: the newest `MaxLen` credits since Redis last lost its data are in the
ledger, dead-lettered, pending or still to be read (`RecentCreditsKept`), although
the group may have been made anew; only what was handed out `MaxAttempts` times or
can never be processed is dead-lettered (`GivenUpLast`; a hand-out that ended in a
crash, or in a robbed worker's hand, counts, so this does not say that a good message
was tried so often); stream, group and
consumers together implement `Inbox` (`InboxSpec`); every message retires
(`EveryMessageRetires`): after a loss of the group, once a restart has made it
again. Until then the workers read an error, which is the price the code pays for
calling `ensureGroup` at start only.

Intake: exactly the notifications that keep to no agreed format are refused as
malformed, and the others, like the principal of a registration, are read as they
are meant (`AcceptsTheContract`); each row of the ledger is what some sender meant,
in amount, customer, currency, instant and settlement (`LedgerIsMeant`); a used
reference is answered by meaning, not by spelling (`SpellingsAgree`); an amount that
is printed in the currency it was read in reads back as it was read
(`PrintedReadsBack`); the database refuses what passed
validation only for texts that validation does not measure, for bytes that Postgres
does not take, and for a balance that is full (`OnlyUncheckedFails`); settings that boot are good for a registration
(`StandardTermsRegister`); a notification that was answered "queued" is on one of
the streams or its own credit is in the ledger, although nobody has compared its
reference with the ledger before it was accepted (`PromisedIsKept`), again for as long
as Redis has to keep it.

Position: it repeats the ledger's splits (`PositionRepeatsLedger`); its figures
never contradict its status (`StatusFitsFigures`); expectations grow evenly to
exactly the principal (`DueGrowsToPrincipal`); paying never makes it look worse
(`PayingNeverHurts`); projections clear the debt and are tight
(`ProjectionClears`).

Pod: slots and gauge count exactly the payments inside, however requests end
(`SlotsMatchHolders`); the workers, and the requests of a drained server, have
ended before anything is closed (`UsersLeaveFirst`); a full semaphore has room
again (`CapacityReturns`); a process told to stop does, even if a request without
a deadline hangs (`StopEnds`).

### Fairness

- `ApplyStatement`: Postgres grants a lock in the order of its queue, so a
  statement that keeps getting to the head is not passed over (strong fairness of
  `Move`, `Insert`, `Conflict`); a statement that does not wait runs (weak).
  Aborts are never required.
- `PaymentService`: every operation has a deadline, so a call goes on or fails
  (weak fairness of a call's step or `Fail`). Nothing makes calls succeed.
  `EveryNotificationIsFiled` is about a notification that is not given up
  (`Persists`): failures do not hit the same step of every attempt (strong fairness),
  the provider keeps retrying what it has no final answer for (`Receive`), and the
  consumers keep coming back (`Deliver`), after a loss of Redis's data because some
  restart makes their group again. These are assumptions on the environment, made
  for one notification at a time: the others may fail for ever. The code contributes
  that it leaves a retry possible after every failure, which is what the property
  tests.
- `PaymentQueue`: the loops of `run` and `reclaim` go on, time passes, and Redis
  does not fail every single XPENDING, XADD and XACK. `Process` may fail for
  ever: a poison message must retire all the same. Restarts are not assumed:
  without the group a message may wait for ever, and the property says so.
- `Pod`: a payment has `HTTP_REQUEST_TIMEOUT`, a body `HTTP_READ_TIMEOUT` and a
  message `QUEUE_PROCESS_TIMEOUT`, so payments and workers go on, and so do the
  hooks. The operator's routes have no timeout in `src/src/pkg/router/router.go`:
  nothing is assumed of their requests, and only the deadline of the drain makes
  `StopEnds` hold. The run does not check deadlocks: a process that has exited
  takes no step.

## 5. What is proved

Every safety invariant, action property and refinement that a run checks is proved
with TLAPS, for every value of the constants, except `Intake`'s `AcceptsTheContract`,
on which two of its theorems are conditional (below). The
assumptions are the ASSUMEs of the modules, which TLC evaluates on each instance:
amounts, terms and principals are positive, the NULLs are not values.

| Module | Theorem | States |
|---|---|---|
| `ApplyStatementProofs` | `TypeInvariant` | `Spec => []TypeOK` |
| | `LocksInvariant` | `Spec => []LocksProtect` |
| | `TilesInvariant` | `Spec => []LedgerTiles` |
| | `ReplayInvariant` | `Spec => []ReplayFindsRow` |
| | `DerivableInvariant` | `Spec => []PositionIsDerivable` |
| | `DebtInvariant` | `Spec => []DebtIsPaidOnce` |
| | `LedgerAppendOnly` | `Spec => AppendOnly` |
| | `ImplementsLedger` | `Spec => LedgerSpec` |
| `PaymentServiceProofs` | `TypeInvariant` | `Spec => []TypeOK` |
| | `AnswersInvariant` | `Spec => []AnswersMatchLedger` |
| | `ToldOnceInvariant` | `Spec => []AppliedToldOnce` |
| | `CachesInvariant` | `Spec => []CachesRepeatDatabase` |
| | `BalanceInvariant` | `Spec => []BalanceIsOwnersMoney` |
| | `KeptInvariant` | `Spec => []AcceptedIsKept` |
| | `ServiceIsLedger` | `Spec => LedgerSpec` |
| | `CommittedStays` | `Spec => [][StoreGrows]_vars`: rows stay as they are, deployments keep their customer |
| `PaymentQueueProofs` | `TypeCorrect` | `Spec => []TypeOK` |
| | `CreditsKept` | `Spec => []RecentCreditsKept` |
| | `GoodGivenUpLast` | `Spec => []GivenUpLast` |
| | `QueueIsInbox` | `Spec => InboxSpec` |
| `IntakeProofs` | `TypeInvariant` | `Spec => []TypeOK` |
| | `PromiseInvariant` | `Spec => []PromisedIsKept` |
| | `RegistrationInvariant` | `Spec => []StandardTermsRegister` |
| | `ColumnsInvariant` | `Spec => []OnlyUncheckedFails` |
| | `PrintedInvariant` | `Spec => []PrintedReadsBack` |
| | `LedgerMeant` | `Spec /\ []AcceptsTheContract => []LedgerIsMeant` |
| | `SpellingsMeant` | `Spec /\ []AcceptsTheContract => []SpellingsAgree` |
| `MoneyProofs` | `CreditRead` | what `ParsePositive` takes, of any text, is a positive amount with no more decimals than its currency has and no more digits before them than are allowed |
| | `PrintedIsRead` | what `Format` prints of an amount with a currency's decimals, `Parse` takes, and reads as that amount |
| | `ColumnOfCredit`, `PlainOfCredit` | neither a column nor the queue's JSON changes an amount |
| | `BalanceWithCredit` | a balance grows by exactly what the column of the credit's row holds |
| `RepaymentProofs` | `LedgerInvariant` | `Spec => []PositionRepeatsLedger` |
| | `StatusInvariant` | `Spec => []StatusFitsFigures` |
| | `ProjectionInvariant` | `Spec => []ProjectionClears` |
| | `DueGrowth` | `Spec => DueGrowsToPrincipal` |
| | `PaymentsImprove` | `Spec => PayingNeverHurts` |
| `PodProofs` | `PodTypes` | `Spec => []TypeOK` |
| | `SlotsInvariant` | `Spec => []SlotsMatchHolders` |
| | `StopInvariant` | `Spec => []UsersLeaveFirst` |

### Sums and recursion

The library's induction theorems take an operator as a parameter, which the
provers cannot instantiate. `SumTheorems` does without: an induction is the choice of a
smallest counterexample (`SmallestNumber`, `SmallestSet`), which is first-order.
It shows that the fold behind `SumFunctionOnSet` is well defined and that any element
can be taken out of a sum or put in (`SumWithOneMore`, `SumGrows`): the balances of
`ApplyStatement` and `PaymentService` need no more. `MoneyProofs` builds the
recursive functions that read a text in the same way (`StepByStep`), and the one that
spells a number (`DigitsOfIs`); what holds at every place of a text follows place by
place (`AllPlaces`).

### ApplyStatement

`TypeOK` alone is not inductive: a commit computes
`balance_before` as the moved balance minus the amount, a natural number only if
the row the statement holds really is the committed row advanced by its credit.
`LocksProtect` says so, and it needs in turn the types of what sessions hold.
`LedgerTiles` needs both: a committed credit's tile starts at the committed
balance (row lock) and its reference had no tile before (key). So the invariant is

    IInv == TypeOK /\ LocksProtect /\ LedgerTiles /\ ReplayFindsRow /\ AllDerived

with `InitInv`, `NextInv` and `Invariance`. Two lemmas carry the steps:
`CommitApplied` and `CommitFiled` say exactly what a commit publishes, and
`OnlyCommitsPublish` that nothing else does. `AppendOnly` and the refinement
follow from the same two: under `IInv` a commit is a `Credit` or a `File` of
`Ledger`, and any other step stutters. `AllDerived` is
`PositionIsDerivable` and `DebtIsPaidOnce` for each deployment (`DerivedSays`): a
commit adds one row to the applied rows of one deployment, and the sum, the count, the
last date and the status move by that row.

### PaymentService

The properties rest on one another: a cached result is a row of the ledger
because the call that cached it holds that row, a call holds it because rows never
change, and the provider may be told to stop after a hit because the cache repeats
the ledger. The invariant takes them together:

    IInv == TypeOK /\ CallsSound /\ OneWriter /\ CachesRepeatDatabase
            /\ CreditsSound /\ Balanced /\ AcceptedIsKept

`CallsSound` says for each call what it knows at the step it is at: where it may be
(`Placed`), that its money is settled and goes to a deployment of its customer
(`Routed`), and that the row it shows is the committed one (`Truthful`).
`OneWriter` says that two calls never both take a row for their own, which is all of
`AppliedToldOnce`. `Balanced` is the sum, and `CreditsSound` what it is made of.
Every step of a call is reduced to one move (`Moves`), and the store only grows
(`StoreGrows`), so what the other calls know stays true.

The refinement (`ServiceIsLedger`) needs the invariant for the call that commits: that
it carries a notification and a deployment that exists. Then `Apply` is a `Credit` with
the balances its row writes down (`ApplyIsCredit`), `Record` a `File`
(`RecordIsFile`), and every other step stutters: lookups, cache writes, enqueues,
failures after the commit, and registrations, since `Ledger` has every deployment from
the start with nothing paid (`CreateStutters`).

### PaymentQueue

Any number of messages of any kinds, any workers, batches, attempts and lengths,
and any number of restarts and losses. The invariant is

    IInv == TypeOK /\ StreamSound /\ (\A c \in Consumer : Sound(c))
            /\ GivenUpLast /\ RecentCreditsKept

`StreamSound` says that a trimmed stream is still `MaxLen` long, and that nothing
is pending without a group. `Sound(c)` ties the place a consumer is at to the
message in its hand: at `ack` it is in the ledger, dead-lettered, or from a stream
that is lost; at `bury` a good one was handed out `MaxAttempts` times, and no
attempt counts more than the hand-outs. That is needed because an acknowledgement
removes the last trace of a message whatever happened since it was read: another
consumer may have claimed it, the stream may have been trimmed, or lost and made
anew. The lemmas follow the five parts (`StepTypes`, `StepSound`, `StepStream`,
`StepGivenUp`, `StepKept`), and `StepInbox` maps the steps to those of `Inbox`: a
claim that meets trimmed entries is a `Drop`, an acknowledgement a `Forget` or a
stutter.

### Money and Intake

Any environments, notifications and registrations. A column may have 3 to 6 decimals,
and room for at least the digits that are read (`ScaleAssumption`): the code has 6
decimals, no currency of `pkg/money` more than 3, and both bounds are 18 digits. The
bounds on the numbers of messages and deployments are arbitrary. The invariant is

    IInv == SettingsSound /\ DeploymentsSound /\ LedgerSound /\ StreamSound
            /\ DownIsIdle /\ PromiseSound /\ StandardTermsRegister

`PromiseSound` is why `PromisedIsKept` holds: as long as the promise is on, the very
entry it is about has room left, so XADD does not trim it (`EnqueueSound`), and only a
worker takes it off. The rest of the point is an equality of amounts in three spellings: read
from text, through JSON, into the column. It holds because all of them are a `Credit`
(`MoneyProofs`), which `StreamSound` and `LedgerSound` keep. `ProcessSound` goes through
the branches of `Process` once, for requests and workers alike: the message is
put aside or its own credit is stored. `StandardTermsRegister` needs `SettingsSound`,
that is, that `ParsePositive` reads no amount that is not positive.

The other properties speak of the last answer, and follow from `IInv` of the state
before it. `StreamSound` says that a waiting message is what its notification was read
as (`Read`), the amount perhaps spelled anew; the settings do not change meanwhile.
`ColumnsInvariant` then is arithmetic: an amount with no more digits than `Parse`
takes fits the column of its row (`ReadFits`, `RowFits`), so only the texts and the
sum can be too large, or the bytes refused. `PrintedInvariant` goes from the number to its text and back:
`DigitsOf` spells what `Spelled` reads (`DigitMarks`, `DigitAppended`,
`DecimalAppended`), the symbols and separators that `Parse` strips are not among the
marks that `Format` writes, and rounding an amount to decimals it has changes nothing
(`RoundedIs`).

`LedgerMeant` and `SpellingsMeant` are relative to `AcceptsTheContract`: if what the
code reads is what was meant, then so is what it stores, and what it answers to a
repeat, through JSON, columns, routes and the interleaving of requests with the worker.
The hypothesis is about the notification answered last, and TLC checks that it holds
of the instance; the theorems are about the rest of the way.

### Repayment

The figures of a position are functions of a few numbers: balance, principal, term,
day, weeks elapsed, what is due by now and the instalment (`PositionOf`). So the
invariant is short: the status says whether the principal is reached, `applied` is the smaller of balance and principal, `excess` the rest. The
work is in lemmas about quotients (`DivAtLeast`, `DivAtMost`, `Ceiling`) and about
rounding half away from zero (`RoundGrows`, `RoundWhole`, `RoundSum`,
`RoundBounds`). `RoundSum` is why the expectation, rounded once, grows from week to
week by the instalment, rounded by itself, give or take one minor unit, and `FiguresImprove` and
`ProjectionImproves` compare two positions of one day, whatever the payment between.

### Pod

Any finite set of payments, any other connections and workers and any ceiling. The
invariant is

    IInv == TypeOK /\ SlotsMatchHolders /\ OthersPass /\ StopOrder

`OthersPass` (only payments are ever signed or admitted) is needed because the
release is a payment's: a request of another route in `admit` would take a slot for
ever. `StopOrder` says how far the hooks are and who has left by then. One lemma,
`RequestMoves`, reduces the eleven steps of a request to a move from one place to
another, and `MoveCounts` says what a move does to the number of payments at a set
of places.

### Only model-checked

- Liveness under fairness (`StatementsEnd`, `EveryNotificationIsFiled`,
  `EveryMessageRetires`, `CapacityReturns`, `StopEnds`) is out of the prover's reach.
- `AcceptsTheContract` compares the reading of a spelling with `means`, what its sender
  has in mind. That is given by the instance, notification by notification: which
  amount a text spells for a person has no definition apart from the code's reading of
  it, and to assume one would assume the property.
- The violations of section 6: a run finds the counterexample, nothing is left to prove.

## 6. Where code and documentation part

1. `service_closed`: a route cached while a deployment was open takes money to
   it after it was completed (`domain/deployment/service.go:85`); the comment on
   line 93 says it cannot.
2. `service_unmoved`: a repeat of an ignored or unmatched notification is
   answered 200; `src/README.md:380` keeps 200 for applied ones. With it, a
   PENDING notification followed by COMPLETE under one reference is never applied.
3. `service_currency`: the ledger row takes the deployment's currency, so the
   identical notification in another currency gets 409 instead of the replay of
   `src/README.md:155`.
4. `queue_trimmed`: `MAXLEN` drops accepted credits of a long backlog;
   `src/README.md:399` says none is ever dropped.

More were met while modelling and have no run:

- a replay shows the position of the deployment the repeat was routed to, not of
  the one that was paid (`payment_repository.go:153`, against the comment on line
  141), as `Apply` shows: the goroutine keeps its own `dep` beside the old row;
- in queue mode a reused reference is accepted with 202 when the result cache
  misses (`domain/payment/service.go:87`; `src/README.md:150` promises 409), as
  `LookupMiss` and `Enqueue` show: the worker then puts the credit aside, which
  `PromisedIsKept` checks;
- when the term does not divide the principal, a customer who paid all instalments
  but today's is behind (`domain/deployment/entity.go:127`; line 121 promises a
  tolerance of one instalment): 10 over 3 weeks are 3 a week, 7 are expected at
  the start of the third week, and arrears of 4 exceed one instalment;
- a request that panics is answered 500 by `Recovery` past `Observability`, whose
  recording is not deferred (`src/src/pkg/middleware/middleware.go:129`, against
  "records latency and outcome per route" on line 118), as `Panic` shows;
- a currency code of more than 8 characters or a status of more than 32 passes
  `Validate` and is refused by its column: a 500 that is repeated for ever inline, a
  dead letter in queue mode, against "money that arrived is never discarded"
  (`domain/payment/entity.go:67`). So is a `\u0000` in any field of the body, an
  invalid UTF-8 byte, or a number that JSONB does not take
  (`payment_repository.go:114` and `184`, the column `raw_payload JSONB`).
  `OnlyUncheckedFails` lists these, and the texts of a registration that nothing
  measures;
- a clash of virtual account numbers, also with a settled deployment, is answered
  as a second active deployment of the customer (`deployment_repository.go:49`), as
  `Taken` shows;
- `Validate` admits a default term beyond 520 weeks, with which every registration
  that names none is refused, against "rejects configurations that would fail
  confusingly at runtime" (`config/config.go:292`): the exception in
  `StandardTermsRegister`;
- a default principal is taken in whatever currency the registration names, a credit
  in whatever currency its deployment has, and a principal beside a blank currency is
  read with two decimals before the default currency takes the blank's place
  (`create_deployment.go:46`, `domain/deployment/service.go:46`), so an answer may
  round it (100.50 is printed as 101 yen): the condition in `PrintedReadsBack`;
- nothing measures the default currency either (`config/config.go:293`): with one of
  more than 8 characters every registration and every filed credit that leaves the
  currency to it is refused by its column, the conditions of `OnlyUncheckedFails`. A
  currency code made of digits, which nothing forbids, would be trimmed off the
  amounts in it (`src/src/pkg/money/money.go:67`);
- Redis's consumer group is made at start only: after a loss of its data the workers
  fail, and credits answered 202 wait, until a pod restarts (`queue/queue.go:91`);
- the decimal library takes a sign behind a leading point for a decimal, so ".+5" is
  read as 0.05 (`IsNumber`, `SignPlace`): the exception to `AcceptsTheContract`, which
  no notification of the run exercises;
- `WeeksOfCoverage` and `PercentRepaid` round a float64
  (`domain/deployment/entity.go:118`, `142`, `234`), where the model rounds the exact
  quotient: a value exactly between two hundredths may be rounded to the other one.
  No property tells them apart.

## 7. What is not modelled, and the plan

Not modelled on purpose: wording and layout of answers, logging, health probes,
counters, pool sizes and the connection retries of start-up (no state of the
protocol), the bytes of a text beyond its length, exponents in amounts, date
layouts beyond having a zone or none.

Plan, in order of importance:

1. *Done*: the ledger and its proofs, the payment service, the queue with trimming,
   restarts and loss of data, its refinement and its proofs, the position, the pod
   and its proofs, and the intake with settings, validation, registration and money;
   the service as an implementation of the ledger; the proofs of all of them but those
   of section 5's last part.
2. *Durability*: a volatile tail of commits (`synchronous_commit=off`) beside a
   result cache that survives them.
3. *Composition*: `PaymentQueue` with the service's `Process` in place of its
   three outcomes; dead letters that were applied, real attempts against hand-outs.
4. *Several replicas*: their consumers have the same names, and their
   registrations race for the virtual account key.
5. *Poison messages*: a message whose `Process` panics kills the pod on every
   delivery, and is never dead-lettered.
