# Surveillance health monitor: specifications and proofs

TLA+ models of surveillance-health-monitor (polling, adapters, the live event
stream and the dashboard, the editing forms, licences and tenant scope, boot and
keys), their TLC configurations, and TLAPS proofs about them. Paths below are relative to the
repository (`src/...` is its TypeScript source).

## 1. The system

| Part | State | Operations | Talks to |
|---|---|---|---|
| Company tick (`polling/scheduler.ts`, `PollingScheduler`) | BullMQ repeatable entries, one per company | `scheduleCompanyTick` at boot, `runCompanyTick` every minute | lists enabled devices in Postgres, adds one job per device to the poll queue |
| Poll handler (`polling/scheduler.ts`, `PollWorker`) | locals of up to `POLL_CONCURRENCY` handlers | `handle` | takes jobs from the queue, reads and writes Postgres, calls a vendor adapter |
| Rows (`db/`) | companies, sites, devices (status, poll_cursor, credential), events, licenses | repositories, each inside `withTenantDb` (BEGIN, `set_config`, COMMIT or ROLLBACK) over a pool of four connections | |
| Poll budget (`polling/budget.ts`) | a Redis list per company | `acquire`, release | Redis; currently called by nobody |
| Vendor adapters (`adapters/`) | none (the cursor is the caller's) | `pull`, `testConnectivity` | the devices' HTTP and SOAP services |
| Vault and keys (`crypto/`) | key versions read from the environment | `encrypt`, `decrypt` | rows of devices |
| HTTP API (`http/`) | none | CRUD of sites, devices, licences; reads; auth | Postgres |
| Event stream (`workers/event-indexer.ts`, `http/ws.ts`, `dashboard/src/hooks/useEventStream.ts`) | LISTEN session, Redis subscriptions, sockets | NOTIFY to pub/sub to WebSocket, backfill | Postgres, Redis, browsers |
| Dashboard (`dashboard/src`) | React state: fleet, sites, device map, feed; the open panel or modal and its forms | reload every 30 s, patch on live events, edit, create, delete | API, event stream |
| Licences (`db/repositories/licenses.ts`, `http/routes/licenses.ts`, `workers/license-expiry.ts`) | licenses rows | issue, `requireLicense`, list of expiring ones, hourly expiry scan | Postgres; no route or poll requires one yet |
| Tenant scope (`db/client.ts`, `0002_rls_policies.sql`) | `app.company_id` of each pooled connection | `withTenantDb`, `withSystemDb` | every statement |
| Boot (`index.ts`, `db/migrate.ts`) | `_migrations` | migrate, start, schedule the scan and a tick per company | everything |

What is hard in it: handlers interleave with each other, with the API and with
the death of their process; a handler decides on a snapshot it took before
calls over the network; one poll is two transactions, the second of which runs
after the first was rolled back; the queue may deliver a job twice; ticks
overlap and fail half-way; job ids collide with retained jobs on purpose; the
semaphore is several Redis commands with a TTL; the screen is fed by reloads,
live frames and backfills at once; a request outlives the form that sent it; a
company's scope sits on a shared connection; processes boot, migrate and
schedule side by side, each with the keys it started with. `PROJECT.json` lists these as
hazards at their lines, with the properties that watch them.

What makes each part correct:

- **Poll handler**: events are stored once and never lost; the status events
  of the feed agree with `devices.status`; nothing is written for deleted rows;
  a handler always ends.
- **Tick and queue**: enabled devices are polled, disabled ones stop, the
  queue stays small, retries end.
- **Budget**: the cap holds, nobody releases somebody else's slot, slots of
  dead processes come back, `acquire` ends.
- **Adapters**: an unreachable device is reported as such; the cursor neither
  skips nor repeats alarms.
- **Event stream and dashboard**: what landed before the subscription is in the
  feed after the backfill, once; what the screen shows was true at some time,
  and it does not stay wrong.
- **Forms**: one request per "Saving...", a save leaves alone what the operator
  did not touch, but for trimming and default ports, a creation happens at most
  once per press.
- **Licences and tenant scope**: a connection never carries a tenant over; no
  lapsed or foreign licence is honoured; the scan and the request path agree, and what lapsed is transitioned.
- **Boot and keys**: migrations apply once and in order under concurrent boots;
  no scheduled tick is lost; every stored credential stays decryptable over
  rotations; all processes come up.

## 2. The modules

| Module | What it is |
|---|---|
| `PollWorker` | the poll handler, the rows, the API's writes, crashes, redelivery |
| `DeviceFeed` | abstract specification of what a reader of the event feed is promised |
| `PollWorkerProofs` | type correctness and the safety properties that need no assumption on delivery; then, under one delivery at a time, exactly-once, the truth of the feed and the refinement |
| `PollScheduler`, `PollSchedulerProofs` | the tick and the poll queue, and their proofs |
| `PollBudget`, `PollBudgetProofs` | the Redis semaphore and its proofs |
| `VendorAdapter`, `VendorAdapterProofs` | the adapters' pulls and the Uniview cursor, and their proofs |
| `LiveDashboard`, `LiveDashboardProofs` | events from their row to the screen: indexer, WebSocket, backfill, reloads, the React state; and their proofs |
| `EditForms`, `EditFormsProofs` | the dashboard's forms and the routes they call, beside other writers; and their proofs |
| `Licences`, `LicencesProofs` | licences, transactions of tenants and of the system over one pool, the scan; and their proofs |
| `Deployment`, `DeploymentProofs` | processes that boot, migrate, schedule and encrypt; and their proofs |
| `MC...` | instances for TLC of the module each names |

### PollWorker

A handler is at one location `pc[w]` per await of `handle`:

| Location | Where the code is | Leaves by |
|---|---|---|
| `idle` | no job | `Take` |
| `connecting` | `pool.connect()` of the first transaction | `Connect`, `DbError` |
| `loading` | `loadDevice` | `LoadDevice`, `NotFound`, `DbError` |
| `resolving` | the SELECT and `decrypt` of `withResolvedCredential` | `ResolveCredential`, `NotFound`, `DbError` |
| `pulling` | `adapter.pull` | `PullSucceeds`, `PullUnavailable`, `PullFails` |
| `persisting` | `normalize`, `insertEvents`, `updateStatus`, the transition event, COMMIT | `Persist`, `PersistWithoutRow`, `DbError` |
| `reconnecting` | ROLLBACK done, `pool.connect()` of the catch block | `Connect`, `DbError` |
| `marking` | the catch block's transaction | `MarkOffline`, `MarkWithoutRow`, `DbError` |
| `completed`, `failed` | the promise has settled | `Settle` |

`snap` is what `loadDevice` returned (and `deviceSnapshot`), `cred` the row
version the credential was read from, `pull` the adapter's result. `status`,
`cursor`, `config` and `life` are the device row; `config` is one version
number for address, `vendor_config` and credential, which PATCH writes in one
UPDATE. `ingested` and `transitions` are the rows of `events`: how many copies
of each entry of the device's own log, and the status-change events `handle`
generates itself. `Crash` ends all handlers of the process and rolls back what
they had open. Deletions take their rows with them as the foreign keys'
`ON DELETE CASCADE` does.

Granularity. Transactions are READ COMMITTED. All writes of a handler depend
only on its snapshot and on the adapter's result, and become visible together
at COMMIT, so they are one action; the two SELECTs are separate actions with
everybody else's commits in between. A COMMIT whose answer is lost takes effect
and fails the job. `Redelivery` says whether BullMQ may give the job to a second
handler while the first is still running (a stalled lock); both settings are
checked.

The adapter is its contract in `adapters/types.ts`: it returns some of the log
after the cursor and a cursor for what it returned. **ExactlyOnce, NoEventLost
and the refinement are therefore about the handler, given an adapter that keeps
that contract**; to what extent the adapters keep it is the question of
`VendorAdapter`.

### PollScheduler

`todo[t]` is the rest of the listing a running tick works through. A job is
`none`, `waiting`, `active`, `delayed`, `completed` or `failed`. BullMQ is
external and modelled as the options at `scheduler.ts:107-116` and its
documented behaviour make it: an add whose id exists is ignored, retention is by
count, an active job without a lock is put back `MaxStalled` times and then
fails. `enabled` merges the existence of the row with `devices.enabled`, which
is all the listing sees of it.

### PollBudget

Each Redis command of `acquire` is a step: LLEN (`Count`), RPUSH (`Push`),
PEXPIRE (`Arm`), LREM (`Release`). `Won` is the test `ok !== 1`: a slot is taken
only by the push that finds the list empty. So the gate keeps to the tier's
number (`NeverOverTheTier`), but admits one caller whatever that number is, which
is not what the source says of it (section 4). The deadline is a bound on iterations by which it
has certainly passed (`OutOfTime`) and may pass earlier (`Refuse`).

### VendorAdapter

One device, polled again and again. A pull is a sequence of requests
(`Requests`), each with the retry loop of `BaseHTTPAdapter.request`: `NoAnswer`
(fetch rejects), `ServerError` (5xx with attempts left), `CutShort` (the body
is cut, outside the `try`), `Answer` and `Alarms`. `Throw` is what the adapter
does with an error: `Tolerant` adapters (ONVIF, Uniview, TVT) catch it and go
on, the others end the pull as `unavailable` (`ADAPTER_UNAVAILABLE`) or
`broken`. For Uniview, `window`, `page` and `next` are the alarm request's
parameters, its list and `nextCursor`; `Advance` sets `next` to now just before
that request, as `uniview-tvt.ts:75` does. `Commit` and `Abandon` are the
caller: events and cursor together, or neither. The four stub parsers find
nothing, so their adapters have no alarms. `answered` is a history variable.

Time is whole seconds, the unit of the alarm request; alarms are raised and
seconds pass between any two steps. The device's clock is assumed right: with a
drifting one (`checkTimeDrift` only reports it) neither cursor property is
claimed.

What the contract in `types.ts` comes to: **no alarm of a window that was read
in one page is skipped, and an alarm repeats only while it is in the cursor's
second.** It does not hold in full (section 4).

### LiveDashboard

One tenant, one tab. `history` and `events` are the rows, written by `Poll` as
`PollWorker` writes them (a status and its transition event). A notification
goes through `notices` to `Republish`, which reads the row and sends the payload
to the socket, if it is `open` at that moment: between the subscription and the
attaching of the handler, messages fall on the floor. `socket` goes `closed`,
`subscribing`, `open`, and `closing` when the client is too slow; `inbox` is the
wire, in order. The tab asks for a backfill five minutes before the time in the
`subscribed` frame (`horizon`), and applies what it gets one event after the
other. A reload (`load`) reads dashboard and devices at two moments, and its end
replaces grid and fleet, not the feed. Each returns one of the `Listings` its
limit allows: `GET /v1/devices` returns up to 1000 enabled devices in no stated
order (`devices.ts:173-184`), the dashboard's listing up to 5000
(`dashboard.ts:33`). Messages are records with the fields of
the JSON, since what the hook tests is which fields there are. A commit and its
NOTIFY are one step; `gap` is a history variable.

### EditForms

`form[p]` is the form mounted in each of five places of the screen: site edit,
site deletion, device edit, device deletion, and the add modal. A form has the
copy it was mounted with, what was touched, and `saving`; `net` holds the
requests, each with the form as it was sent, so that answers can find another
form in its place, as they do in the code: `CloseForm` (`onSaved`) and
`CloseWhole` (`onDeleted`, `onCreated`) close what is there *now*. A request is
served, refused, or served with its answer lost. Other operators' writes are
`OtherPatch` and `OtherDeletes`; `fresh` is history: no other writer has
overtaken this copy. `Room` bounds openings and others' writes together.

A form is not a copy of its row. `DeviceForm` fills in ports the row does not
have (`FilledIn`, 80 and 554) and leaves the credentials blank. On submit
`Complete` refuses texts that are blank once trimmed; the body is trimmed, a
blank timezone is not sent (`PatchedSite`), a blank port leaves its key out of a
`vendorConfig` that is replaced whole, and credentials replace the stored ones
whole if either is typed (`PatchedDevice`). Rows made by the add forms are
trimmed and have ports already; `Home` and `Camera`, made through the API, have
neither. `addr` stands for a device's name and address, `port` for its two
ports; of a text, only whether it is blank and what trimming makes of it counts.

### Licences

A call waits for a connection of the pool, opens its transaction, runs its one
statement and ends it. `guc` is `app.company_id` per connection: NULL on a new
one, the company during a tenant's transaction, the empty string afterwards, as
Postgres leaves it. `role` is the kind of role in `DATABASE_URL`: one that bypasses
row-level security or one subject to it, both checked; the policies are `Visible` and `Uncastable`. The times that
are compared are taken where the code takes them: before the checkout for the
scan, in the transaction for `requireLicense`. `Break` is a connection that
fails under a transaction, with or without its COMMIT having taken effect.

### Deployment

`stage[p]` is how far `main` has come in each process, from `creating`
(`_migrations`) over the files to `ready`. A migration file and its record are
one transaction: a second process that runs the same file waits at its locks
and then fails, which ends the process; it is restarted. `ticks` are the
repeatable entries; `scheduleCompanyTick` looks (`FindTick`), removes
(`RemoveTick`) and adds (`AddTick`). `env` is what the next process will read,
`ring[p]` what a running one has read, `blob` the stored credentials.
`Configure` and `Retire` are the operator, keeping to the comments
(`env-key-provider.ts:62-70`, `key-provider.ts:4-6`): the map holds every earlier
version, a version keeps its key, and only a version without rows and writers is
dropped. `due` and `torn` are history variables.

### How the modules fit together

`PollScheduler` leaves a job's handler abstract, `PollWorker` is that handler,
`Redelivery` the queue's promise about it; `VendorAdapter` looks into the
`pulling` step and states how far the contract `PollWorker` assumes is kept.
`LiveDashboard` starts from the rows `PollWorker` commits, in the sequence
`FeedMatchesStatus` allows. `EditForms` drives the routes whose statements are
`PollWorker`'s `UpdateDevice`, `DeleteDevice` and `DeleteSite`. `Licences` is
the transaction machinery the other modules take for granted, and `Deployment`
provides the processes, ticks and keys. They are checked separately: composed,
none is small enough.

## 3. The runs

| Run | Instance | States | Shows |
|---|---|---|---|
| `poll_worker` | 2 devices, 2 handlers, 2 connections, logs of 2, entry 2 in the far future, no redelivery | 203 258 | `TypeOK`, `ExactlyOnce`, `FeedMatchesStatus`, `NothingOutlivesItsRow`, `ImplementsDeviceFeed` |
| `poll_redelivery` | 1 device, 2 handlers on it at once, logs of 3, one PATCH | 1 434 750 | `NoEventLost`, `CredentialAsNewAsAddress` |
| `poll_pool` | 2 handlers, 1 connection, with fairness | 47 801 | `HandlersFinish` |
| `poll_scheduler` | 2 devices, 2 ticks, 1 slot, 2 attempts, 1 stall, retention 1, with fairness | 35 136 | `QueueStaysSmall`, `FreeDeviceIsPolled`, `JobsSettle`, `DisabledDeviceDrains` |
| `polled_once` | 1 device, retention 100 as configured | violation | `EnabledDeviceIsPolledForEver` fails |
| `poll_budget` | 3 calls, tier of 2, 2 iterations, with fairness | 41 055 | `NeverOverTheTier`, `ReleaseTakesOnlyOwnToken`, `AcquireEnds` |
| `vendor_adapter` | 5 vendors, 3 alarms, page of 2, 1 retry, 4 seconds | 100 962 | `SilentDeviceIsUnavailable`, `CursorPassesOnlyStored`, `RepeatedOnlyAtCursor` |
| `live_dashboard` | 1 device, 1 reload at a time, 2 status changes, 1 fault, backfill and feed of 3, listings of 1, with fairness | 1 130 212 | `FeedHasNoDuplicates`, `ShownStatusIsHistorical`, `BackfillClosesGap`, `ViewRecovers` |
| `live_ignored` | as above, no faults | violation | `PushedEventIsShown` fails |
| `edit_forms` | 3 sites, 3 devices, 3 openings or writes by others, 2 tries, 1 field changed per form | 695 617 | `SavingMeansPending`, `CreatedOncePerTry`, `SaveLeavesTheRest` |
| `licences` | 2 companies, 2 licences, 1 connection, 1 request beside the scan, both kinds of database role, clock 0..2, 1 break, with fairness | 353 056 | `ScopeIsOwn`, `HonouredInTime`, `ScanTakesOnlyLapsed`, `LapsedIsTransitioned` |
| `deployment` | 1 API, 2 workers, 2 files, 2 companies, 1 device, 2 keys and versions, 1 change of environment, 1 death, with fairness | 626 000 | `MigrationsAgree`, `TicksStay`, `CredentialsStayReadable`, `BootsSettle` |

`TypeOK` is checked by one run of each module. Only `licences` checks for
deadlock: the others' bounded instances stop when devices are deleted, logs are
full, calls are over or all processes are up, and the real system idles. That
nobody waits for ever is what the liveness properties say.

### Bounds

`MaxLog`, `MaxEdits` (what the environment does), `MaxTransitions` and
`MaxCopies` (when a new job may start; a job that runs always finishes),
`MaxTries`. Two devices are enough for the properties quantified over devices,
as rows of different devices meet only in `DeleteSite` and in the pool; two
handlers show every pairwise race, and more than two on one device repeat the
same stale snapshot. Logs of three entries contain a stored, a dropped and a
following entry. One PATCH separates two configurations. A retention of one
with two devices makes jobs be evicted (`poll_scheduler`); the configured 100
with fewer devices never evicts (`polled_once`). Three alarms and a page of two
have full, exact and short pages; four seconds have a look-back, a window of
two and alarms raised in the second of a cursor; one retry has a first and a
last attempt (`tvt` and `axis` are left out of the run: they take the steps of
`uniview` and `hanwha`). Three calls let one hold, one be denied and one come
after expiry.

Two status changes give an offline and a recovery event, so a backfill can
replay the first after the second; one fault anywhere (a lost connection, a
failed request, a stopped indexer) makes the tab or the indexer come back once;
a buffer of no frames makes the slow client; the events never exceed backfill
and feed, as past those `BackfillClosesGap` can fail (section 4), nor the one
device the listings' limits: with more devices than `DevicesLimit`, `ViewRecovers`
says only that the grid is one of the possible listings. In the same way
`FreeDeviceIsPolled` is about a company within `ListLimit`, the 1000 devices
a tick lists (`scheduler.ts:99`). The model lets
reloads overlap, as the code does; an instance with two at a time is too large
for a run, where a late reload meets frames and backfills only: that reloads
overlapping each other keep the safety properties is what the proofs show. Three openings make
an answer meet another form, panel or writer; two tries are a press and its
retry after a lost answer; three sites and three devices let both create one.
`Text` has a trimmed text, one to be trimmed, a blank one and the one that is
typed (`Typed`); one field changed per form (`MaxTouched`) leaves all others to
`SaveLeavesTheRest`. One connection
makes every caller take over what the last left; three instants have a licence
before, at and after its time; two licences an old one and its renewal. Two
workers and an API race for the migrations pairwise; two files have an order;
one change of environment is a rotation, a rollback or a retirement of the two
starting environments.

The proofs below remove the bounds on devices, handlers, connections, log
length, ticks, attempts, stalls, retained jobs, calls, companies, licences,
processes, files, keys, sites, forms, other writers, tries, reloads, status
changes, faults, the send buffer, the backfill and the feed.

`poll_worker` and `poll_redelivery` use symmetry over devices and handlers,
`vendor_adapter` over alarms, `edit_forms` over sites and devices not yet created
(safety only; no action singles one out). Symmetry is not used with liveness.

### Fairness

- `PollWorker.Fairness`: a handler that does not wait for the pool goes on
  (`WF` of `Proceed`): statements and HTTP requests end, with an answer or an
  error. The pool serves its waiters in order, so a waiter is not passed over
  for ever (`SF` of `Connect`); waiting has no time limit of its own
  (`client.ts:31-35` sets none), so no error is assumed to end it.
- `PollScheduler.Fairness`: the repeatable entry fires each minute (`WF` of
  `TickFire`); a tick does not fail before reaching the same device for ever
  (`SF` of `TickAdd`; ticks fail only on database or Redis errors); BullMQ's
  timers run backoffs and the stalled check, and a handler that holds its lock
  settles. `LoseLock` and `Crash` stay unfair and unbounded.
- `PollBudget.Fairness`: Redis answers or fails, sleeps end, polls end, TTLs
  run out.
- `LiveDashboard.Fairness`: the timers for reloads and reconnection fire, queries
  and frames arrive. Nothing is assumed of the indexer coming back, nor of a
  notification being delivered: `ViewRecovers` holds by the reloads alone.
- `Licences.FairSpec`: the scan's job comes round, the pool serves its waiters in
  turn (`SF` of `Begin`), statements return. `LapsedIsTransitioned` is stated for
  the bypassing role, the only one under which the scan can do its work. `Break` and `Reap` stay unfair.
- `Deployment.FairSpec`: containers are restarted (`restart: unless-stopped`) and
  `main` goes on (`WF` of `Main`); deaths are bounded by `MaxFaults`, because a
  process that dies at every boot settles nothing.

## 4. What does not hold

Two runs check what the repository says and find it does not hold.

1. `polled_once`: "enqueue one poll job per enabled device"
   (`scheduler.ts:86`) and "already waiting or active, BullMQ skips the add"
   (`:108`). BullMQ also skips the add while the finished job is retained, and
   100 of each outcome are: with up to 100 devices whose jobs end alike no
   device is polled a second time. `FreeDeviceIsPolled` in `poll_scheduler`
   is the part of the promise that does hold.
2. `live_ignored`: "Server pushes new events as they land" (`ws.ts:11`). The
   indexer nests the event in a field `event`, the hook looks for `id`, `type`
   and `severity` beside it, and drops the message. Until the next backfill or
   reload the tab knows nothing. `BackfillClosesGap` and `ViewRecovers` are what
   does hold.

Known deviations met while modelling, which the models contain and no run is
spent on:

- A stalled job that is redelivered makes two handlers insert `device_offline`
  for one transition (`scheduler.ts:220` compares with a snapshot).
- The budget gate admits one call at a time, whatever the tier. The source says up
  to `maxConcurrentPolls` (`budget.ts:4-8`), which is 2, 8, 32 or 128
  (`license-tiers.ts:20-52`, `budget.test.ts:24-27`), and `acquire` waits only
  while the count is at the tier's number; but `budget.ts:82` takes the length that
  RPUSH returns for a yes or no (`ok !== 1`), so a push onto a list that is
  not empty is denied and its token stays: at a tier of two a second call is
  refused while one slot is in use. What is claimed is the half that holds, and
  would still have to hold once this is repaired: the slots in use are never more
  than the tier allows (`NeverOverTheTier`).
- A death between RPUSH and PEXPIRE, or the token of a denied push, leaves a
  list without a TTL, and the slot is not reclaimed (against `budget.ts:36-38`).
- Uniview's window begins at the last alarm's own second and stores it again
  (against `adapters/types.ts:85-87`), and passes the alarms of a failed window
  and those past the first page of 200 (`uniview-tvt.ts:73`, `:87`).
- ONVIF and Uniview report a device that answers nothing as online.
- No statement or trigger issues NOTIFY, so the indexer hears nothing at all
  today; `NotifyOnInsert` is the intended setting.
- `listEvents` returns the newest first and the tab applies them in that order,
  so after a backfill the *oldest* event decides the status shown, until the
  next reload. A device that comes back degraded is shown online for as long:
  the exception in `ShownStatusIsHistorical`.
- Saving a user name with a blank password replaces the stored credential by one
  without a password, and the other way round (`SiteDetailPanel.tsx:309-311`),
  although both placeholders say "leave blank to keep" (`:341-342`).
  `SaveLeavesTheRest` claims the credentials only if neither is typed.
- Saving a device form nobody has touched writes the ports 80 and 554 into a
  device that has none (`SiteDetailPanel.tsx:286-287`, `:306-307`), and trims name
  and address (`:301-302`); a site form trims its texts, and clearing the
  timezone is ignored (`:189`).
- The listings have limits and no order: with more than 1000 enabled devices
  the grid shows any 1000 of them (`devices.ts:173-184`), and the fleet's count
  ends at 5000 (`dashboard.ts:33`).
- `license-expiry.ts:4-7` says a lapsed licence "would still be honored" until the
  scan has run. It is stale: `requireLicense` compares `expires_at` itself, as
  `licenses.ts:21-23` says, and `HonouredInTime` holds without the scan.
- The backfill asks for up to 500 events (`ws.ts:77`), the feed keeps 200
  (`App.tsx:13`). As they come newest first and each is put on top, a backfill of
  more than 200 leaves the *oldest* 200 in the feed and drops the newest. TLC shows
  it with a feed of one. `BackfillClosesGap` is therefore proved as long as
  neither limit has been reached (`WithinLimits`).
- A device that is disabled disappears from the dashboard, as `GET /v1/devices`
  lists enabled ones, and cannot be enabled there again.
- The answer to one form's request closes whatever is in its place by then,
  unsaved input included (`SiteDetailPanel.tsx:150`, `App.tsx:105`, `:117`).
- Under a database role subject to row-level security the scan sees no licence
  on a fresh connection, and on a used one fails to cast the empty
  `app.company_id`; with such a role nothing can be issued either.
- A process that has not been restarted after a rotation cannot read what a
  newer one has encrypted.

## 5. What is proved

All theorems hold for every value of the constants allowed by the named
assumptions (`NoDeviceAssumption`, `SiteAssumption`, `PoolAssumption`,
`RedeliveryAssumption`, `LogAssumption`, `BoundAssumption`,
`LimitAssumption`, `FormsAssumption`, `BudgetAssumption`, `VendorAssumption`, `NumberAssumption`, `NullAssumption`,
`NameAssumption`, `DeploymentAssumption`, `EnvAssumption`, `LiveAssumption`);
TLC evaluates these on every run.

| Theorem | Property | Extra assumption |
|---|---|---|
| `TypeCorrect` | `TypeOK` | |
| `NoEventIsLost` | `NoEventLost` | |
| `DeletionIsFinal` | `NothingOutlivesItsRow` | |
| `CredentialNeverOlder` | `CredentialAsNewAsAddress` | |
| `EventsExactlyOnce` | `ExactlyOnce` | `~Redelivery` |
| `FeedIsTruthful` | `FeedMatchesStatus` | `~Redelivery` |
| `PollWorkerImplementsDeviceFeed` | `ImplementsDeviceFeed` | `~Redelivery` |
| `SchedulerTypeCorrect` | `PollScheduler!TypeOK` | |
| `QueueAlwaysSmall` | `QueueStaysSmall` | |
| `RunsAreFinite` | (the safety half of `JobsSettle`) | |
| `BudgetTypeCorrect` | `PollBudget!TypeOK` | |
| `GateKeepsToTheTier` | `NeverOverTheTier` | |
| `ReleaseIsOwn` | `ReleaseTakesOnlyOwnToken` | |
| `AdapterTypeCorrect` | `VendorAdapter!TypeOK` | |
| `SilenceThrows` | `SilentDeviceIsUnavailable` | |
| `NothingReadIsSkipped` | `CursorPassesOnlyStored` | |
| `RepeatsAreBounded` | `RepeatedOnlyAtCursor` | |
| `DashboardTypeCorrect` | `LiveDashboard!TypeOK` | |
| `FeedNeverRepeats` | `FeedHasNoDuplicates` | |
| `ScreenIsHistorical` | `ShownStatusIsHistorical` | |
| `NoEventInTheGap` | `BackfillClosesGap` | `WithinLimits`, a condition on the state: no more events since the backfill's start than it may return, and a feed that has not been full |
| `FormsTypeCorrect` | `EditForms!TypeOK` | |
| `SavingAlwaysPending` | `SavingMeansPending` | |
| `CreatedAtMostOncePerTry` | `CreatedOncePerTry` | |
| `SavesLeaveTheRest` | `SaveLeavesTheRest` | |
| `LicencesTypeCorrect` | `Licences!TypeOK` | |
| `ScopeNeverLeaks` | `ScopeIsOwn` | |
| `LapsedNeverHonoured` | `HonouredInTime` | |
| `ScanTakesLapsed` | `ScanTakesOnlyLapsed` | |
| `DeploymentTypeCorrect` | `Deployment!TypeOK` | |
| `MigrationsAlwaysAgree` | `MigrationsAgree` | |
| `TicksAlwaysStay` | `TicksStay` | |
| `CredentialsAlwaysReadable` | `CredentialsStayReadable` | |

The arguments:

- **NoEventLost** is not inductive alone: a commit sets the cursor from the
  snapshot, so what is below the *snapshot's* cursor must be stored too, for
  every handler between `LoadDevice` and its end whose device is live, and the
  pull must reach exactly the next cursor. Rows are never un-deleted and copies
  only grow while the row lives, which keeps it true for the snapshots of other
  handlers.
- **ExactlyOnce**, **FeedMatchesStatus** and the refinement need that the
  snapshot of a handler *equals* the row's status and cursor while it works.
  That holds because with one delivery at a time no two handlers share a device,
  nobody else writes these columns, and a deleted row does not come back. With
  it, `Persist` is a `Follow` step of `DeviceFeed`, `MarkOffline` a `Follow`
  that stays where it is, deletions are `Drop`, and all else stutters.
- **QueueStaysSmall** with types is nearly inductive: every list holds the jobs
  of its state, each once (`ListsAgree`), so what a tick adds is in no list, what
  a slot takes is in no other, and the head that retention evicts is the job
  that is forgotten. It needs besides that only the running job is locked
  (`LockedRuns`), and for the type of `attempts` that an unfinished job has an
  attempt left (`AttemptLeft`).
- **RunsAreFinite** gives every job a number, the attempts and stalls it has
  left. It is a natural number, no step raises it while the job exists, and a
  run that ends without the job being finished lowers it. What is missing from
  `JobsSettle` is only that the queue goes on, which is fairness.
- **NeverOverTheTier**: a call in use has its token at the head of the list or
  nowhere, because its push found the list empty and later pushes append. So at
  most one of them is listed, and a tier is at least one.
  `Release` then takes the head or nothing, which is `ReleaseTakesOnlyOwnToken`.
- **The cursor**: every stored alarm is no later than the cursor
  (`StoredIsBehind`), and once the window is set it begins at the cursor
  (`Window`) and a list that was not full contains every alarm of it before
  `next` (`Read`): alarms raised later are stamped now, which is not before
  `next`. So a commit stores what it passes, and a window meets a stored alarm
  in its first second only.
- **The dashboard's types** depend on the state: what a frame, a late answer or
  the grid says about a device must be a status its row *has had* (`Known`), and
  an id must be one of an event that exists. Rows and history only grow (`Grown`), so what
  was well-typed when it was read still is when it arrives (`GrownTypes`). That makes
  `ShownStatusIsHistorical` a matter of types: it holds of the screen because it
  holds of everything on its way to it. The size of the wire needs `Handshake`: a
  connection has at most one acknowledgement, one question and one answer.
- **FeedHasNoDuplicates** holds because an event that is there is not added
  again. A backfill is that step for each of its events:
  `ApplyBackfill` is a recursive function, shown to exist once and for all and to
  carry what each step keeps, by the least step at which it might not (the
  library's induction theorems cannot be instantiated, its least-element
  theorem can).
- **BackfillClosesGap**: what is wanted of the gap (its events of live devices)
  is in the answer under way (`Replayed`) or, once that is handled, in the feed (`Closed`). The
  answer has it all because `ListEvents` ranks what it finds, each rank is taken once, and as many are
  taken as there are when the limit permits; the feed keeps it all because the
  feed never gets shorter, so that one with room has always had room (`HasRoom`), and
  one without duplicates is no longer than the events are many.
- **SavingMeansPending** is about a form and its requests while either may go
  first. Requests are told apart by place and number of their form, numbers are
  never reused (`Numbered`), and a form waits if and only if its request is
  there (`Pending`). An answer closes what is in its place *now*, so one must
  also know that a form that is still the sender is in the panel it was sent
  from (the last part of `Pending`), and that what is mounted belongs to what is
  open (`OnScreen`): otherwise an answer could leave its own form waiting.
- **SaveLeavesTheRest**: a copy marked fresh equals the row in every field
  nobody touched, its ports filled in, on screen and on its way (`UpToDate`); what
  the body then makes of these fields is `PatchedSite` and `PatchedDevice`, expanded
  in the two steps that write. The writes that could
  break it, a PATCH of one's own or of others, mark every other copy of that row
  (`Outdate`), and a row that is created was not there to be copied
  (`DevMatches` says so).
- **CreatedOncePerTry** is strengthened to an account: sites (units) that exist,
  plus presses that may still create one, plus one if the button can be pressed,
  never exceed `tries` (`Counted`). A press moves a unit from the button to the
  requests, a creation from the requests to the rows, and an error from nowhere
  to the button, where `tries` counts it.
- **Licences**: `ScopeIsOwn` is inductive with types: it says both that an open
  transaction has its own scope and that a free connection has none, and each
  end of a transaction (`Over`) turns the one into the other. What a call
  honoured stays honourable because rows keep their company and time once they
  are there (`Kept`), whoever issues or scans; a call's time is never ahead of
  the clock (`Past`), so what the scan's older time finds lapsed has lapsed.
- **MigrationsAgree** needs only that what a process takes for applied is
  (`SeenApplied`): the next file is the least it has not seen, so all before it
  are there. Mutual exclusion is not used.
- **CredentialsStayReadable** needs that what any running process may yet
  encrypt under is in the environment with the same key (`ActiveKnown`). A
  change of environment extends the ring (`ConfigureExtends`: the number an
  unset version gets is above every earlier one) and a retirement takes one
  version, which nobody stores or writes (`RetireDropsOne`).

Each module states its inductive invariant as a conjunction of named parts,
proves `Init => Inv` and `Inv /\ [Next]_vars => Inv'` with one step per action,
and combines them with PTL.

## 6. What is only model-checked

- Liveness under fairness (`HandlersFinish`, `FreeDeviceIsPolled`,
  `JobsSettle`, `DisabledDeviceDrains`, `AcquireEnds`, `ViewRecovers`,
  `LapsedIsTransitioned`, `BootsSettle`): out of the prover's reach, as is
  ENABLED.
- Every safety property of the passing runs is a theorem, with one restriction:
  `BackfillClosesGap` is proved within its limits, past which it can fail. The
  operators the proofs use are plain or recursive functions over
  finite data. What each computes is proved as far as a property needs it.

## 7. Not modelled

The adapters' wire formats (four of their parsers are stubs in the source), a
drifting device clock and `testConnectivity`; request validation, error
formatting, logging, ids, `loadEnv`'s parsing, `CRED_ENC_KEY_VERSIONS`'s syntax,
`scripts/sign-jwt.ts` and JWT verification, which keep no state; markup,
`EventFeed` and `TokenSetup`; AES-GCM. `lastSeenAt` and `updatedAt` are left
out: no code decides on them. Severity, payload and credential scrubbing of an
event are left out: no property is about them. So are the keys of a device's
`vendorConfig` other than its ports, which a form sends back as last shown. BullMQ, Postgres, Redis, React
and the container runtime are modelled as the source uses them.

## 8. Plan

`PollSystem`: `PollScheduler` and `PollWorker` composed, with the queue's
locks deciding redelivery instead of the constant, once a smaller
`PollWorker` makes the product checkable.
