# GBI backend: a TLA+ development

GBI is the backend of an air-quality fleet: sensors publish telemetry over MQTT,
a NestJS service (several identical nodes behind one PostgreSQL and one Redis)
stores it, detects silent devices, evaluates thresholds, and shows all of this to
the users who have claimed the devices. This directory models the parts of it
whose correctness depends on the order in which concurrent steps happen.

All paths below are relative to the repository; `src/src/...` is its `src/`
directory in the notation of `PROJECT.json`.

## 1. The system

| Component | State | Operations | Talks to |
|---|---|---|---|
| Telemetry ingestion (`mqtt/mqtt.consumer.ts`) | `DeviceTelemetry`, `Device.status`, `Device.lastHeartbeatAt`; `device:{id}:latest` in Redis (written, never read) | `handleTelemetry`, one invocation per MQTT message | broker, alert engine, SSE, event log |
| Offline detector (`mqtt/offline-detector.service.ts`) | `Device.status` | `checkOfflineDevices`, on a timer of every node | SSE, event log, device list cache |
| Alert engine (`alerts/`) | `AlertState`, `EventLog`, `Notification` | `evaluate` | called by ingestion; thresholds of devices and groups; SSE |
| Realtime fan-out (`realtime/`) | per node: map of open streams, heartbeat timer, Redis subscription | `addClient`, `removeClient`, `sendEvent`, message callback | browsers, Redis pub/sub |
| Devices (`module/devices/`) | `DeviceAssignment`, `UserDevice`, `DeviceThreshold`, cached list `user:{id}:devices` | claim, rename, list, unclaim, thresholds, restart command | PostgreSQL, Redis, MQTT |
| Groups (`groups/`) | `DeviceGroup`, `GroupThreshold`, `Device.groupId` | create, add, remove, threshold, delete | shares `Device` and thresholds with Devices and alerts |
| Administration (`module/admin/`) | all of the above | register, soft delete, force unassign, restrict, delete user, unlock | PostgreSQL, Redis |
| Authentication (`auth/`) | `User`, `RefreshToken`, OTPs and counters in Redis | signup, login, refresh, logout, password change and reset, OTP | PostgreSQL, Redis, mail queue |
| Premium and payments (`module/premium/`, `module/subscriptions/`) | `User.isPremium`, `PremiumSubscription`, `PremiumHistory`, `Subscription` | order, verify, webhook, activate, renew, revoke, nightly expiry | Razorpay |
| Reports (`reports/`) | BullMQ queue, `GeneratedReport`, files | enqueue, process, download, hourly clean-up | Redis, disk |
| Mail (`mail/`), providers (`notifications/`) | BullMQ queue, suppression set | enqueue, send, bounce webhook | SMTP and providers |
| Event feeds and inbox (`event-logs/`, `in-app-notifications/`) | the read flag of `Notification`; they read `EventLog` | pages, links to a row, mark as read | rows written by alerts, ingestion, detector |
| Users (`module/users/`) | own verification codes and their limits in Redis | request and verify a code, profile | Redis |
| Queries (`telemetry/`) | none | read-only | PostgreSQL |

### What is hard

* **Interleaving.** Every `await` lets other requests, messages and nodes in.
  Nodes share no memory, so only PostgreSQL's transactions and indexes order
  them. Almost every operation reads, decides and writes in separate queries.
* **Delivery.** The broker redelivers (QoS 1), to any node. Redis pub/sub forgets
  what is published while a subscriber reconnects.
* **Failure.** There is no outbox: log, state and push are separate writes, and a
  node may die between any two. Prisma rolls back a transaction after 5 s.
* **Time.** A timer decides that a device is silent; a reading may race it.
* **Caches.** The device list is cached for five minutes and evicted by hand.

`PROJECT.json` lists every hazard at its line, with the property that covers it
or the reason why none does.

### What makes each component correct

* Ingestion: a message is stored once; status and heartbeat describe a stored
  reading; deletion ends the intake.
* Detector: only silent devices go OFFLINE, all of them do, and each outage is
  told once.
* Alerts: a breach is told, once, until it is over, also when two readings are evaluated together; no flicker.
* SSE: each stream of a user shows the user's events, in one order, none twice
  and none skipped while connected; streams are kept alive.
* Ownership: one owner; the metadata is the owner's; a free device can be claimed;
  writes do not leave stale lists behind.
* Payments: an order counts once and counts in the end; premium access rests on a
  subscription that is neither revoked nor expired, and lasts until its date.
* Sessions: what should end a session ends it, and nothing else does; a refresh token is
  spent once.
* Codes: guesses are counted and locked out on all nodes together; no counter stays for
  ever; an address that bounces gets no code.
* Groups and thresholds: a device has limits of its own or its group's, not both; a restart
  that was answered is not reported as unanswered.
* Reports: files, rows and jobs agree, and all of them go away.
* Feeds: whoever turns pages or follows a link sees the rows; rows are shown with the
  limit and the event that are theirs.

## 2. The modules

| Module | What it models |
|---|---|
| `Fleet` | the constants of the modules about devices |
| `DevicePipeline` | ingestion, detector, soft delete and unclaim on the tables they share |
| `DevicePipelineProofs` | theorems about it |
| `AlertProtocol` | the abstract promise: what notices a user may get about a metric |
| `Alerts` | the alert engine in detail; implements `AlertProtocol` |
| `SseFanout` | the SSE service of all nodes and the Redis channel |
| `SseFanoutProofs` | theorems about it |
| `DeviceOwnership` | claims, renames, unclaims, forced unassignment, deletion of users, the cached list |
| `Payments` | paid orders, the administrator's premium actions and the nightly expiry |
| `PaymentsProofs` | theorems about it |
| `AlertsProofs` | theorems about `Alerts`, the refinement among them |
| `Sessions` | the refresh tokens of one user |
| `SessionsProofs` | theorems about it |
| `AccountCodes` | one-time codes, failure counters, lockout, rate limits, the mail queue and the suppression list of one address |
| `AccountCodesProofs` | theorems about it |
| `DeviceControl` | groups, thresholds and the restart command |
| `DeviceProofs` | theorems about `DeviceOwnership` and `DeviceControl` |
| `Reports` | report requests, queue, workers, status and clean-up |
| `EventFeed` | the event feeds and the in-app inbox over the rows that alerts and telemetry write |
| `HistoryProofs` | theorems about `Reports` and `EventFeed` |
| `MCSignedIn` | instances of `Sessions` and `SseFanout` |
| `MCDevices` | instances of `DeviceOwnership` and `DeviceControl` |
| other `MC*` | instances of one module: symmetry sets and small values |

`MCSignedIn` and `MCDevices` put two modules into one run that have no variable in common. A
behaviour moves one of the two only (`moving`), so each is explored as if it were alone and the
states add up instead of multiplying. `MCEventFeed` does the same with three instances of one
module (`aim`): the pages of the log, the pages of the inbox, and joins.

### Conventions

An action is what one handler does between two awaits; an explicit program
counter (`hpc`, `dpc`, `pc`, `rpc`) says at which await it is. A transaction is one
action at its commit when nothing outside can tell its queries apart, and several
when row locks make others wait for it (`Insert`/`Commit`, `UnclaimEnd`/
`UnclaimCommit`). A unique index is a condition on the rows, and waits for open
transactions whose row would conflict, as PostgreSQL does. Crashes and rejected
queries are the actions `...Fails`; they keep what is committed and drop the rest.
An operator "Mutant of X", defined above X, is a plausible bug; it is not used by
the specification and exists to show that a property can fail.

`DeviceControl`, `Reports` and `SseFanout` name their specification, its parts and their null after
the module (`ControlSpec`, `ReportsSpec`, `SseSpec`, `Nil`, `Null`), because another module extends
each of them beside another model.

### DevicePipeline

A `Handler` is one call of `handleTelemetry`: `Deliver` (the MQTT callback),
`ReadDevice` (the row whose status the handler goes on with; deleted devices and
missing ids end it), `Insert` and `Commit` (the transaction), `LogRecovery`
(ONLINE event), `Finish` (alerts, Redis). `TransactionTimesOut` and `HandlerFails`
are the catch block. A `Detector` is one call of `checkOfflineDevices`: `Find` (the
list), `MarkOffline` (the `updateMany`, which re-evaluates the same clause),
`Announce` (one turn of the loop). `SoftDelete` is the administrator's, `Unclaim` the
owner's. A payload is reduced to its device, its messageId and whether all eight
metrics are usable, which is all that status and storage depend on. `beat`, `purged`,
`offlineEvents`, `handed`, `outages` and `strays` are history variables no guard reads. The per-miss
log lines of the detector, the label lookups and the Redis key are left out.

`Status` is the schema's enum of four values. The documents
(`docs/telemetry-architecture.md:79`, `:111-119`) call the healthy status ACTIVE and list no ONLINE;
the code writes ONLINE (`mqtt.consumer.ts:375-388`) and nothing in `src/` writes ACTIVE. The model
follows the code, so no behaviour reaches ACTIVE.

The constant `MessageIndex` is TRUE for a database built by the tracked migrations
(`0_init` creates a unique index on (deviceId, messageId)), and FALSE for one built
from `schema.prisma`, whose own index has the timestamp as well, or treated with the repository's
manual script, which drops the other. On the first kind a message is stored once; on the second
a redelivered message is stored again. `IngestedOnce` says both: at most one row, and at most
one row per delivery. Both kinds are checked (`pipeline`, `pipeline_liveness`) and proved.

### Alerts and AlertProtocol

One device and its one assigned user. `evaluate` reads the device's threshold, else the
group's, else the defaults; then the assignment and the states, once; then loops over
the metrics (in any order; the code's is that of the JSON keys). A notice
(`EventLog` and `Notification` rows) precedes the state write that suppresses the next
one, and a failure may fall in between. Two readings of a device may be evaluated at the same
time: the MQTT callback waits for nothing, and another node may have the next message. Both calls
then work with the states they read before (`seen`). The history variable `disturbed` has the
metrics whose newest notice was left without its state by a call that died, or contended for by
two calls (`Clashing`: one is about to write the state while the other is at the metric or will
come to it with what it has read). A notice that nobody contends for ends the disturbance.
`AlertProtocol` lets a notice be repeated only after a disturbed one. The refinement mapping is the
identity on the three shared variables. The hysteresis is computed as the code does, in
hundredths.

### SseFanout

Streams move through three views: the browser's (`host`), the node's map
(`registered`) and Redis' (`subscribed`). `Leave` is the browser's, `Close` the
node's callback, later. Redis takes the messages of a node in order and forwards each
to all subscribers at once, so every inbox has one global order; a broken connection
loses what is under way. `due` records what a stream ought to see.

### DeviceOwnership

A `Request` is an HTTP request of a user. `ClaimCheck` and `ClaimInsert` are the two
halves of `claimDevice`'s transaction: read committed, so another claim may commit
between them, and the two unique indexes decide. `RenameCheck`/`RenameUpdate`,
`UnclaimCheck`/`UnclaimEnd`/`UnclaimCommit` and `ListMiss`/`ReadAssignments`/`ReadMeta`/
`Store` follow the awaits of the other operations. `excused`, `forced` and `emptied`
are history variables; `excused` names exactly the cases in which the code is known
to leave a stale list (an unclaim, a forced unassignment, an overtaken listing, a failed
eviction).

### Payments

A `Process` is a call in flight: `verifyPayment`, a webhook, an administrator's request or the
cron job. `VerifyCheck`/`WebhookCheck` look for the order's row and compute the dates,
`ActivateCommit` is the rest of the transaction, which either commits or is refused by the
primary key `sub_{orderId}`. `AdminActivateCheck`, `RenewCheck`, `RevokeCheck` and `ExpireList`
read before their transactions begin; the transactions then pick their rows of
`PremiumSubscription` (`Select`), wait for whoever holds them and look again (`Lock`), and
commit together with the update of the user (`RenewCommit`, `RevokeCommit`,
`ExpireCommit`). A row that is inserted after `Select` is not seen, as in PostgreSQL's read
committed level. `webhook` is what Razorpay still has to deliver: an order leaves it when
it is answered 2xx. Dates are counted in days and midnights. `verify` grants to the caller of
the session, whom the model takes to be the buyer. `excused` is a history variable:
it names the three ways in which the code is known to lose paid days (see the
comment of `PaidIsHonoured`); `PremiumHistory` is never read back and left out.

### Sessions

A `Process` is a request in flight; its program counter names its next query, and every
query is an action, because only the deletion of a user runs in a transaction. Whatever
stores a token ends in `Clean` and `Store` (`generateTokens`): `Login`, `GoogleLogin`,
`VerifyEmailOtp`, `CompleteProfile` and, after `RefreshRotate`, a refresh. Whatever ends
sessions is `Logout`, `SetPassword`/`RevokeAll` (change and reset), `RestrictUser`/
`DeleteSessions`, `DeleteUser`, `Expire` and the cron job. `changes`, `since`, `stray`,
`ended`, `issued` and `heirs` are history variables. `heirs` are the tokens a refresh token was
exchanged for: two, when two refreshes find it live together. `stray` names the sessions the code
is known to leave alive: those stored by a request that had passed its check before the
change (or, for `verifyEmailOtp`, that does not look at the restriction at all), and those
of a request that died between the change and the revocation. `completeProfile` may set a
password too and ends no session (`auth.service.ts:571-583`); the model follows it, and
`changes` counts changes and resets only.

### AccountCodes

One address. Every command to Redis and every query is an action, so that `INCR` and
`EXPIRE` (`CountRequest`/`TimeRequests`, `RecordFailure`/`TimeFailures`, `OwnIncr`/`OwnTtl`),
`SET lockout` and `DEL` (`LockOut`) come apart. A code is a number, in the order of issue;
who knows a code has got it by mail, so `Judge` accepts only a code whose mail was sent.
The mail queue is `Enqueue`, `MailCheck`, `MailSend`, `MailError` with its attempts; the
provider's webhook is `Bounce`, `Unverify`, `Suppress`. `era` counts suppressions and
`eraOf` says before which of them a code was asked for. Welcome mails, templates and the
codes by phone (switched off by `REQUIRE_PHONE_VERIFICATION`) are left out.

### DeviceControl

Groups and devices of one user; `ChangeOwner` stands for claims and unassignments
(DeviceOwnership), which leave `groupId` and thresholds as they are. `AddFind`, `AddAssigned`,
`AddMutex`, `AddWrite` and `SetFind`, `SetWrite` follow the awaits; `overlapped` records the
devices that a grouping and a threshold call were at together. The restart is
`requestResponse`: `Subscribe`, `Command`, then `Hear`, `Timeout` or `PublishFails`, each of
which ends in `CleanUp`; the last two tell the caller the same (`silence`). `NodeOf` tells which requests share an MQTT client and with it a
subscription; `deaf` are the requests whose subscription another request's clean-up took.

### Reports

A report is a row, a job and a file. `Enqueue` and `CreateRow` are in the code's order: the
job may run before its row exists, and then fails and is tried again. BullMQ is modelled as
far as its options in the code reach: attempts, removal when done, the lock of an active job
and its stalling (`Stall`), after which two workers may be at one report. `List`,
`Unlink`/`UnlinkFails`, `DeleteKeyed` and `DeletePlain` are the sweep, of several nodes at
a time. `overdue` and `overtaken` are history variables of the excuses named below.

### EventFeed

The log and the inbox grow by `LogDevice`, `LogAlert` and, a query later, `Notify`. A reader
opens a feed and turns its pages (`Open`, `NextPage`) or follows a link (`Find`, `FetchFound`,
two queries); a second query joins log rows with notices by time (`ShowLimits`,
`LinkEvents`). Rows of one millisecond come in an order the database chooses
(`Newest`), and of equally near partners any may be taken (`Nearest`). The text search and the
counts and page numbers that go with the answer are left out. `walk` is a history variable.

## 3. The runs

Bounds are constants of the modules; each run's configuration gives them. The
hazards listed need two actors and at most three messages or five requests, so the
instances have two of whatever interacts and one spare step.

| Run | Instance | Shows |
|---|---|---|
| `pipeline` | 1 device, 3 message ids, 2 handlers, 2 detectors, 3 deliveries, 2 ticks, 1 failure, with the index; 1.5 M | rows, heartbeat and status stay consistent under overlapping, repeated, timed-out handlers, deletion and unclaim; a message is stored once; only silent devices are marked |
| `pipeline_liveness` | 2 devices (one claimed), 1 message id, 1 handler, 2 detectors, 2 deliveries, 3 ticks, without the index; 586 k, fair | silence ends in OFFLINE; outages are logged, and logged too often only by a run that another overtook; a redelivery is stored again, a delivery once |
| `pipeline_twice_violation` | 2 claimed devices, 2 detectors, 2 deliveries, 3 ticks | fails: one outage is logged twice |
| `alerts` | 2 metrics, 6 readings around two limits, 2 profiles, 2 calls at a time, 3 in all, 1 failure; 2.0 M | refinement of `AlertProtocol`, hysteresis, breaches are told, states are what was told |
| `signed_in` | sessions: 4 tokens, 2 requests at a time, 5 in all, 1 crash; streams: 2 nodes, 2 users, 2 streams, 2 events, 2 faults; 1.4 M | changes, restriction and deletion end the sessions; nothing else ends another's; one order of events, nothing skipped |
| `sse_heartbeat_violation` | 1 node, 1 user, 2 streams | fails: a stream without heartbeats |
| `devices` | ownership: 2 users (one deletable), 1 device, 2 names, 2 requests at a time, 5 in all, 1 fault; control: 1 device, 2 groups, 3 processes (two on one node), 5 requests; 1.1 M | one owner, matching metadata, evictions suffice; group and own thresholds exclude each other; an answered restart is not reported as silence |
| `ownership_reclaim_violation` | 2 users, 1 device, 1 request at a time, 3 in all | fails: a free device is refused as claimed |
| `payments` | 1 user with a short and a long plan, 2 processes, 2 midnights, 2 administrator requests, 1 failure; 712 k, fair | an order grants once, and in the end; no premium without an ACTIVE subscription; paid days last, with three named exceptions |
| `codes` | 2 requests at a time, 3 in all, lockout after 2 failures, rate limits 1 and 2, 2 mail attempts, 1 suppression, 1 crash; 2.6 M | guesses are bounded, counters lapse, a suppressed address is spared |
| `reports` | 2 reports, 1 worker, 2 cleaners, 2 attempts, 1 failure; 752 k, fair clean-up | files have rows, a finished job is not called lost, expired rows go |
| `feed` | cap of 3 rows, pages of 1 and 2. Log: 4 rows without notices; inbox: 3 rows and notices, each at up to 3 times; joins: 4 rows, 2 alerts and 2 notices about 2 metrics of one device and 1 of another; 1.8 M | links and pages show their rows; the join by time finds its partner |

`Timeout` and `TxTimeout` are one tick (in `pipeline_liveness` a transaction ends within the tick it
began in): only their order (a transaction is shorter than
the offline timeout) and "reached / not reached" matter. The values of `alerts` lie below,
in and above the bands of a limit with the 5 % buffer and of one with the 1-unit buffer.
In `signed_in`, four tokens are a session of another device, the token that is refreshed and
the two heirs a race can give it. In `codes`, the limits are as small as they can be with a
success, a failure and a lockout still told apart. In `feed`, the cap, the last page and the
page sizes stand to each other as in the code, where a link's last page may lie below or
beyond the cap; with pages of one row, a row that is older than the first page's stays below the
cap, unseen, when another is added, and must come on the third page. `reports` has one worker: that
a job runs twice, because it stalled and another worker took it up, is covered by the theorems
about `Reports`, which are for any number of workers, and not by the run. Symmetry is used in runs without
liveness, over identities no formula names.

Deadlock is checked except in `codes` and `reports`, which may come to rest: the number of
requests is bounded and every key lapses in the one, and in the other every report has been
made, expired and deleted.

### What the properties excuse

Where the code is known to lose a race, the property names the case instead of leaving it out of
the model:

* `EvictionIsEnough`: unclaims, forced unassignments and overtaken listings leave stale lists.
* `PaidIsHonoured`: a shorter second purchase, an expiry and an administrator's action that
  overtake a purchase.
* `SessionsEnd`: `stray`, above. The documents promise more: a reset "revokes all existing
  sessions" (`docs/AUTH_API.md:214`), a change clears "all existing tokens" (`:238`).
* `StateIsWhatWasTold`, `BreachIsTold`, `ImplementsProtocol`: notices that two calls contended for, or
  whose call died; the harm ends with the next notice about the metric that nothing disturbs.
* `AnnouncedAreMarked`: announcements by a run that found the device marked, heard or deleted in the
  meantime but marked another one.
* `CountersExpire`: a node that dies between `INCR` and `EXPIRE`, and the own codes' counter that
  lapses between `GET` and `INCR`.
* `ThresholdsExclusive`: a grouping call and a threshold call for one device at the same time.
* `AnswerIsHeard`: two restarts of one device on one node.
* `FilesAreTracked`: rows that expire before their job has ended, and jobs that fail for good.
* `DisappearedOnlyIfOvertaken`: a job that ends between the two reads of the status.
* `JoinFindsPartner`: a nearer row of another alert, and rows further apart than the window.
* `WalkMissesNothing`: rows of one millisecond, and unread notices marked meanwhile.

### The runs that are expected to fail

Each checks a sentence of the repository's documents that the code does not keep (`findings` in
`PROJECT.json` quotes it).

* `ownership_reclaim_violation`: claim, forced unassign, claim ends in a 409 "already claimed" on a
  free device.
* `pipeline_twice_violation`: the first detector run lists one device; a tick later the second lists
  both; the first marks and announces its own, the second marks the other and announces both
  (`offline-detector.service.ts:132` asks only whether anything was marked). The outage of the
  first device is broadcast twice, against `docs/telemetry-architecture.md:100`. On a fleet of one
  device this cannot happen. What holds for every fleet is `AnnouncedAreMarked`, and it is proved.
* `sse_heartbeat_violation`: a stream is opened and closed, which stops the timer
  (`sse.service.ts:92`), and the next stream of the node gets no heartbeats, against
  `docs/realtime/SSE_IMPLEMENTATION_GUIDE.md:78`.

### What the models show besides

Some more disagreements came out of the modelling; they have no run of their own:

* Two refreshes with one refresh token that both find it live get a new pair each
  (`auth.service.ts:741-790`): `RotationBounded` bounds the heirs by the requests at a time, and is proved.
  The documents promise one: "Old refresh token immediately revoked", "Prevents token reuse"
  (`docs/auth/README.md:544-548`), "Rotated on every use" (`docs/AUTH_API.md:28`).
* ACTIVE and ONLINE, see DevicePipeline above.
* Two handlers of a device can commit in the other order than their rows' timestamps, and the
  older reading's status stays (`mqtt.consumer.ts:410`, against `docs/telemetry-architecture.md:144`).
* A device that is turned OFFLINE between a handler's read and its commit comes back
  without an event (`mqtt.consumer.ts:463`).

## 4. Fairness

`pipeline_liveness` assumes weak fairness of the clock (`setInterval` and time go on), of
each detector step and of each step of a started handler (an awaited query returns).
No fairness is assumed of deliveries, failures or people. Handler and detector steps
stay enabled until taken, except `Insert`, which a conflicting open transaction blocks
and that transaction is itself fair. The property about outages excuses a run that
died half way, because the code does: the next run no longer lists the device.

`payments` assumes weak fairness of the steps of a started transaction (row locks are
released at commit) and of the webhook of each order: Razorpay repeats `order.paid` until it is
answered with success. Nothing is assumed of browsers, administrators or midnights.

`reports` assumes weak fairness of each node's sweep, which a timer starts every hour
and whose awaited calls return. Nothing is assumed of workers, which may die or stop.

## 5. What is proved

Proofs are checked by TLAPS for all values of the constants that satisfy the named
assumptions; time, deliveries, requests and failures are unbounded there.

**DevicePipelineProofs** (assumption `PipelineAssumption`). The type invariant is inductive by itself. For the rest the
invariant adds what open transactions know: a row in flight carries its handler's
device and status and a time not later than the clock, no two rows in flight conflict
with each other or with a stored row, and every stored reading's heartbeat lies between
its own time and `lastHeartbeat + TxTimeout`. The last part is where the transaction limit
matters: a handler that waits for the row lock writes a heartbeat computed before the
wait, and without the limit it could move the heartbeat back arbitrarily. Theorems:
`TypeCorrect`, `HeartbeatCorrect`, `StatusCorrect`,
`NoSilentOutage` (list and update may differ in one direction only: what is marked was
listed) and the action property `OfflineSound`. `DeletionStopsIntakeCorrect` counts: the
readings stored since the deletion and the handlers that are past the `isDeleted` check and
have yet to store are, together, no more than the handlers there are (`IntakeInv`).
`IngestionIdempotent` has an invariant for each kind of database: with the index, rows in flight and
stored rows are kept apart by their messages (`IngestInv`); without it, the stored copies of a
message and the handlers that may still store one are no more than its deliveries
(`CopiesCounted`). `AnnouncedAreMarkedCorrect` counts too: the events logged, and the runs about to
log one, are no more than the outages and the strays (`EventsCovered`), because a run that is about to
announce a device has either marked it or is counted as a stray of it.

**AlertsProofs** (assumption `AlertsAssumption`). `NoFlickerCorrect` holds for any number of
concurrent calls: `Calmed` says that a newest notice RESOLVED was written for a value below
its band, and `BandWidth` is the arithmetic from there to above the limit. So do the others,
from the invariant `Engine`: a metric that is not disturbed has nobody contending for it; its state is
what its newest notice says, or a call is about to make it so, and whoever comes to it
later has read the state as it is (`Undisturbed`); a metric nothing was said about is NORMAL
for everybody (`Unheard`). A state is written either for an undisturbed metric, where it agrees
with the notice, or for a disturbed one, about which nothing is claimed until the next notice. From it
follow `StateIsWhatWasToldCorrect`, `BreachIsToldCorrect` and the refinement `ProtocolImplemented`, whose
steps map a notice to `Notify` or, when it says what the one before said, to `Repeat`, and a call that
dies or comes to contend to `Disturb`.

**DeviceProofs** (assumption `OwnershipAssumption`; the part about `DeviceControl`
needs none). The three properties of the rows are not
inductive: an unclaim in its transaction must know that the assignment it found is still
there and that it alone holds its lock, or that it found none (`Knows`). With that,
`OwnershipInvariant` gives `OneOwnerCorrect`, `OwnerHasMetaCorrect` and
`FreeUnlessForcedCorrect`; the steps that write no row are one lemma (`QuietKeeps`).
`EvictionIsEnoughCorrect` needs no more than the types: `Covered` is inductive for each user, because
every step that changes the rows a list is made of either evicts later or is excused.
`ThresholdsExclusiveCorrect` needs `Met`: a grouping and a threshold request for one device
that are under way together are remembered from the moment the second begins, and so is
a device whose threshold or group appeared after a request had found none. `Typed` adds
what each request is about, and `TablesLeft` covers the steps that write neither table.
`AnswerIsHeardCorrect`, an action property, needs `Hearing`: a request that waits has its
node's subscription and, once answered, an answer on the way, unless it is among the
`deaf`; `SUBACK` before the command makes that so.

**PaymentsProofs** (assumption `PaymentsAssumption`). `OncePerOrder` is inductive with the types;
`PremiumIsBacked` needs one more fact, `PickedRows`: what a transaction has picked are
subscriptions of the users whose flag it is going to write, so a revocation or an expiry
that takes away a user's rows also takes away the flag. `UpdateKeeps` and
`ActivateKeeps` are the two kinds of commit. Theorems: `TypeCorrect`,
`OncePerOrderCorrect`, `PremiumIsBackedCorrect`. `PaidIsHonouredCorrect` adds `HonouredInv`:
a subscription that is due has a user with the flag and a date not earlier than its own;
every transaction that has picked rows of that user has picked it too, so that whoever
takes the flag also ends the row; and a nightly listing names the user only if the
subscription was over when it was made.

**SessionsProofs** (assumption `SessionsAssumption`). `SessionsEnd` is inductive with the
types. `NobodyElseEndsIt` needs that rows which are revoked or expired, and tokens about to be
purged, have ended (`EndedWell`), so that what a clean-up deletes was over before.
`RotationBounded` counts: the heirs a token has and the requests that still hold it live are,
together, no more than the requests there are at a time, and once it is revoked no further request can
join them. Theorems: `TypeCorrect`, `SessionsEndCorrect`, `NobodyElseEndsItCorrect`,
`RotationBoundedCorrect`; the last is what the code gives, not what its documents promise.

**SseFanoutProofs** (assumption `SseAssumption`). The one order of the streams is stored nowhere:
it is the union of what streams show, of what waits in a node's inbox, and of "a stream
shows e while f waits for its node" (`Precedes`), and `Ordered` says that no two events
precede each other. It is kept because an event that Redis has not seen is nowhere else
(`Unforwarded`, from `Numbered`), so that forwarding appends it everywhere at once.
`Owned` says that an open stream is in its node's map: `Receive` then reaches every stream
that is owed the event. Theorems: `TypeCorrect`, `OneOrderCorrect` and `NothingSkippedCorrect`.

**AccountCodesProofs** (assumption `AccountCodesAssumption`). `CountersExpireCorrect` needs the
types and where each request stands. For `GuessesBoundedCorrect` the invariant says who
accounts for a guess: while there is no lockout, the counter, a request that is about to
count it or a request that died (`GuessesCounted`), and what exceeds the limit has requests
that will lock (`ExcessIsSeen`); while there is one, only those that had passed
`checkLockout` before still judge (`LockoutCloses`). The proof depends on one reset that
no handler intends: the `DEL` after a lockout (`auth.service.ts:932`) may come when
the lockout has already been lifted, and then forgets the failures counted since. The
property names it. For `SuppressedIsSparedCorrect` the invariant follows a code: each
request makes one at most (`CodesAllowed`), no identity is in use before its code is made
(`CodesIssued`), and while the address is suppressed none asked for since has passed the
worker's look at the list (`NotMailed`) or is being verified (`NotAboutToVerify`).

**HistoryProofs** (assumptions `ReportsAssumption` and `EventFeedAssumption`). Reports: once
the clean-up has to do with a report whose job ended before its row expired (`Touched`),
the report is settled: no worker is at it, so nothing is written after the unlink, and the
sweep's list tells truly which rows have a key (`TouchedIsSettled`, `PlainHasFailed`). The key is in the row before
the job leaves the queue (`KeyFirst`), which is what a poll relies on. Theorems:
`FilesAreTrackedCorrect`, `DisappearedOnlyIfOvertakenCorrect`. Feeds: tables only grow, so
rows only move down; a page that skips as many rows as a row has newer ones shows it
or ends before it (`PageReaches`), the next page goes on where this one ended
(`PageFollows`), and what a walk has not shown is beyond its pages (`WalkIsComplete`). For links,
`TargetSkip` bounds the page that the first query computes, which keeps the second below the
cap, and the row itself, still in its table (`FoundIsLinked`), joins the page if rows
added in between have moved it off. Theorems: `HighlightIsShownCorrect`, `WalkMissesNothingCorrect` and
the action property `JoinFindsPartnerCorrect`.

**Only model-checked.** The four liveness properties, `SilentGoesOffline`, `OutageIsLogged`,
`PaidIsActivated` and `ExpiredAreCleaned`: liveness under fairness is out of the prover's reach.
Every safety and action property of the passing runs is proved, under the assumptions on the
constants only.

## 6. What is not modelled

These do not interleave with the modelled state in a way a property could be about:

* Rendering of PDF and CSV, mail templates: pure output.
* Telemetry queries and charts: read-only aggregation in SQL.
* Subscription plans and profiles: single rows, written by one request.
* The administrator's own login, tokens (signed, not stored) and password reset (as a user's
  reset, over one code key), and the registration of devices, alone or from a file: inserts
  into one table whose unique key refuses the second of two.
* Access tokens and impersonation: signed and not stored, they end with their time.
* Providers of SMS, e-mail and push; guards and middleware.

One thing that does matter is left out as well: the connection of a node to its MQTT broker. The client
connects with `clean: true` (`mqtt.service.ts:26`), so a connection that breaks while a restart
waits loses the subscription and with it the device's answer. `AnswerIsHeard` is about nodes that
stay connected; a node that does not is a further case in which an answered restart is reported
as silence. The redelivery that a broken connection brings is in `DevicePipeline` (`Deliver`).
