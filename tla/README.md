# MultiSig Tools for Stellar: TLA+ models and proofs

This directory holds TLA+ modules for the coordination service of MultiSig
Tools (`src/apps/stellar-api`), the TLC configurations that check them on small
instances, and TLAPS proofs of their main safety properties for every size.
`PROJECT.json` links each definition to the source lines it was translated
from, each property to a fault it detects, and lists the hazards of the code.

Paths below are relative to `src/apps/stellar-api/stellar/` unless they start
with `apps/` or `packages/`. PostgreSQL tables are named without their schema
`mst_stellar`.

## 1. The system

Several people or services must sign one Stellar transaction. The service keeps
what they agree on and what they contributed; it never signs or submits itself.
Every API call is one short-lived handler (a serverless function or a request
of the Node server). Handlers share nothing but PostgreSQL (or a blob store
when PostgreSQL is not configured) and the Stellar network, and they stop at any
await when the platform kills them. Workers and queue consumers drain two
outbox tables.

| Component | State | Operations | Hard part | What makes it correct |
|---|---|---|---|---|
| **Soroban Intent** (`routes/intent.ts`, `server/sorobanIntent*Service.ts`, `db/postgresSorobanIntentStore.ts`) | the Intent row with its AuthorizationPlan and plan history; contributions; executor binding; preparations; observations; cancellation | read, contribute AUTH, refresh the plan, prepare and refresh a package, cancel, reconcile | handlers read a snapshot, talk to the RPC for seconds, read again and write; every store operation re-checks part of what was read | AUTH is counted only for the plan it signs; facts name their plan; one executor; closed is closed; success beats cancellation |
| **Intent creation and planning** (`server/sorobanIntentPlanningService.ts`, `contractIntentService.ts`, `agentSorobanIntentService.ts`) | idempotency claims, private blobs | create once per key, plan by simulation | blob written before the database row; concurrent creations | one Intent per key |
| **Integration outbox and webhooks** (`db/postgresIntegrationOutbox*.ts`, `server/integrationWebhook*.ts`, workers) | outbox rows with lease and attempt count; delivery records | enqueue with the fact, claim, deliver, record, release or close, redeliver, sweep | expired leases of slow dispatchers, lost wake-ups, late or lost answers, errors after the POST | no event lost; one owner per attempt; bounded retries; truthful history |
| **Integration Jobs** (`server/integrationSorobanIntentService.ts`, `integrationSorobanJobProjection.ts`) | none of their own | bind executor; project Intent rows | decides from a binding read earlier | one executor |
| **Classic signing requests** (`routes/request.ts`, `server/requestService.ts`, `db/postgresSigningRequestStore.ts`) | request row, XDR contributions, submission | create, contribute, merge, submit, reconcile | contributions validated against a set that grows meanwhile; unknown outcome of a submission | merged envelope is submittable; a confirmed transaction is recorded once |
| **Managed channels** (`server/classicManagedChannelService.ts` and stores) | lease rows with expiry, one per channel and one per request | reserve, build a payment on the channel, store, submit, release, grow the pool | lease reuse by calls with one key, takeover after expiry, clean-up after failures | a channel's sequence number has one user at a time |
| **Channel creator and its monitor** (`server/classicManagedChannelCreator*.ts`, `db/postgresClassicManagedChannelCreatorMonitorStore.ts`) | the creator account on the ledger; one monitor row per network | create a missing channel account, observe the balance, claim, send and give back an alert | overlapping observations of snapshots of different age; sequence races; unknown outcomes; lost claims | each change of state announced once |
| **Human notifications** (`db/postgresHumanNotificationOutbox.ts`, `server/humanNotificationDispatcher.ts`, `resendHumanNotificationWebhook.ts`) | outbox rows, deliveries, provider events, preferences | enqueue, claim, send mail, record, apply provider events | provider events before the row knows the provider's id, or out of order | delivery state never goes back |
| **Browser capabilities** (`server/sorobanBrowserAuthorizationService.ts`) | capability rows | issue, exchange, use, expire | issued for one plan revision, used after a refresh | a capability serves one plan and one signer |
| **Assignments, activity, inbox** | first-write-wins rows | assign, project | projections over several tables | projections agree with the facts |
| **Blob stores** (`server/blob*Store.ts`) | one object per record | the same interfaces without locks | whole objects are read and written back; last writer wins | what a caller was told stays stored, without overlaps |
| **Backfill and write freeze** (`db/postgresBackfill*.ts`, `server/coordinationWriteFreeze.ts`, `coordinationStores.ts`) | copied rows, freeze flag, storage mode | copy, freeze, copy and verify, switch | writes between and during the passes; calls let in before the freeze | nothing lost by the switch; a pass fails for a reason only |
| **Agent access** (`server/agentCredentialService.ts`, `agentRequestService.ts`, `agentSorobanIntentService.ts`, `blobAgentCredentialStore.ts`) | credential records, idempotency claims, in an object store without transactions | issue, revoke, create a Request or an Intent once per key | claims given back while another call has adopted them; count and put are two calls | one resource per key; a limit on active credentials |
| **Authentication** (`server/authService.ts`, `blobAuthStore.ts`, `routes/auth.ts`) | the service's signing key, redeemed challenges | draw the key once, issue a challenge, exchange it for a token, verify the token | cold starts that draw a key at once; a challenge presented twice, in two forms; a claim whose answer is lost | what was signed is accepted in its time; one token per challenge |
| **Integration administration** (`server/integrationAdminService.ts`, `blobIntegrationCredentialStore.ts`) | one record per Integration Service, and the configured one | create, update, enable, disable, rotate key or webhook secret | every call reads the whole record and puts a whole record back | the operator's last choice stands |
| **Treasury boxes** (`server/boxService.ts`, `blobBoxStore.ts`) | shared name, Audit credentials, history | rename, create and revoke an Audit credential | two puts per change, without a transaction | the history says what is |
| **Rate limits, other user data** | single-record user data | CRUD | single writes | mostly I/O |
| **stellar-core** (`packages/stellar-core`) | none | authorization requirements, signature attribution and merge, effects, ABI | thresholds, weights | pure functions |
| **Web applications, gateway, docs sites** | UI only | | | not coordination |

How they interact: a handler of the Intent API calls the authorization, replan,
execution, cancellation or reconciliation service, which calls the store; the
store writes the fact and, for an Integration-owned Intent, its outbox row in
one transaction. After the commit the handler sends a best-effort wake-up (queue
message); a dispatcher, started by the wake-up or by a periodic sweep, leases the
row, rebuilds the projection of the Intent and posts it to the Integration. The
executor is an external party: it asks for a package, signs it, submits it to
the network, and reports the hash, which reconciliation compares with the
ledger. A classic Request goes the same way without a plan: its transaction is
frozen when it is created (for an Integration on a managed channel, whose
account the creator may first have to open), signers upload envelopes signed
with it, and it is submitted by a person, by a program, or by the service itself
as soon as a contribution completes an Integration's Request. A signer may ask
others by e-mail, through the second outbox.

## 2. Modules

| Module | Content |
|---|---|
| `SorobanIntent` | one Intent after its creation, all request handlers on it, its outbox rows, and as much of the network as it needs |
| `IntentLifecycle` | the abstract promise: an append-only record of plans and facts, closed at most once |
| `SorobanIntentProofs` | inductive invariants, 15 theorems |
| `IntegrationWebhook` | the outbox rows of one resource, dispatchers, wire, endpoint, delivery history, redelivery |
| `IntegrationWebhookProofs` | inductive invariant, 6 theorems |
| `ManagedChannel` | channel leases, calls that create managed Classic Requests, submission and release |
| `ChannelCreator` | creation of missing channel accounts, and the monitor of the creator's balance |
| `ManagedChannelProofs` | inductive invariants of both, 6 theorems |
| `SigningRequest` | one classic Request: contributions, snapshots, declines, submission, reconciliation, over a ledger |
| `CoreAuthorization` | the order-sensitive signature check of Stellar Core, and the merge of envelopes |
| `TransactionPreconditions` | the precondition evaluator, and the ledger's rule it predicts |
| `SigningRequestProofs` | 3 theorems about the evaluator; inductive invariant, 4 theorems; replays and merges, 3 theorems |
| `HumanNotification` | asks, reminders and their e-mails: outbox, dispatchers, provider, provider's webhook |
| `NotificationLifecycle` | the abstract promise: what is shown of an e-mail |
| `HumanNotificationProofs` | inductive invariants, 5 theorems |
| `AgentAccess`, `BrowserAuthorization` | agent credentials and idempotency claims; browser capabilities of one Intent |
| `MachineAccessProofs` | inductive invariants of both, 7 theorems |
| `WalletUnlock`, `IntegrationAdmin`, `TreasuryBox` | unlocking a wallet's workspace; the record of one Integration Service; a Treasury's shared settings and their history |
| `AccessRecordsProofs` | inductive invariants of the three, 7 theorems |
| `MCSorobanIntent`, `MCStorageMigration`, `MCIntegrationWebhook`, `MCManagedChannel`, `MCSigningRequest`, `MCHumanNotification` | model values, small definitions and symmetry for TLC |
| `MCChannelPool` | `MCManagedChannel` and `ChannelCreator` side by side |
| `MCAccess` | `AgentAccess`, `BrowserAuthorization`, `WalletUnlock`, `IntegrationAdmin` and `TreasuryBox` side by side |
| `StorageMigration` | one Intent in blob objects, the calls on it, and its move to PostgreSQL: backfill passes, write freeze, switch |
| `StorageMigrationProofs` | inductive invariants, 4 theorems |
| `MCIntentRace` | two instances of `SorobanIntent` side by side |
| `MCIntentStores` | `SorobanIntent` and `StorageMigration` side by side |

Modules are composed where the code shares state between parts: `SorobanIntent`
holds the outbox rows that its facts write, `SigningRequest` evaluates what it
reads with `CoreAuthorization` and `TransactionPreconditions`, and two modules
are shown to implement a lifecycle. The side-by-side modules compose parts that
share nothing (of a call that provisions a channel the leases see only
that the account is there or not), so a behaviour is about one of them; this
keeps the number of states the sum and not the product.

Definitions introduced by a comment "Fault:" are plausible mistakes in the
definition that follows them. Nothing uses them in the specification; each is
substituted for its neighbour to see that a property notices.

### SorobanIntent

State. `chain` is the plan history followed by the current plan, so the revision
is its length, as the store derives it (`currentRevision`). The row sets
`contributions`, `preparations`, `observations`, `cancellation`, `binding` and
`outbox` are the tables. `ledger`, `effects`, `active`, `sequence`, `landed` are
the network: the latest ledger, what a simulation of the call would do now, the
accounts' signers, the executors' sequence numbers and the transactions on the
ledger. For each handler, `pc` says at which await it is, `seen` is the Intent
row it read last, `auth` the authorization snapshot it carries, `pending` the
fact it is about to write. `acked` and `released` record what callers were told.

Steps. A store operation inside `withPostgresTransaction` that takes the parent
row `FOR UPDATE` is one step: `PutContribution`, `UpdateIntent`, `BindExecutor`,
`PutExecutionPreparation`, `CancelIntent`, `PutExecutionObservation`. A plain
read or an RPC call is one step too. A handler is the chain of its awaits:

* contribute: `StartContribute` (access check reads the row), `ContributeSnapshot`
  (contributions are read, the snapshot computed and the AUTH verified),
  `ContributeRecheck` (second read of the row), `PutContribution`,
  `ContributeAfter` (third read decides the answer);
* replan: `StartReplan`, `ReplanSnapshot`, `ReplanRead`, `ReplanPlan` (simulation
  draws a fresh plan), `ReplanRecheck`, `UpdateIntent`, `ReplanAfter`;
* prepare: `StartPrepare`, `PrepareSnapshot`, `BindExecutor`, `PrepareRead`,
  `PrepareSimulate`, `PrepareRecheck`, `PutExecutionPreparation`,
  `ReleasePackage`;
* cancel: `StartCancel`, `CancelIntent`; reconcile: `StartReconcile`,
  `ReconcileLoad`, `PutExecutionObservation`;
* `Abandon`: the handler stops or the database refuses it, at any await.

`CloseLedger`, `ChangeEffects`, `RemoveSigner`, `Submit` are the network's.

Abstractions, and why they lose nothing the properties speak of. A plan stands
for its digest: planning draws new nonces, so two plannings never agree.
`contributionBelongsToCurrentPlan` compares digest and revision; the plan alone
decides both. Signer weights against the threshold become the family `Quorums`
of sufficient signer sets. A transaction is the plan whose AUTH it carries, its
source and its sequence number; preparations that differ in time bounds only are
one. `StartCancel`, `StartReconcile` and `PrepareSimulate` merge adjacent reads:
the cancellation re-checks under the row lock, a ledger result never changes,
and the simulation is followed by a fresh check. Numeric effects review,
contract-account adapters, signer discovery and private data are left out.

### IntegrationWebhook

State. `row[e]` is the outbox row of the resource's `e`-th change; `history` is
`integration_webhook_deliveries`, keyed by event and attempt like its unique
index, and holds the outcome or "started". `job[d]` is what a call of
`dispatchIntegrationWebhookEvent` remembers. `wire` holds requests on their way,
`received` what the endpoint accepted.

Time is what the queries compare: `due` is `available_at <= now`, `overdue` is
`lease_until <= now`. A lease token is a random UUID taken together with the next
attempt number, and that number never falls, so the number stands for the token.
A projection is its position: the number of changes committed when it was built.

Steps: `Claim`; `LoadCredential` (unreadable: retry; absent or disabled: close
without a record; usable: go on); `StartDelivery`; `BuildAndPost` (signing has no
await, building and posting share a step; a build or signing failure ends the
attempt); `Answer` or `GiveUp` (time-out, broken connection: the request may
arrive all the same, `ArriveLate`, or never); `RecordDelivery`; `Settle` (close
or release, without effect when the lease is lost). `DatabaseError` is the catch
block around the POST and the two database calls that follow it; the failed
statement may have committed. `Stop` ends a call anywhere, by the process or by
an uncaught error. `Redeliver` is the operator's; its check that the webhook is
enabled is made before the update and may be stale then, so it is no guard.
`SetEnabled` is the switch that dispatchers read.

Wake-ups are best effort in the code, and so a claim may be tried for any
claimable row at any time. `RetryBudget` is the length of `RETRY_SECONDS` (7).
The last answer of a running call that outlives its 120 s lease needs timeouts
longer than configured, so this counts as a fault (`MaxFaults`).

### ManagedChannel

State. `lease[c]` is the row of channel `c`, `stored[r]` the durable Request
with its submission, `sequence` and `onLedger` are the network, `clock` is the
time that processes and database share. `job[j]` is what a call of
`createIntegrationPaymentSigningRequest` remembers; `starts[r]` counts the calls
made with the key of Request `r`, and `unread` are the stored Requests that a catch
block took for missing.

Steps of a call: `Begin` (no durable Request; the instant that counts for the
lease is taken), `ListLeases` (how far the pool reaches), `FindLease` (an existing
lease is used as it is), `Claim` (one upsert per candidate, until one succeeds,
the candidates end or the UNIQUE constraint rejects it), `LoadAccount` or
`LoadFails`, `Build`, `Write` (insert, or replay of another call's Request; the
read that follows may fail). After a failure inside the try block
(`CreationFails`), `ReadDurable` and `Drop` are the catch block. `Stop` ends a call
anywhere, so a release that fails is a `Stop` before it. `Submit`,
`PersistSubmission` and `ReleaseLease` follow once the signers have signed. Steps
that only decide in memory are part of the await before them.

The Request's payload is not modelled: calls with one key carry the same payment
(a different one is refused as a conflict and changes nothing). A channel
account that is missing is created by `ChannelCreator`'s calls; here that is a
load that takes longer or fails.

### ChannelCreator

State. `balance`, `nextSequence`, `existing` are the creator and the channel
accounts on the ledger, `pending` the submitted transactions whose outcome
nobody was told; `row` is the monitor's row; `call[c]` is what a call of
`provisionManagedChannelWithCreator` remembers. An episode is the time the row
keeps one state; `told` counts the alerts that arrived per episode, `excused`
and `lost` name the episodes of which an alert may be repeated or missing.

Steps: `Start`, `CheckAccount`, `LoadCreator`, then the monitor's `ReadMonitor`
(or `ReadMonitorFails`: the state before counts as unknown), `Observe` (the
upsert under the row lock), `ClaimAlert`, `SendAlert` or `SendAlertFails` and
`ReleaseAlert`, then `SubmitCreation` or `SubmitUnanswered`, `Verify`, and the
monitor again. `MonitorFails` is a database error that the monitor logs,
`ProvisionStops` ends a call anywhere; `Land`, `Lapse`, `Deposit` are the ledger's and the operators'.

Abstractions. Balances are small numbers against the thresholds `Cost`, `Low`,
`Recovery`; the ledger's base fee and the creator's reserve are left out. A
call's instant is taken when it starts, as in the code, and two calls may share
it: `releaseAlertClaim` compares the state and that instant.

### SigningRequest, CoreAuthorization, TransactionPreconditions

State. `request` is the row `createSigningRequest` wrote (the creator's
signatures, the transaction's preconditions, the expiry), `received` the
contributions by the envelope they upload, with the instant `receivedAt` at which
their call started; `declined` and `submission` are rows too. `policy`,
`account`, `ledger`, `result` are the network. `job[c]` is what a call has read.

Steps. A call is a handler of `routes/request.ts`, a step what it does between
two awaits. Nothing is locked: the store only adds rows.

* contribute: `StartContribute` (the instant is taken, the access check reads),
  `List` (submission and contributions; an envelope that adds nothing is
  answered with a snapshot), `Validate` (the merged envelope against the policy
  of the moment), `Put`, then a snapshot as in a read;
* snapshot: `Facts`, `ReadPolicy` (signers and sequence of the account),
  `ReadLedger`; statuses that give the transaction up are checked by `Lookup`
  when a Request is read, contributed to or declined, and a transaction found on
  the ledger is recorded (`persistConfirmedSubmission`);
* submit: `Facts`, `Preflight` (the same lookup, but before the snapshot), the
  snapshot, `Post`, `Wait`, `Recheck` after an unknown outcome or `tx_bad_seq`;
* decline: the snapshot, then `RecordDecline`;
* `Return`: the answer goes out, or, for an Integration's Request that became
  ready, the automatic submission begins; `Stop` ends a call at every await.

`CloseLedger` closes a ledger with or without another transaction of the source
account before ours, and with ours if it is accepted: signers hold the envelope
and can broadcast it themselves. `ChangePolicy` changes signers and thresholds.

Abstractions. A signature is its key (ed25519 is deterministic, so that a key
signs one transaction one way), an envelope the sequence of its signatures. What
depends on order stays: contributions are replayed by `receivedAt`, and Core's
check stops at the weight it needs, so that later signatures are superfluous.
Weights are capped at 255, thresholds compared after a match only.
`TransactionPreconditions` keeps sequence, relaxed sequence, time, ledger, age
and gap bounds as numbers. The Soroban effects of a transaction, fee bumps,
hash and pre-auth signers, the agents' rule to add their own signature only, and
what is shown of participants are left out.

### HumanNotification and NotificationLifecycle

State. `assigned` is `classic_request_assignments`, `signed` and `open` the
Request as far as the snapshot tells, `row` the outbox, `history` the delivery
records by event and attempt; `call` and `job` are the callers and dispatchers;
`wire`, `accepted`, `body`, `reports` the provider, which is external.

Steps. `StartAsk`, `StartReminder`, `Snapshot`, `putRequestAssignment` (the first
asker is kept) and `Enqueue` are a PATCH. `Claim`, `LookUp` (an earlier attempt
that succeeded completes the row), `StartDelivery`, `SendEmail`, `Answer` or
`GiveUp`, `RecordDelivery`, `Settle` are a dispatcher, `DatabaseError` the catch
block around the last four, `Stop` its end. `Notify` is the provider's webhook:
it is answered 503 until the row is sent, and keeps the newest event by the
provider's instant, the first of equal ones. `Rename` changes the template's
name, which is in the subject, between two attempts: the provider then finds the
key used with another body.

The provider takes an e-mail once per key, refuses a key in use or with another
body, reports at least once and in any order. Time and lease tokens are
abstracted as in `IntegrationWebhook`. `NotificationLifecycle` is what the asker
is promised: queued, then accepted or failed, then what the provider reports; no
state claims what the provider has not done, and none starts over.

### AgentAccess

State. `credential` and `claim` are objects of a private store without
transactions; `created` are the Requests and Intents in the database; `job[c]` is
what a call remembers; `drawn` numbers the identifiers. `storageMode` is the
object store the deployment runs with, and `replaced` says that a put of a claim
replaced another call's.

Steps. `CountCredentials`, `PutCredential`, `StartRevoke`, `Revoke`.
`StartCreate`, `ClaimIdempotency` (read the claim, adopt it or go on),
`PutClaim` (put with `allowOverwrite: false`: Vercel Blob refuses it where a claim
is, the filesystem store puts it over the other), `PutClaimFails` (any other
failure, after which the claim may be there), `Reread` (after a put that failed:
adopt what is there), `Replay`
(answer with the stored resource), `Check` and `CheckFails` (what an owner does
before its write), `Write` and `WriteFails` (the outcome may be unknown),
`Recover` (a failed write is looked up), `After`, `Answer`, and the release in
two steps, `ReadClaim` and `DeleteClaim`. `createAgentSorobanIntent` repeats
`createAgentSigningRequest` step by step, so that one set of actions stands for
both. Keys are independent; one key per credential is modelled.

### BrowserAuthorization

State. `plan`, `cancelled`, `active`, `contributions` are as much of an Intent as
a capability can see, `capability` is the table, `handler[c]` what a call
remembers of its three reads.

Steps. `StartIssue`, `StartUse`, `ReadAuthorization`, `Issue`, `Authenticate`,
`Contribute`, `Return`; around them `Sign` (another way to contribute), `Replan`,
`Cancel`, `RemoveSigner`, `Tick`. The secret's hash is equality; identifier and
secret may contain the separator at which the presented string is split
(`capabilityParts`, last remark of section 3).

### WalletUnlock

State. `serverKey` is `auth/server-key.json`, `redeemed` the objects under
`auth/redeemed/`; `challenges` and `tokens` were issued and are kept by the
browser. `visit[v]` is what a call remembers, `exclusive` whether the object store
honours `allowOverwrite: false`.

Steps. `AskChallenge`, `AskExchange` (the challenge comes back as a signed
transaction or with its message signed), `Present` (a token). Each first gets the
service's key, as every call of `authService.ts` does: `ReadServerKey`,
`CreateServerKey`, `RereadServerKey`. Then `IssueChallenge`, or `Validate`,
`ClaimRedemption`, `IssueToken`, or `VerifyToken`. `ClaimAnswerIsLost` is a put
that is stored and not answered: the store looks again, finds the claim, and takes
it for another visit's. `Fail` ends a visit at any await. The wallet, the network
and the domains are fixed; a signature that must be the wallet's is.

The filesystem store (`privateObjectStorage.ts:87`) does not look at
`allowOverwrite`, and `deploy/testnet/docker-compose.yml:62` runs the API with it.
Both properties are about a store that does (`exclusive`), and so is what
`StorageMigration` takes of a put without overwriting. `AgentAccess` has both
stores: `OneRequestPerKey` says what holds on each.

### IntegrationAdmin

State. `service` is the stored record, `bootstrap` the one of the deployment's
configuration, which counts until the first call stores one. `call[c]` holds the
record a call has read and the one it will put. `newest`, `shut`, `retired` say
what the calls that finished chose; `crossed`, whether a put ever replaced
another record than the one it was made from.

Steps. `Begin` reads and builds the whole record (`Changed`, one case per call of
`integrationAdminService.ts`, and self-service creation on Testnet), `PutRecord`
overwrites the stored one, `Abandon` ends a call before its put. A webhook that is
removed and configured anew starts at generation 1 with another secret.

### TreasuryBox

State. `name` and `auditKey` are the objects, `history` the events, each an object
of its own, dated when its call began. `change[a]` is what a call remembers;
`parallel` and `cut` record renamings that ran at once and changes whose event was
lost.

Steps. `Rename`, `CreateAuditKey`, `RevokeAuditKey` begin a call; `ReadSettings`
ends it when there is nothing to do (or the limit of active Audit credentials is
reached), `PutSettings` and `RecordChange` are the two puts, `GiveUp` an await that
fails. A call cut between the puts leaves a change the history never tells: its
retry finds nothing to do. `HistoryTellsTheState` names this and renamings dated
the other way round as the only causes.

### StorageMigration

State. `root`, `bindFile`, `cancelFile` and `facts` are the objects
`blobSorobanIntentStore` keeps of one Integration-owned Intent: `intent.json`
(plan history and, once it was written back, the executor),
`execution-binding.json`, `cancellation.json`, and the three directories of facts.
`stage`, `held`, `writing` are the API calls: `held` is a copy of `intent.json`
that a call will write back. `frozen` and `switched` are the deployment's two
variables (`MULTISIG_COORDINATION_WRITE_FREEZE`, `MULTISIG_COORDINATION_STORAGE`),
`copy` is the Intent in PostgreSQL, `phase`, `listed`, `snapshot` what a backfill
pass has read, `passes` the verified passes since the freeze. The rest records
what happened: calls answered with a plan or a package, calls in flight as the
freeze began (`early`) and those of them that wrote since the last pass began
(`late`), whether two calls ever held copies of `intent.json` at once (`rivals`),
whether the blobs were changed in a way no copy can follow (`restated`).

Steps. `Admit` is the first line of every writing route,
`assertCoordinationWritesEnabled`: it is asked once per call, and never again.
Then the chains of awaits of the services, as in `SorobanIntent`, but every store
operation is the blob store's: `PutAuth`, `PutPreparation` and `PutObservation`
overwrite an object by name, `CancelPut` and `BindPut` write if there is none,
`BindRead` and `BindWrite` put the binding into `intent.json` too, `ReplanWrite`
overwrites that object. `BeginPass`, `ListFiles`, `CopyRoot`, `SnapshotFacts`,
`CopyFact`, `CopyCancellation`, `CopyObservation`, `Verify` are
`backfillCoordinationData` over this Intent with PostgreSQL's rules for each
insert (a conflict is ignored, a cancelled Intent skips contributions and
preparations, a success refuses a cancellation), `Mismatch` the error it throws,
`Interrupt` its end anywhere. `Freeze`, `Unfreeze`, `Switch` are the operator's,
in the order of `postgres-cutover-runbook.md`: passes at any time, a freeze, a
pass and its repetition under the freeze, the switch; after a failure the freeze
is lifted or another pass is tried.

Abstractions. A caller reads the Intent in one step: whoever stops at a
cancellation cannot tell its three reads apart, and the binding is written once.
The backfill, which copies what it read, reads in two. A plan, a transaction and
an instant are the call that made them, and each call is made once. One signature
reaches the threshold, and plans may expire at any time: quorums, ledgers and
effects are `SorobanIntent`'s subject. Calls after the switch are its subject too.
Of a pass only this Intent is modelled: the others are independent, and a mismatch
of any of them ends the pass like `Interrupt`.

## 3. What the runs show

The passing runs visit every reachable state of the instance. Deadlock is
checked in `IntentRace`, `IntentStores` and `WebhookDelivery`, where only the
move to PostgreSQL may end, with the switch; the other models end on purpose (a
clock, identifiers, calls or arrivals run out, a Request closes). The types of
all modules, and the knowledge of the Intent's handlers (`HandlersConsistent`,
`PlansConsistent`), are proved (section 5); only those of `StorageMigration` are
checked by a run too.

| Run | Instance | Question |
|---|---|---|
| `IntentRace` | 2 handlers that both may refresh and contribute, one signer who may be removed, effects that move, up to 4 plans; beside it 2 handlers that prepare with 2 of 3 signers, 2 plans; 4.1 M states | revisions are contiguous, however refreshes overlap; a prepared package carries a quorum for its own plan |
| `IntentStores` | in PostgreSQL an Integration-owned Intent, 2 handlers, 2 executors, all operations, 2 plans, one signer who may be removed (2.9 M states); beside it an Intent in blobs, 2 calls of any kind, any number of passes (2.5 M states) | answers are durable, one executor, outbox = facts, observations are true, the store implements `IntentLifecycle` (append-only history, closed is closed, success beats cancellation); the switch leaves nothing behind but what calls from before the freeze still write; a pass fails for a named cause only; a plan a caller was told stays, unless two calls held copies of the object |
| `WebhookDelivery` | 2 dispatchers, 1 event, 1 retry, 2 faults, 1 redelivery | one owner per attempt; delivered means accepted; closed rows have evidence; attempts are bounded; every event is closed in the end |
| `ChannelLease` | 2 calls at a time, 2 Requests with 2 calls each, 1 to 2 channels, 1 unreadable Request, 3 instants; beside it 2 provisioning calls, 3 in all, one account, 2 mishaps, 1 deposit; 5.1 M states | active Requests collide only after a retry, a failed durability read or a late build; a single call's Request keeps its lease until the grace is over, unless it could not be read; unexpired leases end in turn; alerts are neither repeated nor forgotten without a named cause |
| `SigningRequest` | 2 calls of any kind, 2 signers with an envelope each, of which one suffices; a transaction valid until time 2; one change of policy, one POST | a Request is blocked for good only by overlapping contributions; recorded means confirmed; a verdict given after a lookup is final; a read sees the ledger; approvals end declines |
| `HumanNotification` | 1 caller, 2 askers, 1 recipient, 2 dispatchers, 2 retries, 2 reports, 1 fault | the newest report is shown; a failure shown of an accepted e-mail has a cause; mail asks who is missing; what is shown implements `NotificationLifecycle`; every e-mail is sent or given up |
| `Access` | five parts side by side: 2 object stores, 2 agent calls, 2 credentials (limit 1), 2 payloads, 3 identifiers, 1 failing owner; 1 browser call at a time, 1 capability, 2 signers, 2 plans; 2 visits, 2 key pairs, 1 challenge, 2 tokens; 2 calls on one Integration record, 3 keys; 2 on one Treasury, 5 changes, 2 names, 2 Audit credentials; 2.6 M states | one resource per key while no owner fails before its write and, on the filesystem store, no put replaces another's claim; answers name what was created; the limit is exceeded by overlaps only; contributions keep their plan and signer; refusals have a lasting cause; a challenge becomes one token; what was signed is accepted in its time; an operator's choices stand; the history tells the state |
| `IntentReplanOverwrite`, `ChannelCollision`, `SigningStaleSubmit`, `IdempotencyRelease`, `PrefillMismatch` | as small as shows it | statements of the documentation that the code does not keep |

Why these bounds suffice. Every race in the handlers is between one handler's
read and another one's write, so two handlers reach all pairs; a third adds
queues of the same pairs. Two plans give "old and new", three a skipped
revision, four let both refreshes finish twice. One ledger step past the
validity window separates valid from expired. Two of three signers are a
quorum that the halves of two plans, or of two quorums, could seem to fill. In
the blobs every loss takes one object and two writers, and a call may work on before, during and after each
phase of the move, so that two calls and an unbounded number of passes meet in
every order; one signer, since contributions are independent objects. For the
webhooks, two
dispatchers are the slow one and its successor; the second fault meets the
attempt that cleans up after the first. For the channels, a second call per
Request is the retry, a second Request the one that takes the channel over. With
`Lifetime = Grace = 1` the 3 instants are a call, the last moment of its grace, and
the end of its lease, at which a build is late and another call claims the channel;
one Request that cannot be read is the one that collides. For the creator, two deposits or two calls are enough
to change the state and change it back while a third call still holds an old
snapshot. For the classic Request, two envelopes are the pair that is valid
alone and superfluous together, `MaxClock = 2` is a ledger in which the
transaction can be applied and one in which it no longer can, one POST that
goes unanswered leaves the lookups to find it. For the e-mails, two
dispatchers and two reports are again the smallest number that can overtake one
another. For the agents, two calls race for one claim and a third identifier
shows what a release leads to; for the browser, a second call would
only repeat `Sign` and `Replan`, which move at every await of the first. Two
visits draw two keys and present one challenge twice, which is all there is to
overlap; on a record, the second call is the one that overwrites. The
proofs remove the bounds for safety, except for the properties named at the end
of section 5.

The grace. A lease is counted from the start of the call, the transaction's
lifetime from its build, and 60 s of grace (`Grace`) lie between. Nothing in the
code limits the time between the two, and neither does the model: `BuiltLate` names
a Request whose transaction outlives its lease. The catch block counts a read that
fails as "not durable" (`ReadDurable`); `unread` remembers the Requests that it took
for missing. The two and a second call for the Request are what
`CollisionsHaveACause` names. `ActiveRequestKeepsItsLease` says that nothing else
that fails, stops or waits in a single call takes the lease before its end.

`SerialReplans`. `updateIntent` accepts a write with an equal revision and then
replaces the current plan (first finding below). After that a stored fact may
name a plan no revision has. The properties that speak of the plan history
(`PlansConsistent`, `FactsNameTheirPlan`, `HistoryIsAppendOnly`,
`OutboxMatchesFacts`, `ImplementsLifecycle`) are therefore stated for refreshes
that do not overlap: one handler at a time may be a Replanner, all other
operations overlap with it freely. Everything else is checked and proved without
that restriction.

### Disagreements found

Each of these runs checks one sentence of the documentation and ends in a
counterexample.

* `IntentReplanOverwrite`: two overlapping refreshes of revision 1 both write
  revision 2. The digest check only applies when the revision grows, so the second
  replaces the first one's plan; an outbox row is inserted for a larger revision
  only (319), so no event reports the change (`db/postgresSorobanIntentStore.ts:274`).
* `ChannelCollision`: a lease belongs to a Request, not to a call. Of two calls with
  one key, the first fails and deletes the lease both use; another Request leases
  the channel and builds on the same sequence number; then the second call stores
  its Request. Two active Requests share a channel, and one can never be submitted
  (`server/classicManagedChannelService.ts:459`). A retry that reuses an old lease
  without renewing it (line 365) ends in the same state once the lease expires.
  `CollisionsHaveACause` shows that besides a second call only a failed durability read
  and a late build lead there (first remarks below).
* `SigningStaleSubmit`: `submitSigningRequest` asks the ledger for the
  transaction before it builds the snapshot. A ledger that closes in between with
  this transaction makes the snapshot stale, and the caller is told to "create a
  fresh transaction" for one that succeeded (`server/requestService.ts:1132`,
  `1159`, text at `611`). A read asks in the other order, and `VerdictsAreFinal`
  shows that its verdicts are final.
* `IdempotencyRelease`: the call that took a claim fails before its write and
  gives the claim back, although another call with the same key has adopted it
  and goes on to create the Request. The next retry draws a new identifier and
  creates a second one (`server/agentRequestService.ts:264`; `agent-api-v1.md:127`
  promises exactly one). The run is about Vercel Blob, where `OneRequestPerKey` shows
  that nothing else leads there.
* `PrefillMismatch`: the runbook asks for a repeatable pass while writes go on,
  which "only shortens" the final one. A pass compares the root of an Intent it
  copied earlier and has no update for it (`db/postgresBackfill.ts:300`): once the
  Intent is refreshed, or its executor bound, between two passes, every later
  pass throws, under the freeze as well, and the switch must not be made until
  somebody deletes the copied rows. `FailedPassesHaveACause` names all the
  changes a copy cannot follow and shows that there is no other one.

Seen while modelling and not checked by a run of its own. The first three are in the
models and named as causes by properties of passing runs; a property that leaves one of
them out fails.

* The catch block of a managed creation asks whether the Request is durable, and takes
  a read that fails for a no (`server/integrationRequestService.ts:392`). A single call
  that stored its Request and failed afterwards, for example when reading it back,
  deletes the lease of an active Request, and another Request may take its channel,
  although only "failed pre-durable creation paths" are to release a lease
  (`operations/production-readiness.md:129`). `unread` in `CollisionsHaveACause` and
  `ActiveRequestKeepsItsLease`.
* A lease is counted from the call, its transaction from the build, and the awaits
  between the two have no limit (`server/integrationRequestService.ts:348`). Once they
  take longer than the grace, the lease ends first and another Request takes the channel
  over before "Request expiry" (`architecture/integration-product-model.md:416`).
  `BuiltLate` in `CollisionsHaveACause`.
* The filesystem store is not given `allowOverwrite: false`
  (`server/privateObjectStorage.ts:143`). Of two calls with one Idempotency-Key that both
  find no claim each puts one, the later over the earlier, both are told that the claim
  is theirs, and each creates a Request; nothing fails, and `agent-api-v1.md:127`
  promises exactly one. `deploy/testnet` runs with this store
  (`docker-compose.yml:62`). `replaced` in `OneRequestPerKey`, which shows that there
  only this and the release of `IdempotencyRelease` lead to a second Request.
* In the blob store, binding an executor writes back the whole `intent.json` it
  has just read (`server/blobSorobanIntentStore.ts:185`), and a refresh writes
  back the one it began with: of two such calls that overlap the later one undoes
  the other, after the caller was told its new revision or executor.
  `AnsweredPlansAreKept` excludes these overlaps (`rivals`).
* A call that was let in before the freeze goes on writing to the blobs during
  the final passes and after the switch (`server/coordinationWriteFreeze.ts:14`);
  the runbook has no step that waits for it. `CutoverKeepsFacts` shows that
  nothing else is lost.

* The refresh service judges a freshly read row by the snapshot of the access
  check, and so may supersede a valid plan that still collects signatures
  (`routes/intent.ts:733`); preparation does the same and may release a package
  of the superseded plan under the fresh plan's revision (`routes/intent.ts:796`).
* An error after a recorded 2xx rewrites the webhook's delivery record to "retry"
  and sends the event again (`server/integrationWebhookDispatcher.ts:230`);
  `DeliveredMeansAccepted` holds all the same, its converse does not.
* Deliveries of one resource are not ordered, and an older projection can be
  accepted after a newer one (`server/integrationWebhookDispatcher.ts:111`).
* An event closed by a skip after an earlier retry, or by a close that committed
  although it reported an error, is listed as "retrying" by the console, which
  then offers no redelivery (`apps/stellar-web/src/IntegrationAdminApp.tsx:538`).
* The monitor gives the claim of a `creator.balance_recovered` alert back when
  sending fails, but no later observation claims it again: `ready` after `ready`
  is no event (`server/classicManagedChannelCreatorMonitor.ts`;
  `production-readiness.md:138`).
* A capability's identifier is drawn from base64url, whose alphabet contains the
  `_` at which the presented string is split
  (`server/sorobanBrowserAuthorizationService.ts:181`): about one in six
  capabilities can never be used. `RefusalsHaveACause` names it as a cause.

## 4. Fairness

`SorobanIntent` assumes none and states no liveness: nobody is obliged to sign,
to refresh or to submit, and a handler may stop at every step.

`IntegrationWebhook!Fairness` assumes that time passes (`BecomesDue`, and
`LeaseRunsOut` for a lease no running call holds), that the sweep keeps finding
claimable rows (the worker looks every 5 s for up to 100 due rows in order of
`available_at`, the Vercel deployment sweeps by cron and re-sends queue messages
after 180 s), and that a running call gets an answer to each await (the POST
resolves on the response's headers and its socket has a timeout; a query answers
or fails with its connection; a call that the platform ends is a `Stop`). All of
it is weak fairness. Stops and
database errors are not fair and are limited to `MaxFaults`: with infinitely many
of them nothing can be promised. Nothing is assumed of the endpoint, of the
switch, or of which way `LoadCredential` or `BuildAndPost` go.

`HumanNotification!Fairness` is the same for its outbox: the worker sweeps every
5 s up to 100 due rows, a retry's delay and the lease of a dispatcher that is gone
run out, and a running dispatcher gets an answer to each await (the request to
the provider has a timeout of its own). Stops, timeouts, database errors,
outlived leases and renames are `MaxFaults` faults. Nothing is assumed of the
provider: it may refuse or fail to the end, since attempts run out.

`SigningRequest`, `AgentAccess`, `BrowserAuthorization`, `WalletUnlock`,
`IntegrationAdmin`, `TreasuryBox`, `ChannelCreator` and `ManagedChannel` assume none: nobody is obliged to sign, to retry, or to pay. Nor
does `StorageMigration`: an operator may stop at any point of the procedure.

## 5. What is proved

`SorobanIntentProofs` (for any handlers, signers, entries, quorums, executors
and bounds). The invariants of the rows are not inductive: what a handler is
about to write was checked several steps ago. `HandlersConsistent` states for
each label what a handler still knows: the binding it saw is the binding, a
ready snapshot is authorized, the package it will store uses the bound executor
or meets a cancelled Intent, and so on. Rows only grow (`StoreGrows`), hence no
step of one handler falsifies another's knowledge
(`OthersKeepTheirKnowledge`); each handler's own step is one lemma per
operation. `Inv` joins types, this knowledge and four row invariants, and gives
`TypeCorrectness`, `Knowledge`, `AnswersStayDurable`, `PackagesAreAuthorized`,
`PackagesShareTheExecutor` and `ObservationsStayTrue`; from it follow the action
properties `CancelledStaysClosed`, `SuccessStands` and
`RevisionsStayContiguous`. A second invariant, under `SerialReplans`, adds that
every remembered history is a prefix of the stored one (`PlanConsistent`), and
gives `PlanKnowledge`, `FactsAreAboutTheirPlan`, `HistoryOnlyGrows`,
`OutboxReportsFacts` and the refinement `StoreImplementsLifecycle`.

`IntegrationWebhookProofs` (for any dispatchers, retry budget and bounds).
`IInv` says of a row that a lease carries its attempt number (`RowSound`); of a
running call how far its delivery record must be, and that a row closed under
its attempt already has the outcome on record (`JobSound`, `RecordSound`); of
the history that no record is ahead of its row (`HistorySound`); and of an open
row that is claimable or whose owner is gone that budget, faults and
redeliveries leave one attempt more (`BudgetSound`). `ClaimsAreExclusive` is
used by the others: a record has one author, so what a call wrote is still
there when it closes the row. One lemma per action preserves `IInv`; the
theorems are `WebhookInvariance`, `WebhookTypes`, `ClaimsStayExclusive`,
`DeliveredWasAccepted`, `ClosedRowsHaveEvidence` and `RetriesStayBounded`.

`ManagedChannelProofs` (for any calls, Requests, pool and bounds). That an active
Request of a single call keeps its lease is not inductive: the lease is taken
long before the Request is stored, and several calls may delete it. `IInv` adds
that a Request that left any trace was begun, and one begun once has one call
(`CallsCounted`); and that the one call for a Request finds nothing but what it
left there, from an empty pool entry to its own lease with its own expiry, and
gives up the lease of a stored Request only if it could not read it
(`SoleCallsKeep`). Every step leaves all Requests but its own `Undisturbed`: their
rows stay, and a lease of theirs is only overwritten once it has expired. One
lemma per action preserves `IInv`. A Request whose lease is in place keeps others off
its channel until the grace is over, and a transaction that was not built late has
expired by then; hence the three causes. Theorems: `ChannelTypes`,
`ChannelInvariance`, `SingleCallsKeepTheirLease`, `CollisionsAreCaused`,
`LeasesAreNotTaken`.

`ManagedChannelProofs`, on `ChannelCreator` (for any calls, thresholds, balances
and bounds). That an episode is announced once follows
from what its claim is: until an episode is excused, one call at most is about its
alert, the row of the current episode shows that call's instant and state, and
an announced episode is never without a claim (`EpisodesAreSettledOnce`); a claim
that shows is in the hands of the call that made it, was announced or is lost
(`ClaimsAreHeld`); and the event a call carries follows from its snapshot, the state
it read and the one it replaced (`EventsFollow`). Steps that do not touch the row
share a lemma (`ElsewhereKeeps`). Theorem: `AlertsStayAccounted`.

`SigningRequestProofs`, its first part (for any transaction, account and ledger):
`StaleIsFinal` and `ExpiredIsFinal` say that no later ledger accepts what the
evaluator gave up, `ReadyIsAccepted` that the next one accepts what it called
ready if close time and account keep within the bounds. They rest on one lemma
about the summary of the checks.

`SigningRequestProofs`, its second part (for any calls, signers, policies, envelopes,
transactions and bounds). That a verdict is final is about ledgers to come, so
`IInv` speaks of the network as well: `LedgerSound` orders account, ledger and
clock, and `Dead` says that no later ledger accepts the transaction, given account and
ledger as they are. A call that carries a verdict knows that the transaction is
dead or succeeded, one about to persist has seen it succeed (`CallSound`), and a
read that began after the success can no longer miss it (`ReadSound`). `Dead`
stays, by the theorems on the evaluator; steps of calls and of the network are
one lemma each. `TypeCorrectness`, `RecordedIsConfirmed`, `VerdictsStand` and
`ReadsReportSuccess` follow.

`SigningRequestProofs`, its third part, is about data that a recursion makes. The
prover cannot instantiate the library's induction theorems, but it can take the
least element of a set without them (`Induction`, of the well-founded order of the
naturals); the sets are those of the numbers up to which a fact holds. So it is
proved that the recursive functions are what their equations say (`AdditionsAre`,
`ReplayIs`, `WeightsAre`) and what they compute: a merge has the signatures of both
envelopes (`MergeCollects`), two replays agree as long as their contributions do
(`ReplaysAgree`), one that comes last is merged into what the others make
(`ReplayAdds`), who signed a contribution has signed every later envelope
(`ReplayCollects`), and signatures at the end leave the weights before them alone
(`WeightsStay`). `ReplayInv` then says what a call keeps (`CallKeeps`): what it read is
still stored, however much was added; the envelope it is about to put merges with
what it read and, while the policy stands, gives one that Core takes; who may
decline has signed nothing that was stored at the start. At the put, a call that
overlapped no other finds stored exactly what it read, so the envelope stored is
the one it validated. Theorems: `BlockedByOverlapOnly`, `ApprovalsAreFinal`, and of
the core library alone `AuthorizedTakesNoMore`.

`HumanNotificationProofs` (for any callers, signers, dispatchers, budget and
bounds). `Sound` holds under all faults: what is settled, recorded or being sent
is of a queued e-mail, a success is of one the provider took, the row keeps the
newest acknowledged report. It gives `TypeCorrectness`, `NewestReportIsKept`,
`MailIsForTheMissing` and, with one lemma per way a row can move, the
`Refinement` of `NotificationLifecycle`. `Undisturbed` holds until the first
fault: every dispatcher still has its lease, alone, and the provider has seen
one body; it gives `FailureHasACause`.

`MachineAccessProofs`, on `AgentAccess` (for any calls, credentials, payloads and bounds). Whoever
holds an identifier (the call that drew it, the claim, a call that adopted the
claim, the stored resource) holds it for the same credential and payload
(`Agreed`, `Drawn`); until an owner fails before its write or a put replaces a claim
(`Undisturbed`) a claim stays, so every call past its claim and everything stored has
the claim's identifier (`JobSound`, `Claimed`); on Vercel Blob no put replaces one
(`Exclusive`); `Counted` is about the limit. Theorems: `AgentTypes`,
`OnePerKey`, `AnswersAreCreated`, `LimitOverlaps`.

`MachineAccessProofs`, on `BrowserAuthorization` (for any calls, signers, capabilities and bounds).
Along a call the plans it knows are ordered: the capability's, the Intent's as it
was read, its authorization's, the current one (`Ordered`); a contribution needs
the signed plan to be the current one, which closes the gap (`Authorized`,
`Kept`); and what refused a call still holds, because plans only grow,
cancellation is final and a signer who is gone cannot contribute
(`StillRefused`). Theorems: `BrowserTypes`, `ContributionsAreBound`,
`RefusalsAreDue`.

`AccessRecordsProofs` (for any calls, keys, names and bounds). For `WalletUnlock`:
where the store does not overwrite, the key a visit works with is the stored one,
and everything signed was signed with it (`VisitSound`, `SignedByServer`); of the
visits and tokens that passed the claim of one challenge there is one
(`ClaimedAlone`). It gives `UnlockTypesKept`, `ChallengesRedeemedOnce` and
`WhatIsSignedIsAccepted`. For `IntegrationAdmin`: until a put crosses another, the
record that counts agrees with what the finished calls chose (`Agrees`), which
gives `AdminTypesKept` and `AdminChoicesStand`. For `TreasuryBox`: a revocation is
dated later than the creation, and the history of a key never runs ahead of its
object (`KeySound`); as long as renamings did not overlap, the one under way is
alone and every recorded one is older (`NameSound`). It gives `TreasuryTypesKept`
and `HistoryTellsTheTreasury`.

`StorageMigrationProofs` (for any calls and any number of passes). `Types` is the
types and what a call at each label has read. `Alone`: until two calls held copies of
`intent.json` at once, the one that holds a copy holds the plans as they are stored,
and whoever was answered a refresh saw a prefix of them. `Frozen`: under the freeze
only calls let in before it are in flight; unless one of them wrote since the last
pass began, what a pass listed is what is stored, and what it took snapshots of
misses nothing that was not written late; after two passes the copy is complete in
this sense. `Sound` is about passes at any time: the executor that a call carries is
the Intent's (`Bound`), a call prepares once (`Once`), and while nothing was restated,
copy, listing and snapshots are what the blobs hold or held, and each step of a pass
left what its next ones ask for (`Agree`). Writes that do not restate are `Gentle`:
they add facts or cancel an Intent without a success, which the copy can follow.
Theorems: `MigrationTypesKept`, `RefreshedPlansStay`, `SwitchLosesNothing`,
`FailuresHaveACause`.

Assumptions: the named ASSUMEs of the modules, which only type the constants,
and `SerialReplans` where a theorem says so.

Three action properties are proved and not run, because the refinement that
`IntentStores` checks implies them: `CancelledStaysClosed`,
`HistoryOnlyGrows`, `SuccessStands`.

Every safety property that a passing run checks is proved. Model-checked only:
`EveryEventIsClosed` and `EveryNotificationIsClosed`, as liveness under fairness and
ENABLED are outside the prover; and the five disagreements.

## 6. Not modelled

The components' notes in `PROJECT.json` say what is missing of each. By reason:

* Of the blob stores, those of classic Requests, private data and user data: one
  object per record, without an object that is read and written back. The index
  under which a signer finds an Intent in blobs is left out too.
* The Classic half of a backfill pass: the same loop over Requests with more
  kinds of facts.
* Data whose content decides and no interleaving does: decoding of contract calls
  and of simulation results, comparison and review of numeric effects, contract
  accounts as signers, the merge of AUTH entries, fee-bump envelopes, hash and
  pre-auth signers, webhook payloads and signatures. The models keep their
  outcomes as choices.
* Projections: Integration Jobs, inbox, participants and activity, status pages.
  They read rows that are modelled and write nothing.
* Sequential I/O without concurrency of its own: schema migration.
* Single-record writes of one person's data: personal boxes, address book,
  templates, contract workspaces; and the verification of what a caller presents:
  the form of challenges, tokens and keys, scopes and profiles.
* Left to the platform: rate limits, HTTP and DNS policies of the transports.
* User interfaces, gateway and documentation sites.

What would come next: the Classic half of the backfill, whose Requests also have
declines and notes; the merge of AUTH entries with signers that leave the account
(a plan then blocked until it expires); and a run that joins `SorobanIntent` and
`IntegrationWebhook` through the outbox, whose product is too large for the
present instances.
