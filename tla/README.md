# Verification of audit-event-log

TLA+ models of the audit event log service, TLC configurations that check them
on small instances, and theorems about them that the TLA+ proof system checks.
Paths below are relative to the repository; `ingest.go` stands for
`internal/ingest/ingest.go`, and so on.

## The system

Services publish audit events as JSON envelopes to the Kafka topic `audit.v1`.
Every instance of the service runs one consumer goroutine of a consumer group
that takes each message through a pipeline: decode and validate, check the
payload hash, redact the payload, read the head of the hash chain, write the
payload to S3, insert a row into the index. A ticker in every instance signs
the head and marks rows as anchored; HTTP handlers list, verify and export
events, toggle legal holds and reload the redaction policy. Instances share
the index (Postgres), the payload bucket and the topic.

### Inventory

| Part | State | Operations | What makes it correct | What is hard |
|---|---|---|---|---|
| Ingest pipeline (`ingest.go`) | none of its own; the message in hand between two store calls | `IngestMessage`, `deadLetter` | every event ends in the index or in `dead_letter`; one row per id; rows linked in the order readers walk | head read and insert are two calls; payload written before the row; any call may fail half way; errors are swallowed by the handler |
| Kafka consumer (`kafkaadapter.go`, `kafka.go`) | committed offset and owner per partition, position of the reader | read, commit, rebalance, stop; in-memory `Fake` | at-least-once delivery | commits on read; rebalances and stale commits; a read error ends the loop; `Enqueue` against `Stop` |
| Event envelope (`event.go`) | none | decode, validate, hash, normalise | what is accepted can be hashed | formats of hashes |
| Hash chain (`chain.go`) | none | `CanonicalHash`, `VerifyEvent`, `VerifyChain`, `Sweep`, `MerkleRoot` | verification accepts what ingest wrote and nothing altered | order of rows, timestamps that lose precision, windows and pages, inserts during a sweep |
| Anchor job (`chain.go`, `app.go`) | the head of the current run | read head, sign, insert anchor, mark rows | marked rows are covered by a signed root | rows inserted while it runs; failure between the two writes |
| Event store (`store.go`, `memstore.go`, `postgres.go`) | `audit_events` | `Insert`, `Get`, `List`, `ChainHead`, `SetLegalHold`, `MarkAnchored` | append only, idempotent on id, total order | pages and cursors |
| Other stores | `chain_anchors`, `export_jobs`, `dead_letter` | insert, list, update | | zero times and empty ids in Postgres |
| Payload store (`s3.go`, `s3adapter.go`) | objects with retention and hold | put, get, presign, delete, lifecycle | a retained object is never replaced or deleted | overwriting, expiry, holds set later |
| Redaction (`redaction.go`) | the policy, reloadable | `Parse`, `Apply`, `Reload` | no matching field is stored in clear | reload between deliveries; which rule wins |
| REST API (`api.go`) | none | list, get, verify, export, legal hold, reload | | page limits, rows with the same ts |
| Export runner (`export.go`) | job status | `RunJob` | a job ends COMPLETE or FAILED with its artifact | partial failure; never started by `app.go` |
| Life cycle (`app.go`, `adapters.go`) | goroutines, context | `Build`, `Run`, `Shutdown` | shutdown loses nothing | message in hand at shutdown; fall-back to memory |
| Migrations, CLI (`migrations.go`, `cli.go`) | `schema_migrations` | `Up`, `Down`; verify | rerunning is safe | interruption between the two statements |
| KMS, auth, config, metrics, tracing | none that matters here | | | |

Parts call each other directly. The only communication between instances is
through the topic's committed offsets and the shared stores, so the models
interleave at exactly these calls.

## Modules

| Module | Models | Notes |
|---|---|---|
| `EventStore` | the methods of `store.EventStore` that ingest and anchoring use, as operators on an index | an index is a function from ids to rows; each method is atomic in both implementations (a mutex; one SQL statement) |
| `HashChain` | `CanonicalHash`, `EventHash`, `VerifyEvent` and the walk of `VerifyChain` | symbolic hashes: the tuple of what is hashed |
| `ObjectLock` | what protects an object of a bucket: `isRetained`, with an expiry that wraps round | extended by `Ingest`, `Process` and `Exports` |
| `Ingest` | topic, consumer group, consumer goroutines, pipeline, index, bucket, dead letters | one action between two shared-store calls; the core |
| `AppendOnlyLog` | abstract: what the comments of `store.EventStore` promise | refined by `Ingest` and `AuditLog` |
| `LinearLog`, `IngestLinear` | abstract: the log as a sequence growing at its end; the listing by `(ts, id)` as its refinement mapping | `ListAll` puts each row at its rank, as `Listing` does in a page |
| `AuditLog` | `Ingest` composed with the anchor loop and the legal-hold endpoint in the same processes | |
| `Listing` | `List` with its filters, pages and cursors on both implementations, `VerifyChain` over a list, the predecessor that the verify endpoint looks up | pure operators on an index |
| `Sweep` | `chain.Sweep` behind the admin endpoint, page by page, while events are ingested and anchored and stored rows are altered | extends `Listing` |
| `Exports` | export jobs and `Runner.RunJob`, call by call | composed with `Sweep`: the same index and anchors |
| `Retention` | `Ingest` over the years: retention ends, objects are deleted, rows are put under hold and released | extends `Ingest`; `lapsed` is history |
| `Redaction` | the policy grammar: `Parse` line by line, `matches`, `Apply`, and what the package comment promises of a document | pure operators; no recursion |
| `Process` | one process with everything in memory: `kafka.Fake` and its callers, the pipeline, the bucket's map, the policy file and its reload, graceful shutdown | extends `Redaction` |
| `Deployment` | instances and commands that migrate one database, the fall-back to memory | every statement of `Up` and `Down` is a step |
| `IngestProofs`, `RetentionProofs`, `AuditProofs`, `SerialProofs`, `ListingProofs`, `SweepProofs`, `ProcessProofs`, `DeploymentProofs` | theorems | see *Proofs*; `ListingProofs` holds lemmas that `SerialProofs` and `SweepProofs` cite |
| `MCIngest`, `MCAuditLog`, `MCRetention`, `MCSweep`, `MCExports`, `MCProcess` | instances for TLC | |

### How state and actions correspond to the code

`pc[w]` is where the consumer goroutine of instance `w` stands: `idle` is the
call to `ReadMessage` (`kafkaadapter.go:52`), `decode` the pipeline up to the
call of `ChainHead` (`ingest.go:105-149`), `head` that call, `put` the call of
`Payloads.Put`, `insert` the call of `Events.Insert`, `ack` the call of
`CommitMessages`. What the goroutine keeps in local variables between them is
`job[w]`: partition and offset (`off` is one-based, 0 means none), the redacted
flag and `prev_hash`. `stopped` is a consumer whose `Run` returned, `down` a
dead process.

- *Reading.* kafka-go commits inside `ReadMessage` for a group reader (the
  comment at `kafkaadapter.go:46` says so), so `ReadMessage` advances
  `committed`. `Ack` models the second commit; the broker does not check that
  it goes forward, and may refuse it after a rebalance, which is only logged.
- *Failures.* Each store call has an action that fails before the call took
  effect or after it (the reply was lost). Each costs one of `MaxFaults`, so
  does a crash. An error in the pipeline never reaches the consumer: the
  handler at `app.go:199-208` returns nil.
- *Rebalance* gives a partition to another live instance, which resumes at
  the committed offset, while the old owner may still handle a message. A
  stopped consumer keeps its partitions because its reader is never closed.
- *Retention.* `Locks` of `ObjectLock` is what `isRetained` of `s3.Fake` answers at
  the time of the put; `s3.Fake` documents itself as enforcing what Object Lock
  enforces. `Lasting` computes the expiry as the code does, in nanoseconds that
  fit a `Duration` only up to 106751 days: from 106752 on the product wraps
  round and the retention is over at once. `RetainedAtPut` applies it to the
  configuration. In `Ingest` a retention that has
  begun does not end; in `Retention` it does (`RetentionEnds`), an object that is
  no longer retained may be deleted (`Delete`), and `Hold` is the legal-hold
  endpoint, which changes the row and nothing else. `RETENTION_DAYS=0` is passed on
  as it is (`config.go:48`), and without a legal hold a put then replaces an object
  (`Store`, and `Put` of `Process`), which is also what a reader of the latest
  version of a versioned bucket sees.
- *Envelopes* are records `[valid, id, ts, fields, body, hash]`: `valid` folds
  decoding and validation; service, actor, action and target are one value
  `fields`; `hash` is either the normalised payload hash or malformed. Ids
  and times are naturals because only their order matters. A policy is the
  set of `fields` its rules match; `Sensitive` bodies change when matched and
  `Opaque` ones (not an object) make `Apply` fail.
- *Order.* `Ordered` says whether producers publish in `(ts, id)` order within
  a partition. Nothing in the code enforces it; it is a parameter so that the
  runs can show what depends on it.
- *Timestamps.* `StoredTS` truncates to `TsResolution` units, as pgx does
  when it writes a `TIMESTAMPTZ`.

In `AuditLog` the anchor loop of each process is `idle`, about to sign and
insert (`sign`) or about to mark (`mark`); the ticker fires at any moment.
`anchors` is a set: repeated anchors of one head are one element. `LegalHold`
sets the flag of any row at any time. The ingest actions are those of
`Ingest`; a crash resets both loops.

In `Sweep` and `Exports` a sweep, or a run of a job, takes one step per call to
a store: a page of `List`, `ListAnchors`, each `Get`, then the report; or a page,
`Sign` and `InsertAnchor`, `Put`, `UpdateJob`. Between any two of them events
arrive (`IngestEvent`), the head is anchored (`AnchorHead`) and a stored row may
be altered (`Alter`). The first two are one step each, because how the pipeline
and the anchor job interleave inside is the subject of `AuditLog`.

- *Alterations* are what the tests do through `TamperForTest`: a field changed,
  `this_hash` replaced, and both with a hash computed anew.
- *Implementation.* `backend` is chosen in `Init`. Memory gives a cursor
  whenever a page is full and stamps anchors with the time of the insert.
  Postgres asks for one row more, stores the zero `anchored_at` that its callers
  leave (`postgres.go:267`), and refuses an empty string where the schema says
  UUID: the anchor of an export, which names no event, and then the job's empty
  `anchor_id`. So no job on Postgres leaves `PENDING`, and a sweep of a window
  there finds no anchors.
- *Jobs.* A job is run by whoever is handed one that is pending, and by two at
  once if two are. Nothing in the program does (`app.go:119` drops the runner);
  the tests do. After a crash between storing the artifact and updating the job
  a second run is refused by Object Lock and marks the job `FAILED`.
- *Artifacts.* A job keeps the retention of its request; one that is not positive
  becomes 2555 days (`api.go:273`), nothing bounds it above. The artifact is put
  with it: if it wraps round, or when it is over (`ArtifactRetentionEnds`), the next
  put under the key overwrites the artifact.
- `present`, `altered`, `exposed`, `failed` (anchors whose own `Get` failed) and
  `unlisted` (`ListAnchors` failed) in `sweep`, `present` in `runner` and `ended` in
  `artifacts` are history.

`Process` is the program as it runs without `KAFKA_BROKERS`, `DB_URL` and a real
bucket. Its goroutines are the callers of `Enqueue` and `Stop`, the consumer, the
anchor loop, HTTP handlers and the one that runs `Shutdown`.

- *Feed.* `EnqueueCheck` is the look at `stopped` under the lock, `EnqueueSend`
  the send after it. When `Stop` has closed the channel in between, the send
  panics (`EnqueuePanics`) and the process is `dead`. A full feed gives an error
  (the comment at `kafka.go:69` says it blocks).
- *Consumer.* `consumer` is where `Fake.Run` stands: `select`, `apply` (the
  redactor), `put`, `write` (inside `Fake.Put`, about to write the map), `insert`.
  `select` takes any ready case, so a cancelled context may be seen now or after
  some more messages.
- *Policy.* A document is a sequence of rules as an operator means them, and
  `Render` its lines; the file holds a document or the first lines of one,
  because it is read while it may be being written. `Parse` folds `ParseLine`
  over the lines there are. A line that begins with `rules`, `action` or `fields` is
  that key to the parser wherever it stands, so a field of such a name is never
  redacted (`Keys`, `FieldLine`). A payload is a function from keys to values.
- *Bucket.* `Put` is refused only while the object of the key is protected
  (`RetainedAtPut`); otherwise it replaces it. The map has no lock. A handler that
  reads it while the consumer writes it may be noticed by the Go runtime, which
  then ends the process (`ReadDuringWrite`).
- *Shutdown.* Cancel, wait for HTTP handlers, wait for the two goroutines. Stores
  in memory do not look at the context, so the message in hand is finished.
- `accepted`, `handled`, and the `file` a policy and an object come from are
  history.

In `Deployment`, `run[p]` is where process `p` stands in `Up` or `Down`: `create`
(schema_migrations), `query` (is this version recorded), then the two statements
of a version, `apply` and `record`, or `revert` and `erase`. An instance whose
`postgres.Open` returned an error serves from its own memory (`GiveUp`,
`adapters.go:29-37`). A script of several statements runs as one implicit
transaction, because it is sent without arguments. Any statement, the one that
creates `schema_migrations` included, may take effect and lose its reply. A version
is in `torn` (history) from the time a process leaves it between its two statements
until another one executes the second. `Collide` is the race that
`CREATE TABLE IF NOT EXISTS` leaves open: of two that create one table, one gets
an error from the catalog's unique index. `verify-chain` is a command that runs
`Up` like `migrate --up`, since it opens the database the same way.

## What is checked

Runs that pass:

| Run | Properties | Instance |
|---|---|---|
| `AuditSerial` | `ChainIntact`, `ImplementsLinearLog`, `AnchoredInRoot`, `EventuallyAnchored` | 1 process ingesting and anchoring, 1 partition, ordered, 3 messages out of 4 envelopes (an id out of order, two with one `ts`), 2 faults, under `AuditFairness` |
| `IngestFleet` | `TypeOK`, `NoSilentLoss`, `ImplementsLog`, `EventuallyHandled` | 2 workers, 1 partition, unordered, 2 messages out of 3 envelopes (one is rejected), 2 policies, 2 faults, under `Fairness` |
| `Retention` | `NoSilentLoss`, `ProvableWhileRetained` | 2 workers, 2 partitions with one message each, two events sharing an id, one envelope for every check that rejects, 2 policies, a retention of 106751 days, deletes and holds, 1 fault |
| `AuditFleet` | `AuditTypeOK`, `AnchorsMatchIndex`, `AnchoredAfterAnchor`, `ImplementsLog` | 2 processes ingesting and anchoring, 2 messages in any order, legal holds, 1 fault |
| `Sweep` | `NoFalseAlarm`, `FindsAlterations`, `AnchorsTell`, `WalksWindow`, `EndpointTells`, `EndpointExact` | 4 events (two with one `ts`), 2 windows, pages of 2, both implementations, 1 alteration, 1 anchor, 1 sweep, 1 fault |
| `Exports` | `CompleteMatchesArtifact`, `ArtifactsProve` | 3 events, 1 job, 2 runners, pages of 2, 4 queries, a retention of 0 (so 2555) or 106752 days, both implementations, 1 fault |
| `Process` | `StoredAsDocumented`, `RedactedTells`, `Accounted`, `AcceptedIsHandled`, `ShutdownEnds` | 2 documents (rules that overlap; a rule in another order with a misspelt transform), any prefix of one, 1 edit, 1 reload, 4 messages (one not an object, one without payload, two with one id) of which 2 are accepted, a feed of 1, objects retained for 2555 days, under `ProcessFairness` |
| `Deployment` | `ServesOnSchema`, `Settled`, `OneLog`, `Boots` | 2 instances, 2 commands run by one operator, 2 versions, 1 event, 1 failed call or lost reply, 1 death, under weak fairness of each migrating process |

What they show: with one consumer, one partition and producers in order the
chain is what its readers expect, through crashes, failed calls and repeated
messages. With several consumers it need not be, but the index is still an
append-only log: rows are added once, never change their chain columns, link
to hashes that exist, keep matching their anchors, and are marked only after
an anchor at or after them was stored. The pipeline itself loses nothing:
every event that is missing cost a fault of its own. Until its retention is
over, the payload, flag and hash of a row agree whichever delivery wins.

A sweep walks every row of its window that was there when it began, once and in
order, whatever arrives between its pages. It never accuses a log that
is intact and linked in listing order (an event that comes late leaves a gap
although nobody altered anything), and of the anchors it accuses only those of
exports, which name no row, and those whose own `Get` failed. An
`ok` vouches for every row but the two places the code cannot look: the first
row may link to anything, and nothing follows the last, so a row there whose
hash was computed anew passes. `FindsAlterations` says exactly that. Anchors close
the gap: `AnchorsTell` says that one stored before the sweep is reported when its
row has another hash than was signed, if the window holds the anchor. On
Postgres, where anchors carry no time (`postgres.go:267`), only a sweep from the
beginning holds any. The endpoint that verifies one event sees less: it vouches for
no altered row but one rewritten with its hash computed anew, whose successor it
then refuses (`EndpointTells`), and it wrongly refuses exactly the rows that have a
row of the same `ts` before them or more than a page of earlier ones
(`EndpointExact`). An export
over all fields proves its window, and a complete job describes the artifact in
the bucket although two runners raced for it, until the artifact is without
protection: the retention is over, or was too long for a `Duration` to begin with.
On Postgres no job completes, so the claim is about the in-memory stores.

`Process` shows that whatever is written and reloaded meanwhile, a stored payload
is what one complete document asked for, if the parser understands that document
(each rule begins with its service, names are in lower case and no keys of the
grammar, transforms are spelt right), and that under any document the `redacted` flag of a row tells
whether its payload is the one that was sent, where objects are put under
retention; that a shutdown leaves no message half handled, though it may
leave some in the feed; and that `Stop` lets the consumer finish what it has.
`Deployment` shows that an instance on Postgres has all its tables whoever else
migrated, died or lost a reply half way, and what it takes for an instance to
ingest where nobody looks: a failed call, or a lost race for a table.

Runs that end in a violation record where the code does something else than
the repository says (`findings` in `PROJECT.json` quotes the lines):

| Run | Property | Disagreement |
|---|---|---|
| `IngestRace` | `ChainIntact` | two instances link to the same head |
| `IngestAtLeastOnce` | `NothingLost` | commit on read and a handler that never fails: delivery is at most once |
| `HeldPayload` | `HeldPayloadKept` | a row is put under legal hold, and a later step deletes its payload |
| `RedactionCase` | `NoNamedFieldInClear` | a rule that names a field in upper case redacts nothing |

`IngestThree` (module `MCIngest`) is `IngestFleet` with three messages and one
policy; it passes as well, and is no run of its own because it asks the same.
Five further configurations each end in a violation. They are not part
of the listed runs, and can be repeated with `tlc -config X.cfg M`:

| Configuration, module | Property | Disagreement |
|---|---|---|
| `IngestRetry`, `MCIngest` | `RefusedOnlyIfIndexed` | a stored payload without a row keeps its event out for good (`ingest.go:177`; `ingest.go:8` says re-deliveries are deduped at the repository layer) |
| `IngestPrecision`, `MCIngest` | `HashesRecompute` | nanoseconds hashed (`chain.go:99`), microseconds stored; `PROJECT_PLAN.md:121` says that recomputing every hash matches |
| `VerifyEndpoint`, `MCSweep` | `EndpointAccepts` | a predecessor with the same `ts` is never found (`api.go:221`): a gap is reported in an intact chain |
| `ExportFiltered`, `MCExports` | `FilteredArtifactsProve` | the root of an export of one service is the genesis value (`export.go:111`) |
| `ProcessUnretained`, `MCProcess` | `RedactedTells` | `RETENTION_DAYS=0` and no hold: a redelivery after a reload replaces the payload, and its row keeps the old flag (`s3.go:97`, `s3.go:172`; `ingest.go:8` says re-deliveries are deduped) |

Two more disagreements need no concurrency and no fault, so they are told here
and are not runs of their own. Without `Ordered`, one worker breaks
`ChainIntact` too: an event older than the head is linked to the head, because
`ingest.go:152` asks for the last row and not for the predecessor, and
`AnchoredInRoot` with it, because `MarkAnchored` marks such a row although the
signed root does not reach it. With `RetentionDays = 0` and no legal hold,
`ProvableWhileRetained` fails: a redelivery replaces the payload of a row that is
kept; and likewise with a retention of 106752 days, which wraps round. (The
`Retention` run stands at the boundary, 106751 days; `Exports` is beyond it.)

Three more were met in `Deployment` and `Process`. A `Down` left between `DROP`
and `DELETE` makes every later `Up` a silent no-op (`migrations.go:99` says it
applies all pending migrations), so instances then serve from tables that are
gone; `ServesOnSchema` stops at the first `Down` for this reason, and `Settled`
leaves out a version that was left half way, until it is put right, and all of
them once an `Up` and a `Down` ran at once. An `Up` left between its statements
makes `Down` skip a version whose tables are there. And `Stop` does not wait for
the handler in flight (`kafka.go:51` says it does).

### Bounds

Every run bounds the messages per partition (`MaxMessages`) and the faults
(`MaxFaults`); both are guards. Two workers are enough for every race in the code:
each involves a read by one and a write by another. Three messages (`AuditSerial`,
`IngestThree`) are enough for an insert before, between and after rows, and for
one id to be delivered twice with another event in between; two, in any order, for
a row that arrives behind the head; in `Retention`, one message in each of two
partitions is enough for two deliveries of one id to overlap; two faults for a
failure while another failure is being retried.

`PageLimit` is 1000 in the code and 2 in the runs (3 in `VerifyEndpoint`, so that
the page is not what hides the predecessor), small enough for pages that are not
full, exactly full and followed by another, for a page boundary between two rows
with one `ts`, and for inserts behind and ahead of the cursor. `Retentions` has
one value on either side of what a `Duration` holds: 0, which becomes 2555 days,
and 106752. `MaxAlterations`, `MaxAnchors` and `MaxSweeps` are 1 in `Sweep`: each
claim is about one altered row, one anchor and one walk, and sweeps share no
state.

`Process` accepts two messages with a feed of one, enough for a message in hand,
one behind it and a third refused. One edit and one reload are enough for a file
read half written and for a policy swapped between two messages. `Deployment` has
two instances, because every race is between two; two versions (the repository has
one so far, and a loop over all there are), so that a process is between versions
while another is at either; and one fault and one death, so
that each can happen while the other process goes on.

The state space is otherwise complete: no symmetry and no state constraint is
used. `CHECK_DEADLOCK FALSE` is set because a bounded instance ends when its
messages are handled and its faults used up.

### Fairness

`Fairness` asks that a consumer goroutine that can take a step does
(`WF(Work(w))`: the Go scheduler runs it, store calls return) and that a partition
with unread messages and an idle owner is read. It does not ask producers to send,
calls to fail, dead processes to restart or the group to rebalance.
`EventuallyHandled` therefore has the escape that the owner stopped or died, which
the code really allows: after one read error the instance keeps its partitions and
reads nothing. `AuditFairness` asks, of the composed processes, the same and that
the ticker of a live process keeps firing and a started run goes on
(`app.go:214-232`); `EventuallyAnchored` escapes only when no process lives.
`ProcessFairness` asks that the consumer goes on when it can, and that `Shutdown`
and the anchor loop do; and, for the `select` of `Fake.Run`, strong fairness of
seeing the cancelled context: Go chooses at random among ready cases, so it does
not pass it over for ever while messages keep coming. `AcceptedIsHandled` escapes
when the process is shut down or killed by a race. In `Deployment` a process that
migrates goes on, which assumes that each of its calls returns or fails: the code
passes `context.Background()` and so sets no limit of its own (`app.go:65`);
`Boots` escapes when the process dies. Sweeps and exports are requests and promise
nothing in the end: their runs check safety only.

## Proofs

Every safety property of a passing run is also a theorem, for every value of the
constants that its module's assumption admits. Assumed of the constants is:

- `IngestAssumption`: non-empty sets, naturals where naturals are meant; nothing
  about the number of workers, partitions, messages, faults or envelopes.
- `SweepAssumption`, `ExportAssumption`: events have an id, a time that is not
  zero and not after `Now`, and no field that already has the value an alteration
  writes; one id is one event; a page has at least one row; the retention of a
  request is an integer.
- `ProcessAssumption`, `RedactionAssumption`: a feed holds at least one message,
  the retention is a natural number;
  lowering the case twice changes nothing more.
- `DeploymentAssumption`: an instance is not a command, and there is a version.

What a theorem needs beyond these is stated as its own premise and named below.

`IngestProofs`:

- `TypeCorrect`: `Spec => []TypeOK`. Types alone are not inductive:
  `ChainHead` is a `CHOOSE`, so the head hash is typed only if the index has a
  last row (`HasHead`), and hashes have no type but "one the index holds". The
  inductive invariant `IndInv` is `TypeInv(KnownHashes) /\ HasHead`: every hash a
  worker carries was, and because rows stay still is, genesis or the hash of a
  row. That insertion keeps a last row uses that `(ts, id)` is a total order.
- `PrevKnown`: `Spec => []NoDanglingPrev`. The chain may fork, it never dangles.
- `AppendOnly`: `Spec => ImplementsLog`. The refinement: the only steps that
  change the index are `Index(w)` of a message in hand, and each is a stutter
  (the id is there) or `Append` of `AppendOnlyLog`.

`RetentionProofs`:

- `NoSilentLossHolds`: `Spec => []NoSilentLoss`, and `NoLossWhenDeleted`:
  `RetentionSpec => []NoSilentLoss`. A count of lost events against
  faults is not inductive: a lost event that is delivered again is no longer lost,
  its fault is spent, and the payload its first delivery left in the bucket turns
  the second one away without a fault of its own. `LossInv` bounds the larger set
  `Charged`: events outside the index that nobody is about to insert, and whose
  payload is in the bucket or of which some message was seen and then given up.
  `NextCharges` shows that a step adds at most one event to it, and only with a
  fault. `Seen` reaches as far as any offset a worker still holds, because an old
  owner may move the committed offset back and forth, but only a failed read moves
  it past a message that nobody has had, and by one. Deletions only take objects
  away, so nothing more is charged.
- `PayloadsProvable`: `RetentionSpec => []ProvableWhileRetained`, under
  `RetainedAtPut` (an object is protected when it is put: a legal hold by default,
  or a retention of 1 to 106751 days, or of so many that the `Duration` wraps round
  to a positive one). `RetentionInv` adds
  that an object is under retention unless one of its key has ended
  (`RetainedInv`), that an accepted message carries the hash of its body
  (`CheckedInv`), and that the payload a worker has put is still there, redacted as
  the worker redacted it, when it comes to insert the row (`PutInv`): nobody can
  have replaced it. Without the premise two deliveries under different policies
  may overwrite each other's payload between put and insert.

`AuditProofs`, for every number of processes that ingest, anchor and serve legal
holds:

- `AuditTypeCorrect`, `AnchorsMatch`, `MarkedAfterAnchor`: `AuditSpec` implies
  `[]AuditTypeOK`, `[]AnchorsMatchIndex`, `[]AnchoredAfterAnchor`. An anchor run
  reads the head, signs, stores and marks in separate calls while rows are
  inserted. `LoopInv` says what survives between them: the head that was read is
  still a row with that hash, and a run that marks has its anchor in the table.
  `AuditInv` joins it to `IndInv`: steps of the anchor loop change flags only
  (`OnlyFlags`), and ingestion moves no row.
- `AuditAppendOnly`: `AuditSpec => ImplementsLog`; a mark or a hold is a step of
  `AppendOnlyLog` on the same rows.

`SerialProofs`, under `SerialDeployment` (one worker, one partition, ordered
producers, a `ts` column that keeps every unit):

- `SerialChainIntact`: `Spec => []ChainIntact`. The chain is not inductive by
  itself; `SerialInv` adds that the worker inserts the message at the committed
  offset (`OffsetsInv`), that the partition is sorted (`SortedTopic`), that
  every row comes from a valid message before that offset (`RowsInv`), so is
  listed before it, and that the hash carried to the insert is still that of
  the head (`LinkInv`). `LinkLast` then extends a linked index by a last row.
  The premises are needed: `IngestRace` refutes the conclusion with two workers,
  `IngestPrecision` with a coarser `ts` column, and late events without `Ordered`.
- `ChainIntactWhileAnchored`: `AuditSpec => []ChainIntact`. Marks and holds change
  no column that is hashed or carried (`FlagsKeepSerial`).
- `AnchoredInRootHolds`: `AuditSpec => []AnchoredInRoot`. The anchor loop marks by
  place in the order and signs one hash; what joins the two is `ReachInv`: from
  any row, following `prev_hash` leads to every row before it. It is inductive only
  because a row is added after all others and linked to the head
  (`InsertReaches`).
- `LinearWhileAnchored`: `AuditSpec => ImplementsLinearLog`. The listing puts each
  row at its rank (`ListAllIs`); a row added last takes the rank after all others
  and leaves theirs (`InsertExtends`), which is `Append` of `LinearLog`.

`ListingProofs` holds what the other two modules need of `Listing`, for every
finite index, filter and page limit. The order by `(ts, id)` is total and ranks
in it are a bijection (`RankOrder`, `RankTaken`); a page holds rows of the
window behind the cursor, in order, each once, and a page that is not full holds
all of them (`PageOrdered`, `PageHolds`). `Reading` is a walk under way: what was
present at the start is listed or still behind the cursor. A page keeps it
(`ReadingPage`), and so do rows inserted before or behind the cursor
(`ReadingGrows`). A walk of `VerifyChain` accepts a list of intact rows that each
link to the one before (`ChainedIsOk`), and successive pages of a linked index
make such a list (`PageContinues`, `UnbrokenPage`).

`SweepProofs`, for every number of events, alterations, anchors, sweeps, runners
and failed calls, both implementations, and any page limit:

- `WalksWindowHolds`, `NoFalseAlarmHolds`: `SweepSpec` implies `[]WalksWindow`,
  `[]NoFalseAlarm`, from the inductive `SweepInv`: `WalkInv` carries `Reading` and
  `Unbroken` from page to page, `GetInv` what the comparison of anchors has found so
  far, `ReportInv` what the last report said. A row altered after it was listed must
  not matter, so the latter are about what was listed and not about the index.
  `NoFalseAlarm` has its premises in its statement: no row was altered and, for the
  status, the rows are linked in listing order. Failed calls are no premise; they
  excuse the anchors whose own `Get` failed and nothing else.
- `EndpointTellsHolds`, `EndpointExactHolds`: `SweepSpec` implies
  `[]EndpointTells`, `[]EndpointExact`. The endpoint takes the last row of one
  page for the predecessor. `EarlierPage` says which row that is, and
  `PrecedingKnown` that its hash is genesis or that of a row, and so not the one a
  severed row was given (`EndpointRefuses`, from `TamperInv` below);
  `EndpointFits` tells when it is the predecessor of the listing, by counting the
  earlier rows against the page.
- `FindsAlterationsHolds`, `AnchorsTellHolds`: that an alteration is found needs
  the opposite of a log that only grows. `TamperInv` says what each alteration
  leaves behind: which hash no row recomputes to, or which hash nothing links to
  any more (`Orphaned`), through every insertion and further alteration of other
  rows. A hash tells whose it is by the id it begins with (`HashOf`). Both claims
  are about rows altered in one way (`Once`): a second alteration may undo the
  first.
- `CompleteMatchesArtifactHolds`, `ArtifactsProveHolds`: `ExportSpec` implies
  `[]CompleteMatchesArtifact`, `[]ArtifactsProve`. `RunInv` says of each runner
  what it has in hand at each call, `StoreInv` that an artifact, once stored,
  stays and is what the job asked for; Object Lock refuses the second runner while
  the object is protected, and `ended` remembers that it once was not
  (`LapseKeeps`).
- `SweepBesideExports`: `ExportSpec => [](WalksWindow /\ NoFalseAlarm)`, while
  exports run and insert anchors of their own.

`ProcessProofs`:

- `AccountedHolds`: `ProcessSpec => []Accounted`. `AccountInv` adds to the order of
  the queue where each accepted message is (`OrderInv`, `HandInv`, `DoneInv`), and
  that an object in the bucket was put for a message (`ObjectInv`).
- `RedactedTellsHolds`: `ProcessSpec => []RedactedTells` under `RetainedAtPut` (an
  object is protected when it is put), and `StoredAsDocumentedHolds`: `ProcessSpec
  => []StoredAsDocumented` under `ParsedAsDocumented`. `RedactInv` follows the
  version of the file: a policy comes from one version (`PolicyInv`), what the
  consumer carries was redacted under one policy and the flag was computed with it
  (`CarryInv`), and a second delivery under another policy is refused by the
  bucket before its row could disagree (`FlagInv`): that is what the premise of
  the first is for, and `ProcessUnretained` refutes it without. The premise of the
  second says that the parser understands each single document as it is meant.
  `Parse` and `Apply` fold over sequences, so it would take induction over data;
  TLC evaluates it for the documents of the runs (`ParserAssumption` of
  `MCProcess`).

`DeploymentProofs`, for every number of instances, commands, versions, events,
faults and deaths, under `DeploymentAssumption`:

- `ServesOnSchemaHolds`: `DeploymentSpec => []ServesOnSchema`. That the tables are
  there when an instance serves says nothing of processes that still migrate, so
  `UpInv` adds what each of them knows: a recorded version has its tables, and a
  process in `Up` has seen those of every version it has passed (`Passed`). No lock
  is needed because, without a `Down`, tables only come.
- `SettledHolds`: `DeploymentSpec => []Settled`. `RecordInv` says where record and
  tables may differ: only at a version that is torn or that some process stands
  before the second statement of, and, unless `mixed`, all processes go the same
  way.
- `OneLogHolds`: `DeploymentSpec => []OneLog`. `LogInv` adds that a process past
  `create` finds schema_migrations, so no query fails and nobody falls back.

Only model-checked: liveness (`EventuallyHandled`, `EventuallyAnchored`,
`AcceptedIsHandled`, `ShutdownEnds`, `Boots`), which the prover does not reach, as
it needs `ENABLED`; what the parser makes of one document; and the violations.

## What is not modelled, and why

- `Ingest` and `AuditLog` assume shared, durable stores. Instances that keep their
  log in memory are the subject of `Process` and `Deployment`, where ingest is not
  taken apart again.
- `ApplyTransition` of the fake bucket (called by tests only) changes a storage
  class that nothing reads; `MerkleRoot` is called by nothing. `kafka.Fake` has two
  test helpers that are left out, `Committed` and `PollFeed`.
- The embedded migration files are taken as sorted and paired, which `All` sees to
  (`migrations.go:68-78`); two reloads at once (see the hazard at
  `redaction.go:303`).
- Masking is symbolic: that a masked string may equal the string it masks (`*`)
  is not told apart.
- Ids are taken as already canonical; Postgres would fold the case of UUIDs
  and refuse other ids, which the model counts as a failed insert.
- A missing bucket or a nil dead-letter store: `app.Build` always
  sets the latter, and an unset `PAYLOAD_BUCKET` is the case of an envelope
  without body.
- Decoding, the text form of cursors, export formats, metrics, signatures: no
  property depends on them. A cursor is a pair; a signature is its digest.
- The GET endpoints that return rows as they are stored, authentication and
  configuration.
- KMS signing, flags and printed reports of the command line.

## Plan

1. Done: `EventStore`, `HashChain`, `Ingest`, `AuditLog`; the proofs about
   `Ingest`; `Listing`, `Sweep`, `Exports`; `Retention`, `Redaction`, `Process`,
   `Deployment`.
2. Done: the safety properties of every passing run as theorems.
3. Left: the premises of `SerialDeployment` one by one (what of the chain remains
   with several partitions, or with a coarser `ts` column), and what of
   `StoredAsDocumented` holds of documents the parser does not understand.
