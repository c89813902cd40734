# GophProfile in TLA+

Specifications, model-checking runs and proofs for GophProfile, the avatar
service in `src/`: users upload an image over HTTP, a worker makes thumbnails of
it in the background, and a deletion removes the objects from the bucket later.
The interesting part is what the two processes leave behind in three stores
(Postgres, S3, Kafka) that share no transaction, when they interleave, fail half
way, are stopped or die.

## The system

| Component | Source | State | Operations |
| --- | --- | --- | --- |
| Avatar service, server side | `internal/services/avatar.go`, `internal/handlers/avatar.go` | the requests in flight, the `StorageUsage` gauge | `upload`, `delete`, `DeleteLatest`, `FetchImage` |
| Avatar service, worker side | `internal/services/avatar.go` | the calls under way | `FlushOutbox`, `RecoverStuck`, `processUpload`, `ProcessDelete` |
| Worker process | `internal/worker/worker.go`, `cmd/worker/main.go` | three goroutines, one context | `Run`, `consume` (twice), `maintenance`, `withRetry` |
| Repository | `internal/repository/postgres.go` | tables `avatars`, `outbox_events` | one statement or transaction per method |
| Object store | `internal/storage/s3.go` | the keys in the bucket | `Upload`, `Download`, `Delete` |
| Broker | `internal/broker/kafka.go` | topics `avatar.uploaded`, `avatar.deleted`, one consumer group | publish, fetch, commit |
| Domain | `internal/domain/` | none | sizes, object keys, events and their ids, parameter checks |
| Handlers, router, middleware | `internal/handlers`, `internal/api`, `internal/middleware` | none | parsing, identity, mapping of errors to statuses |
| Migrations | `internal/migrate/migrate.go` | table `schema_migrations`, an advisory lock | `Up`, run by both processes when they start |
| Image library | `internal/imageutil/image.go` | none | `Inspect`, `MakeThumbnail`, `Convert` |
| Health | `internal/handlers/health.go` | a probe, its goroutines and channel | three concurrent pings under one deadline |
| Bootstrap, configuration, observability | `internal/app`, `cmd`, `internal/config`, `internal/observability` | process-wide clients, gauges | start, stop, export |

How they interact. An upload stores the original, then writes the row and an
upload event in one transaction; if that reports an error it removes the original
again. A deletion reads the row, then sets `deleted_at` and writes a delete event
in one transaction. Server and worker never call each other. Every ten seconds
the maintenance goroutine publishes unpublished events and marks them, then hands
up to 20 stuck avatars to `processUpload`. The upload consumer calls the same
`processUpload` for every message, so two goroutines may want the same avatar;
`MarkProcessing` is the claim that keeps them apart, and it lapses after two
minutes. The delete consumer removes the objects that its message names. A
message that fails five times, or for good, is dropped by committing its offset.
An error of a fetch or a commit ends the goroutine and cancels the context of the
other two. Both processes begin with `app.New`, which runs the migrations under an
advisory lock, creates the bucket if there is none and tries to create the topics;
they may do so at the same time.

What is hard about it, with the property that watches it (the full list, with
lines, is under `hazards` in `PROJECT.json`):

- two stores and no common transaction: row and event agree
  (`OutboxMatchesRows`), the original of an acknowledged upload stays
  (`AckedOriginalPresent`), thumbnails are stored before they are recorded
  (`ThumbnailsPresent`), compensation leaves nothing (`NoOrphanOriginal`), and
  an avatar never goes back (`ImplementsLifecycle`);
- values read in one call and used in a later one: the key a reader chose
  (`ReadersFindObject`), the keys a deletion will remove (`DeletedObjectsGone`);
- two workers on one avatar, and a claim that lapses under its holder
  (`ClaimExclusive`, `CompletedStable`);
- at-least-once delivery, drops, restarts: a deletion is not lost
  (`DeleteNotLost`) and removes all that it names (`DeletionComplete`), an upload is
  eventually processed (`EventuallyCompleted`), the
  original of a deleted avatar eventually goes (`EventuallyRemoved`);
- batches with a limit, and avatars that can never be processed
  (`EventuallyCompleted` in the runs `poison` and `starvation`);
- two deletions at a time and the gauge (`UsageMatchesRows`);
- two processes that start together, sessions that outlive their process or are
  lost under it, starts that are broken off (`MigratesAlone`, `AppliesOnce`, `SchemaIsRecorded`,
  `RunningIsReady`, `EventuallyRunning`);
- a probe that collects concurrent results (`HealthyMeansReady`, `ProbeAnswered`);
- limits that handler, service and image code each check in their own way, and
  arithmetic at their edge (`AcceptsExactly`, `StoredWhole`), and the memory
  that none of them limits (`WorkerAgrees`);
- an image whose bytes, type, ETag and metadata come from different places and
  change under a client when the worker is done (`RightImage`, `ServedIfPossible`,
  `NotModifiedTrue`, `MetadataTrue`, `ThumbnailsAsNamed`).

## The modules

```
Environment   what may fail, and how often
Sizes         original and thumbnails             internal/domain/avatar.go

Domain        avatars, keys, events               internal/domain
Repository    avatars and outbox_events           internal/repository/postgres.go
ObjectStore   the bucket                          internal/storage/s3.go
Broker        the two topics                      internal/broker/kafka.go
Server        requests in flight                  services/avatar.go, handlers/avatar.go
Worker        the three goroutines                worker/worker.go, services/avatar.go
GophProfile   Server and Worker together, the properties
AvatarLifecycle    what is promised of an avatar; LifecycleMapping maps GophProfile to it

Bootstrap     app.New with Up, EnsureBucket, EnsureTopics    app/deps.go, migrate/migrate.go
Health        the readiness probe                 handlers/health.go
Deployment    Bootstrap and Health together, the properties

Images        image checks and conversion, parameters, statuses    imageutil/image.go, domain
Api           uploads, thumbnails, images and metadata    handlers, services/avatar.go

MCGophProfile, MCDeployment, MCApi                    constants for TLC
GophProfile_proofs, _claims, _deletes, _requests,
_refinement, Deployment_proofs, Api_proofs, Api_images    proofs
```

There are three systems here, because their questions do not meet. `GophProfile` is
about interleavings and failures, and an image is one bit to it. `Deployment` is
about the time before the first request. `Api` is about what images, limits and
parameters do, with one request at a time and no failure.

### GophProfile

One step is one call to Postgres, S3 or Kafka: that is where other processes can
come in between, and where a call can fail. `Server` keeps one record per request
(`req[r]`): the program counter names the call that comes next, `avatar` and
`sizes` are the local variables that survive from one call to the next.
`upload` is `UploadPut`, `UploadCreate`, `UploadCompensate`; `delete` is
`DeleteByID` (with its `GetByID`) and `DeleteSoft`; `DeleteLatest` looks the avatar
up and goes on with `DeleteGet`; `FetchImage` is `GetImage` and `DownloadImage`. A
request that writes nothing before it is refused changes nothing and is no step.

`Worker` keeps `proc[p]` for the two callers of `processUpload`, the consumer and
`RecoverStuck`; `del` for the delete consumer; `maint` for the maintenance loop
with the batch of ids it has yet to publish and the stuck avatars it has yet to
treat; and `stopping`, the cancelled context. `processUpload` is `ProcessGet`,
`ProcessMark`, `ProcessDownload`, `ProcessThumb` (once per size),
`ProcessComplete`, `ProcessFail`; `Return` is what its callers do with the result.

Data is reduced to what the control depends on. An avatar is a number, which is
its id and its age; an object key is an avatar and a size; a message is the set of
sizes whose keys it carries; `updated_at` is the one bit `stale`, set by time and
cleared by every statement that writes `NOW()`. An image is either decodable or
`Truncated`: its header passes `Inspect` at upload, its pixels fail
`MakeThumbnail` for good. A topic is one queue per avatar, because messages are
keyed by avatar; the order of two avatars in one partition is one of the
interleavings of their queues.

`storageUsage` is the gauge, with every original of size one, thumbnails not counted,
as in the code; it dies with the server.

`AvatarLifecycle` is the promise, without requests, outbox, broker, worker or
failures: an avatar is unknown, accepted, ready, deleted, in that order and never
back; what is kept of it only grows while it is accepted or ready, except for the
original of an upload that was not acknowledged; only what is deleted is cleared.
`LifecycleMapping` reads the phase from the row and what is kept from the bucket.
The one exception is needed: a create transaction that commits and loses its
answer leaves a live avatar whose original the compensation removes. That avatar
stays live and its GET fails; its uploader was told that the upload failed.

### Deployment

`boot[p]` is how far `app.New` has come in process p; every call to Postgres, S3 or
Kafka is a step. `lock` is who has advisory lock 812001. The lock belongs to a
database session, and a session outlives its process until Postgres notices: the
process that dies with the lock leaves it to `Orphan`, and one that dies in the
queue for it (`waiting`) may be given it when nobody is there to release it. A file
is applied in `ApplySQL`, `RecordVersion` and `CommitFile`; only the last one is
visible, so `schema` and `recorded` change together. An error in `Up` goes to the
deferred unlock first. Postgres may also end the session of a process that goes on
(`SessionLost`): the lock is free at once, and the process finds out with its next
statement, since `Up` has one connection for all it does (`LossNoticed`).
`MakeBucket` is an error when the bucket has appeared since `BucketExists`, and ends
the process. `EnsureTopics` fails into a warning, or does not return: only its dials
have a deadline, and a broker that stays silent holds the process (`"silent"`), which
then does not even end on a signal. An ended process is started again.

`Health` is one probe at a time: three goroutines that ping, fail, hang or run into
the deadline and send to the channel, and the handler behind `wg.Wait`. Postgres and
S3 obey the context. Kafka's `Ping` obeys it while it dials; the request it then
sends has no deadline, so `hung` is final for it unless the broker breaks the silence.

### Api

`Images` gives the bytes of an image as a record of what the code asks of them: its
length, its magic bytes, whether `DecodeConfig` and `Decode` can read it, its sides
and what it shows. `FirstError` is a chain of early returns. `checkPixels` computes
the product of the sides as a Go `int` does. Which sides an encoder takes
(`Encodable`) is what `image/jpeg` and `nativewebp` do. `ResizedPixels` is how many
pixels `imaging.Fill` makes on the way: unless both sides are long enough to crop
first, it enlarges the image until the shorter side fits, and the longer one with it.
What does not fit in memory ends the worker (`"killed"`), since `Resize` returns no
error.

In `Api` an upload is a form sent to one of the two routes; its error is that of the
handler and, if it has none, that of the service. Postgres refuses text that is not
UTF-8: such a user id passes `ValidateUserID` (`GarbledUser`), and `sanitizeFileName`
makes such a name of a long one when it cuts inside a character. A user in a path is
a segment: `chi.URLParam` gives its text as it stands when the client has escaped it
in another way than Go (`raw`), and `Escaped` is that text as an id. `ProcessUpload`
is the worker in one step; one that is killed leaves the row in processing and may
have stored the first thumbnail. `reply` is the last answer and
`cached` what a client keeps of an image, to be sent back as an ETag. Next to the
state of the program `sent` remembers the files as they were sent, for the
properties to compare with.

### Failures

`Environment` gives a behaviour a budget of `MaxFaults` failures out of the
classes in `Faults`: a failed statement (`db`), a commit that takes effect and
reports an error (`commit`), an object-store call that reports an error and may
have taken effect (`s3`), the same of Kafka (`kafka`), a cancelled request
(`cancel`), a killed process (`crash`), SIGTERM (`stop`), a claim
held for more than two minutes (`slow`). Under a cancelled context any call of the
worker may fail at no cost. A failure of a read by the server is an answer with an
error and no other effect.

`commit` is modelled where an effect that its caller does not know of changes what
happens next. It is not for `FailProcessing` (its result is ignored),
`MarkOutboxPublished` (the caller only logs the error, and the event counts as
published or not as if the call had succeeded or failed) and reads.

## The runs

Two attempts stand for the five of `withRetry` and
the three of `publishWithRetry`: a first failure, a retry and a last failure.
Limits of one or two stand for the 50 of `ListUnpublished` and the 20 of
`ListStuckUploads`, so that batches fill up. Two requests are enough for two
deletions of one avatar, a reader beside a deletion, or an upload beside either;
the third actor is always the worker. With one avatar all its steps can meet; two
are needed for batches, for order and for owners. `deployment` has the two processes
and two migrations of the repository; two failures are enough for a process to die
with the lock while the other dies in the queue.

In `api` the numbers are scaled down and keep their order: 20,000 pixels for 20
million, an `int` that just holds its square, file lengths around 12 (the shortest
image) and 20 (the limit), encoders that take less than one side of the longest
image, thumbnails of 10 and 30 pixels, memory for a million. The files lie on both
sides of every limit: exactly MaxPixels, one row more, a side that only PNG can
encode, an image of 2 by 10,000 whose smaller thumbnail fits in memory and whose
larger one does not, a file as long as allowed and one byte longer, a header without
pixels. One of the two users is what the id of the other is when escaped. Two uploads
are enough for a latest and an older one.

| Run | Bounds | Shows |
| --- | --- | --- |
| `all_faults` | 1 avatar, 2 requests, any 2 failures of any class | `TypeOK`, `OutboxMatchesRows`, `AckedOriginalPresent`, `ThumbnailsPresent`, `ReadersFindObject` hold whatever fails |
| `two_avatars` | 2 avatars, 2 users, no failure, the first image not decodable | `ClaimExclusive`, `DeleteNotLost` and `UsageMatchesRows` with work on several avatars at a time and batches of two |
| `removal` | 1 avatar, 2 requests, one of `db`, `commit`, `s3`, `cancel`, `crash` | `DeleteNotLost`, `EventuallyRemoved`, and `DeletionComplete`, `ClaimExclusive`, `CompletedStable` while no claim lapses; `ImplementsLifecycle` with two requests |
| `completion` | 1 avatar, 1 request, any 2 failures | `EventuallyCompleted`; `ImplementsLifecycle` under every class of failure |
| `poison` | 2 avatars, the first not decodable, no failure | `EventuallyCompleted`, `EventuallyRemoved` for the other |
| `deployment` | 2 processes, 2 migrations, any 2 failures | `MigratesAlone`, `AppliesOnce`, `SchemaIsRecorded`, `RunningIsReady`, `HealthyMeansReady`, `EventuallyRunning`, `ProbeAnswered` |
| `api` | 2 users, 2 accepted uploads of 15 files, both routes, parameters in and out of range | `AcceptsExactly`, `StoredWhole`, `WorkerAgrees`, `RightImage`, `ServedIfPossible`, `NotModifiedTrue`, `MetadataTrue`, `ThumbnailsAsNamed` |

Deadlock is checked in all of them: in every reachable state the maintenance loop,
a restart or a request can go on.

Five runs show a disagreement between the code and what a document or a test says
(`findings` in `PROJECT.json` quotes the lines):

| Run | Property | What happens |
| --- | --- | --- |
| `stale_snapshot` | `DeletedObjectsGone` | no failure needed: `delete` reads the row before the worker records its thumbnails, the event names the original only, the thumbnails stay for good |
| `delete_on_stop` | `DeleteNotLost` | SIGTERM during a removal: the cancelled handler counts as failed and the message is dropped by a commit |
| `slow_claim` | `CompletedStable` | a caller that lost its claim after two minutes fails late, and `FailProcessing` turns completed into failed |
| `cancelled` | `NoOrphanOriginal` | the client goes away after `PutObject`: the compensating `Delete` runs under the same cancelled context |
| `starvation` | `EventuallyCompleted` | as many undecodable avatars as the limit of `ListStuckUploads` keep `RecoverStuck` from every younger one |

The properties of the passing runs also name, as exceptions or conditions, what the
code does and its user would hardly expect:

- `UsageMatchesRows` holds for a server that was not restarted: `StorageUsage` is zero
  in every new process, although the dashboard charts it (`grafana-dashboard.json:67`)
  as "Total storage used by avatars" (`metrics.go:43`). It also counts originals only.
- `AcceptsExactly` counts a name longer than 255 bytes as invalid if byte 255 is inside
  a character (`services/avatar.go:469`); the upload is answered with 500.
- `ServedIfPossible` exempts a GET in a format whose encoder does not take so long a
  side (`services/avatar.go:340`); it is answered with 500.
- `WorkerAgrees` leaves an image in processing whose thumbnail does not fit in memory
  (`imageutil/image.go:110`): an upload of 1 by 20,000,000 pixels is within the limits,
  kills the worker and is taken up again.
- `RightImage` takes the user in a path for the text that `chi.URLParam` returns
  (`handlers/avatar.go:88`, `:113`, `:144`): for an id with an `@`, which the gallery
  escapes with `encodeURIComponent` (`web/static/app.js:108`), that is the escaped text,
  and the list is empty.

### Fairness

`FairSpec` assumes weak fairness of each request that is under way, of each of the
three goroutines, of the restart of an ended worker (a Deployment restarts its
pod) and of the two minutes that pass on a claim nobody works on. The Go scheduler
runs every goroutine that is not blocked, and every call returns or fails. Nothing
is assumed of clients: uploads and deletions need not happen. The budget makes
failures finite in number, so liveness is asked of what happens once they stop.

In `Deployment` each process goes on with its start and is started again when it
has ended, Postgres ends a session whose client is gone (its keepalive does), the
deadline of a probe comes and the goroutines run. Nothing is assumed of
`SilenceEnds` and `BrokerSpeaks`, nor that a waiting orphan is given the lock or
leaves the queue; `EventuallyRunning` and `ProbeAnswered` except what waits for a
silent broker, because nothing in the code would end that wait.
`EventuallyRunning` has to hold although a process may find the bucket created
under its hands and end: the next start finds it there.

`EventuallyRemoved` is not claimed for `kafka` and `stop`: both lead to the drop
that `delete_on_stop` shows. Nor is it for an object store that fails as often as
there are attempts, since nothing takes a dropped deletion up again.

## The proofs

TLAPS proves, for every set of users and requests, every number of avatars, all
positive limits, every set of undecodable images and every set and number of
failures; for every set of processes and number of migrations; for every set of
forms and all limits of the API:

| Theorem | Statement |
| --- | --- |
| `TypeCorrect` | `Spec => []TypeOK` |
| `OutboxFaithful` | `Spec => []OutboxMatchesRows` |
| `AckedOriginalKept` | `Spec => []AckedOriginalPresent` |
| `ThumbnailsKept` | `Spec => []ThumbnailsPresent` |
| `ReadersServed` | `Spec => []ReadersFindObject` |
| `ClaimsExclude` | `Spec => []ClaimExclusive`, if `"slow"` is not in `Faults` |
| `CompletedIsStable` | `Spec => CompletedStable`, if `"slow"` is not in `Faults` |
| `DeletionKept` | `Spec => []DeleteNotLost`, if `"kafka"` and `"stop"` are not in `Faults`, and `"s3"` only with `MaxFaults` below `Attempts` |
| `DeletionCarriedOut` | `Spec => []DeletionComplete`, if in addition `"slow"` is not in `Faults` |
| `OnlySnapshotsLeave` | under the conditions of `DeletionCarriedOut`, `DeletedObjectsGone` for every deletion that read a row with thumbnails |
| `UsageCounted` | `Spec => []UsageMatchesRows`, if `"crash"` and `"commit"` are not in `Faults` |
| `UsageBounded` | the gauge is off by at most one image per failure, if `"crash"` is not in `Faults` |
| `UploadsCompensated` | `Spec => []NoOrphanOriginal`, if none of `"s3"`, `"cancel"`, `"crash"` is in `Faults` |
| `Refinement` | `Spec => ImplementsLifecycle` |
| `LifeOfAnAvatar` | `Spec => [][Promise]_vars`: an avatar goes forward only, keeps its owner, and loses objects only when it is deleted or was never acknowledged |
| `DeploymentTypes`, `MigratingAlone`, `MigrationsAppliedOnce`, `SchemaRecorded`, `RunningReady`, `HealthyReady` | `Spec => []P` of `Deployment` for `TypeOK`, `MigratesAlone`, `AppliesOnce`, `SchemaIsRecorded`, `RunningIsReady`, `HealthyMeansReady` |
| `PixelsChecked` | `checkPixels` accepts exactly the sides whose product is in 1..MaxPixels, wrap-around included |
| `ApiTypes`, `AcceptanceExact`, `OriginalsWhole`, `WorkerAccepts`, `MetadataExact` | `Spec => []P` of `Api` for `TypeOK`, `AcceptsExactly`, `StoredWhole`, `WorkerAgrees`, `MetadataTrue` |
| `ImagesRight`, `ImagesServed`, `CopiesCurrent`, `ThumbnailsRight` | `Spec => []P` of `Api` for `RightImage`, `ServedIfPossible`, `NotModifiedTrue`, `ThumbnailsAsNamed` |

They use the assumptions the modules declare about their constants (the limits
are positive, `NoUser` is no user, the faults are known classes, the square of
MaxPixels and the sums made of the upload limit fit an `int`, thumbnails fit an
encoder) and nothing else. On a build with 32-bit integers the square of 20 million
does not fit, and `IntMaxAssumption` is where that shows.

The first five follow from one inductive invariant, `SafetyInv`. None of the
properties is inductive alone, because each speaks of stores that are written at
different times by different actors:

- `RequestInv`: an id is known to one uploading request until it is acknowledged,
  and while its row is not yet written the original is there. Without it the
  compensation of one upload could remove the original of another.
- `WorkInv`: events, messages and calls under way are about rows that exist, and
  everything on the way to the delete consumer is about rows that are deleted.
  This is why the delete consumer never removes what a live avatar needs.
- `ProcessorInv`: what a call of `processUpload` has counted as done is in the
  bucket while the avatar is live, and is everything when it completes.
- `ReaderInv`: the size a reader chose is the original or still named by the row.

`GophProfile_proofs` shows the invariant action by action. Frame lemmas say what
is left alone, effect lemmas what the two transactions and the row updates do
(`CreateEffect`, `SoftDeleteEffect`, `RowWrites`), and `ProcessorStep` and
`WorkerMoves` reduce each step of the worker to the few facts that matter.

`GophProfile_claims` adds `ClaimInv`: a live avatar that somebody works on is
`processing` in the table with a fresh claim, and has one holder. It is needed
because `CompleteProcessing` and `FailProcessing` look at no status: only the
claim stands between a late failure and a completed row. Its one condition, that
nobody holds a claim for two minutes, is exactly what `slow_claim` violates.

`GophProfile_deletes` builds on both. `Owed(a)` is what the delete event of an avatar
names, without the thumbnails if claims may lapse, and `DeleteInv` follows it from
the outbox to the bucket: every delete event names the original, every message is a
copy of its event, the delete consumer commits only when nothing of what is owed is
left, `FlushOutbox` marks an event only when its message is in the topic or has done
its work, and what is left is on its way. The condition leaves out the failures that
make `consume` drop a message: `delete_on_stop` shows what happens under `stop`.
Failures of the object store are let in as long as `withRetry` has more attempts than
there are failures, as in the run `removal`. `AttemptsCounted` says why that is
enough: every attempt but the first has spent a failure, so that a failed
`RemoveObject` always finds an attempt left, which starts with all keys again.

For the thumbnails this is not inductive, since a `processUpload` that is still at
work could store one again after its removal. `SettledInv` excludes it: a live row
names thumbnails only when it is completed, so a deletion that read thumbnails read a
completed row; by `ClaimInv` nobody works on a completed avatar, and nobody starts to
work on a deleted one (`NoClaimOnDeleted`). This needs claims that do not lapse, and
TLC finds a violation of `DeletionComplete` when `slow` is among the failures.
`WholeInv` adds that a row names all thumbnails or none, so that an event names the
original only, or everything. Hence `OnlySnapshotsLeave`: in a system that drops
nothing, `stale_snapshot` is the only way to leave an object behind.

`GophProfile_requests` is about what requests leave behind. Each step is one of three
to the gauge (`UsageStep`): it leaves the live avatars and the gauge alone, or adds
one avatar and one image, or removes one of each; a transaction that is committed
and reported as failed changes the avatars and not the gauge, and spends a failure.
`UsageInv` follows with the library's facts about adding and removing an element;
that the second of two deletions is not counted is `Deletable` in `DeleteSoft`. A crash
is left out because the gauge then starts at zero with the rows still there. With
`UploadsCompensated` the same module shows that the compensation of `upload` covers
every failure of its transaction; the run `cancelled` shows that its condition on
cancelled requests cannot be dropped.

`GophProfile_refinement` takes `SafetyInv` and the fact that an uploading request has
a user. Each action is mapped to an abstract step or a stutter. The steps that need
the invariant are the ones that touch two stores: a completion is `MakeReady` because
`ProcessorInv` says that the thumbnails are in the bucket; the compensation is
`Withdraw` because `RequestInv` says that its avatar is not acknowledged; a removal by
the delete consumer is `Clear` because `WorkInv` says that its avatar is deleted.
`Promise` is what every step of `AvatarLifecycle` keeps (`LifecycleKeepsPromise`), and
through the refinement every step of the system does (`LifeOfAnAvatar`).

`Deployment_proofs` proves `DeploymentInv`. `BootInv` ties each program counter to
what it rests on: between lock and unlock the process has the lock, all versions
before the one it is at are recorded, the one it applies is not, and from the unlock
on, unless `Up` failed, all are; after `EnsureBucket` there is a bucket. Two
processes at work would contradict the first part, and that is what keeps the second
true under the steps of others. A process whose session is lost is at `"lost"`, where
it has no lock and can write nothing: its one connection was that session. `HealthInv` says that the channel holds a result of
every goroutine that is done, and that an answer of 200 is that of a running server.

`Api_proofs` proves `ApiInv`: the stored object is the file that was sent, whole,
within the limits, of the type in the row and readable by `Inspect`, and a row that
the worker has treated is failed, completed or in processing as its pixels cannot be
read, can be read and resized, or can be read and not resized. The arithmetic is `PixelsChecked`: the bounds
on the sides keep the product below the square of MaxPixels, where `Wrap` is the
identity.

`Api_images` extends it to `ImagesInv`, about the images that are served. `ObjectsInv`
says that every object of an avatar is labelled with the type of its bytes, and that
the thumbnails a row lists are there, made of the file that was sent; without it
nothing is known of the bytes a GET finds. `CopyInv` says that a client's copy is what
its ETag was computed of, which is what a 304 rests on. Lemmas first say what the
operators compute (`ThumbnailIs`, `ConvertIs`, `ObjectIs`, `FetchIs`), then that the
URL determines the avatar (`TargetMeant`; that a user with live avatars has a latest
one comes from the library's theorem on minimal elements), and `ImageRight`,
`RefusalRight` and `ImageAnswered` treat the answer to a GET by its status.

Checked by TLC only: the liveness properties (`EventuallyCompleted`,
`EventuallyRemoved`, `EventuallyRunning`, `ProbeAnswered`), since liveness under
fairness is out of this prover's reach. Every invariant and every action property
of the passing runs is stated by a theorem.

## Not modelled, and why

- Configuration: read once; its values are the constants.
- Logs, traces and the metrics other than `StorageUsage`: the program does not read
  them. The gauge is modelled, and claimed to be right until the server is
  restarted.
- Static pages, security headers, CORS, the layout of JSON: no state. The rate limit
  is a library.
- Control characters and lengths in user ids: `ValidateUserID` refuses `BadUser` and
  accepts all others.
- Copies that a client or a proxy keeps for the `max-age` of a day: no request comes.
- More than one worker. The deployment has one replica; two of them during a
  rolling update would be a third and fourth caller of `processUpload`, and the
  claim does not tell callers apart.
- Retention and partition count in Kafka, `avatar.process` (created, not used),
  messages that do not parse (all are written by `FlushOutbox`).
- Time, except for the two minutes of a claim and the deadline of a probe: backoff
  and the ten seconds of maintenance only slow things down.
- Failures and interleavings within `Api`, whose requests come one at a time:
  `GophProfile` has them, for images of one bit; it has no image that kills the worker
  every time it is processed, which is in `Api` alone.

## Plan

The three systems above are modelled and checked, and every safety property of the
passing runs has a theorem, with a condition on the failures where a run shows that
one is needed. What could follow:

1. A second worker, as during a rolling update: two more callers of `processUpload`.
   `ClaimInv` does not depend on their number, `WorkInv` does for the message that a
   consumer holds.
2. The liveness properties, should a prover for fairness become available: the
   invariants they rest on are proved.
