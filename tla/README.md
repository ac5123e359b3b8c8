# A verification model of the homelab PostgreSQL operator

The operator watches two kinds of Kubernetes resources. A `PostgresCluster` names a PostgreSQL
server that already exists and the credentials of its administrator. A `PostgresDatabase` asks for a
database and a user on such a server. This directory holds TLA+ modules that model the operator,
configurations that check them with TLC, and proofs checked by TLAPS.

## The system

| Part | State it keeps | Operations | Modelled by |
| --- | --- | --- | --- |
| `PostgresDatabase` controller, `internal/controller/postgresdatabase_controller.go` | nothing of its own but the copy a run works on; the resource's finalizer, conditions, phase and connection; the connection secret; a role and a database on the server | `Reconcile` and what it calls, `handleDeletion` and what it calls | `DatabaseController` |
| `PostgresCluster` controller, `internal/controller/postgrescluster_controller.go` | conditions, phase and admin connection of the resource | `Reconcile`, `resolveStringOrSecret`, `testConnection`, `updateStatus` | `ClusterController` |
| Ownership repair, `transferObjectOwnership` | the owners of the objects in schema `public` | list, then one transaction for each object, under a lock timeout and a deadline | `OwnershipRepair`; one step of `DatabaseController` |
| Manager, `cmd/main.go` | the work queues, the informers' cache | start, restart, leader election | `Operator`; the queue, the cache and the restart are part of both controllers' modules |
| API types, `api/v1` | | defaults and validation | the fields the controllers read and write |
| Release pipeline, `scripts/release_check.py`, `.github/workflows` | reserved versions (tags), published images, releases and charts | check, publish, check again; run a job again | `ReleasePipeline` |
| Helm chart, CRDs, kustomize, tests, development environment | | | not modelled: no state that changes at run time |

How they interact. The controllers never call each other. The database controller reads the
`PostgresCluster` and its admin secret through the manager's cache and refuses to go on until the
cluster's `Ready` condition is True. It watches `PostgresDatabase` resources and the secrets they
control, *not* the clusters nor the admin secrets. Everything it does to Kubernetes is a request to
the API server, which refuses an update of a version that is not the stored one and tells the
informer of each new version some time later. Everything it does to PostgreSQL is a statement on a
connection opened in this run.

What is hard. One worker runs one key at a time, so there is no data race in the process; the
concurrency is with everything outside: the informer's cache lags behind the store, users delete and
recreate the resource in the middle of a run, Kubernetes collects a secret whose owner is gone, the
process dies between any two calls, a call fails, or takes effect and its reply is lost. The whole
design rests on two things that a unit test with a fake client does not exercise: optimistic
concurrency on the resource (the update that adds the finalizer must succeed before PostgreSQL is
touched) and `Create` refusing a second secret (the password is generated before anybody knows
whether a secret exists).

What must hold, by component:

* database controller: nothing is made for a resource that could vanish without cleanup; a live
  resource never loses its finalizer to a stale run; Ready is never ahead of the work; when all is
  quiet the work is done; a working password is never taken away; the work ends; a deletion ends;
* cluster controller: a Ready status speaks of the spec it is stored with; a failure is tested
  again, although nothing outside is watched; a loss is noticed in the end;
* ownership repair: success is not reported over an object that was listed and is not the
  application's; the application is never held up for long nor made the victim of a deadlock; a
  repair that runs again and again beside a migrating application ends;
* both together: a database waits for its cluster and is not forgotten, and follows it to another
  server;
* release pipeline: a published version never changes, is of one commit and comes in order; no
  deployment loses what was published before; a publication that stops halfway, although nothing
  failed, can be resumed, unless a newer version is on its way.

The hazards, each at its line with the properties aimed at it, are listed in `PROJECT.json`.

## Modules

| Module | What it is |
| --- | --- |
| `ResourceLifecycle` | the abstract specification: what the finalizer promises. A resource is absent, plain, guarded (it carries the finalizer) or terminating. |
| `DatabaseController` | the controller for one resource key, its properties, its inductive invariant and the refinement mapping to `ResourceLifecycle` |
| `MCDatabaseController` | the values TLC's configurations use |
| `DatabaseControllerProofs` | type correctness, the inductive invariant of the finalizer, the safety theorems that rest on it, and that the controller implements the safety part of `ResourceLifecycle` |
| `ProvisioningProofs`, `ServingProofs` | the invariants of the password, of what Ready promises and of what is done at rest, and a theorem for each |
| `ClusterController`, `MCClusterController`, `ClusterControllerProofs` | the same for the other controller |
| `OwnershipRepair`, `MCOwnershipRepair`, `OwnershipRepairProofs` | `transferObjectOwnership` beside the sessions of an application |
| `Operator`, `MCOperator`, `OperatorProofs` | both controllers in one process, over one cache: an instance of each, of its theorems too |
| `ReleasePipeline`, `MCReleasePipeline`, `ReleasePipelineProofs` | the publication of versions, for itself |
| `Streams` | lemmas on the sequences both controllers' modules model the informer with |

### DatabaseController and the code

State.

* `resource` is a sequence of versions of the resource. The last one is what the API server stores,
  the first one what the cached client reads, and the ones between have not been delivered. A write
  appends, `DeliverResource` drops the first. `secrets` is the same for the connection secret. `uid`
  tells the incarnations of the resource apart; 0 stands for "not there".
* `server[h]` is what PostgreSQL server `h` holds for this resource: the role's password, the
  database's owner, whether the role has the privileges, whether it owns the objects in `public`.
* `queued` is the key's place in the work queue. Controller-runtime's queue holds a key once and
  hands it to one worker at a time; a key added during a run is run again afterwards.
* `pc`, `copy`, `pw`, `existed`, `target` are the program counter and the locals of `Reconcile`
  (`postgresDatabase`, `dbUserPassword`, `userExists`, `pgHost`). `fresh` says that the copy's
  resourceVersion is the stored one; it is what the API server compares.
* `cluster`, `config`, `host` are the `PostgresCluster`, the outcome of resolving its connection
  details, and the host they name, all as the cache has them. The controller only ever reads them
  from the cache, so the delay between the store and the cache is the time at which `ChangeCluster`,
  `ChangeConfig` and `ChangeHost` happen.
* `uids` and `budget` count incarnations and disruptions, to bound the behaviours. `retired` says
  that a connection secret has been deleted; only a property reads it.

Actions. Each call to the API server or to PostgreSQL that may change something is an action, with
everything the code does before the next call: `StartProvisioning`, `FetchAndValidateCluster`,
`ResolveClusterConnection`, `EnsureFinalizer`, `ConnectToDatabase`, `EnsureConnectionSecret`, the
statements of `createDatabaseAndUser`, `UpdateStatus`; `StartDeletion`, `Lookup`, `ReportDeletion`,
`DropDatabaseAndUser`, `Refetch`, `RemoveFinalizer`; and `Report`, the `Status().Update` that every
error path makes before it returns. Two groups of statements are one action: the GRANTs, which are
repeated as a whole by every run and count for a property only together, and
`transferObjectOwnership`.

Details of the code that matter and are easily lost, all in the model:

* A failed run reports the conditions *it* changed. `Ready` is only ever set by `updateStatus` and
  by a failed repair. `PhaseOf` is computed from the conditions, so it keeps saying Ready.
* `ensureFinalizer` decodes the API server's reply into the copy: when the stored status is not
  empty it replaces the conditions this run has already set (`Decoded`).
* `ALTER USER` and `ALTER DATABASE … OWNER` are not critical: their errors are logged.
* `CREATE USER` and `CREATE DATABASE` are always tried, and "already exists" is one error out of
  many: any other ends the run, also where the role or the database exists (`FindUser`,
  `FindDatabase`).
* When the database exists but the role did not, the owner is not altered in this run
  (`NextAfterFoundDatabase`); the event of the run's own status write brings the run that does.
* `handleDeletion` removes the finalizer whatever happened before, and writes the status first if
  the admin secret cannot be used. The second read of the resource goes through the same cache.
* A status write that changes nothing makes no version and no event. Whether it changes nothing
  depends on the clock: `setCondition` moves `lastTransitionTime`, which has a resolution of a
  second. `Store` leaves both outcomes open.

What the model leaves out. Names of databases and roles, the port, the admin's user and password
(their failures are `config` and `sqlError`); foreign finalizers; a connection secret made by
somebody else; changes of the spec (policy and names are fixed when the resource is created);
messages, reasons and times of conditions; other resources on the same server.

### ClusterController and the code

State. `resource` is a sequence of versions as above; the status is written through it.
`adminSecret` is the secret the spec may refer to, as cached, with one field for the host and one
for the administrator's name and password, which come and go together here. The code reads it once
for every field, so it may change between two reads. `up` are the servers that accept their
administrator. `retry` is a key waiting for its `RequeueAfter` of 30 s; `queued` is as above, and
errors and `Requeue` put the key back at once. `pc`, `copy`, `fresh` are as above; `target` and
`password` are the values resolved, the password as the server it is right for.

Actions. `ResolveHost` and `ResolvePassword` are the calls of `resolveStringOrSecret`: a missing
secret makes the run start again, a missing key or an empty spec is an error, and neither leaves
anything in the status (`Unresolved`). An empty value does: `ConfigurationValid` becomes False,
`Report` writes it. `TestConnection` opens and pings. `UpdateStatus` is `updateStatus` with its
write; a `Ready` that is True also fills in the admin connection. When the write succeeds the run
ends, with a `RequeueAfter` unless the connection worked; a conflict or any other error of the write
puts the key back. The environment is that of `DatabaseController`, with `Resync` in addition: the
informer's periodic resync queues a key nothing has happened to.

What this model leaves out: the port, names and namespaces of secrets, a user of one server with the
password of another, messages and times of conditions; the deletion of a cluster. The controller
puts no finalizer on it, so a cluster that somebody deletes is gone unless a finalizer of somebody
else keeps it; only then does the phase Deleting occur, which `PhaseOf` leaves out.

### OwnershipRepair and the code

`List` is the catalog query, read to its end; `statements` and `i` are the slice and the loop.
`Begin` is `BeginTx`, `SET LOCAL lock_timeout` and the statement up to its first lock, `Alter` what
it does once it has the lock, `Commit` the commit, whose reply may be lost. `Expire` is the lock
timeout or the deadline, `Break` any other error or the end of the process; both are a `Fail`: locks
and the request go, the run ends and `Reconcile` runs again. Time passes in ticks, and only while
the repair waits or is not running: statements are assumed to be quick, waiting is not.

What the code relies on is PostgreSQL's: locks are held to the end of a transaction and granted in
the order of the requests, so that a reader queues behind the repair's request although it does not
conflict with what is held. A sequence linked to a table (serial or identity column) has its table's
owner (`Root`); `ALTER TABLE … OWNER` locks the table's sequences one after the other and takes them
along (`StillToLock`), and `ALTER SEQUENCE … OWNER` of such a sequence is refused unless it would
change nothing (`Refused`). Sessions lock relations in any order, in a mode that admits readers or
not, keep them as long as they like, and may drop what they have locked; relations are made again
under the same name, by the application or by somebody else.

What this model leaves out: views, functions, types and domains; lock upgrades within a session's
transaction; foreign changes of owners. One consequence of the list being old is visible in the
model but stated by no property: a linked sequence whose table was altered first is locked once more
although it is the application's by then.

`SettledTakesNoLocks` takes the names to fit PostgreSQL's 63 bytes. A longer one is truncated by
PostgreSQL and compared untruncated by the query, so that no object is ever the user's: the
property's seeded fault (`NeverOwned`) is what the code then does.

### Operator and the code

`Operator` instantiates both controllers' modules and adds what connects them. The database
controller's `cluster`, `config` and `host`, which are left to chance in its own runs, are what the
cache holds of the one `PostgresCluster` (`ClusterSeen`: `isClusterReady`) and of its admin secret
(`ConfigSeen`, `HostSeen`: `resolveClusterConnection`). Each controller has a worker of its own, so
their steps interleave; they share the cached secret, the servers and the process, whose end is the
end of both (`Restart`). A statement that meets a server that is gone fails as the code's error path
has it (`Unreachable`). The same step stands for a connection that is refused because the password
was read from a later version of the secret than the host: the cluster controller's module has the
reads one by one, the database controller's has them in one step.

Users create each resource once; deletions are checked in the controllers' own runs. The informers'
resync comes when a controller is at rest.

### ReleasePipeline and the code

State. `tags` are the version tags of the mirror. `images`, `releases` and `charts` say which run
published them for each version, 0 none. `run` are the runs of the two workflows, in the order in
which they came: the job they are at, how far it is, the version and commit they are for, and the
charts a run of `pages` has downloaded. `withdrawn` are the versions whose tag was deleted at some
time; only properties read it.

Actions. A run that is `queued` starts (`Start`) when no other of its concurrency group is in
progress; the next one to come cancels it (`Displaced`: GitHub keeps one waiting). `Check` and
`Refuse` are `release_check.py` with the stage's name: `CheckSource` (`check_source`, and the test
of ancestry in the workflow), `CheckVersion` (`check_version` over the other tags and the published
charts, which must not be empty) and `CheckArtifacts`. Every job starts with it. `PushImage`,
`CreateRelease` and `DeployPages` publish; the reply may be lost. `DownloadCharts` reads the
history, `DeployPages` replaces the whole site by it and the new chart. People push, move and delete
tags and run jobs again, from any job that was reached.

Every run of Release that ends, however it ends, starts a run of Publish Helm Repository in the same
step, since `workflow_run: completed` asks for no conclusion. After a success it is a run with a
version (`CreateRelease`). After a failure, a refusal or a cancellation, or for a branch or a pull
request (`OtherRunEnds`), its first job is skipped, but only once it has its turn in the concurrency
group: until then it waits like any other, and cancels the one that waited. Such a run is `Idle`; it
is no element of `run`, `WithIdle` is what its coming does to the others, and `Notified` applies it
where a run of Release ends. `OtherRunEnds` may happen at any time and any number of times. It is no
disruption: every push to a branch causes it.

What this model leaves out: the plan and `--check-source` modes of the script, which publish
nothing; the contents of artifacts and how they are built; tags that are no canonical versions;
workflow files of old commits; lookups that are wrong (a chart index served stale by the CDN). A
lookup that fails, and an artifact that does not become visible in time (`require_visible`), is
`Break`.

Definitions marked "seeded fault" are not part of the specification. Each is a plausible wrong
version of the definition it stands before, kept to show that the properties notice it: with the
faulty definition in place of the right one, TLC finds the property violated.

## Runs

`MCCluster` is an instance of `MCClusterController`, `MCOwnership` and `MCSerialSequence` of
`MCOwnershipRepair`, `MCOperator` and `MCRelease` of `MCOperator` and `MCReleasePipeline`, the
others of `MCDatabaseController`. `CHECK_DEADLOCK FALSE` is set because the systems may stop: with
the resource deleted, the incarnations used up and nothing disrupted any more there is nothing left
to do.

| Run | Instance | Shows |
| --- | --- | --- |
| `MCFaults` | two servers that are empty or hold an old database, or an old database and role; 2 incarnations; informer up to 2 versions behind; 2 disruptions out of failed and lost calls, a secret deleted by hand, an admin secret that moves to the other server, resyncs, crashes | `TypeOK`, `GuardedWhileProvisioning`, `DeletionSparesLive`, `ReadyIsProvisioned`, `RestIsServed`, `RestIsReleased`, `WorkingPasswordKept` |
| `MCProgress` | an empty server or an old database, both policies, 2 incarnations; informer up to 1 version behind; one disruption of any kind: failures, lost replies, crashes, a deleted secret, a cluster and an admin secret that come and go, or are invalid | `Converges`, `DeletionCompletes`, `ImplementsLifecycle`: the refinement, with the liveness of `Release` |
| `MCDeletePolicy`, `MCReadyCondition`, `MCHostChange`, `MCSwallowedAlter` | the smallest instance in which it happens | violations, see below |
| `MCCluster` | two servers, a spec that is a host, a reference or empty, any secret; 2 generations; informer up to 1 version behind; 2 disruptions out of failed and lost calls, crashes, changes of the secret and of the servers | `TypeOK`, `ReadySpeaksOfSpec`, `RestIsReady`; `BecomesReady`, without any resync; `FollowsSecret`, `NoticesLoss`, `EmptyIsReported`, with the resync |
| `MCOperator` | a cluster that refers to a secret, a database that refers to the cluster; two servers, both up or both down at first; one disruption: the secret appears, goes or names the other server, a server fails or recovers, the process crashes | `TypeOK`, `RestIsDone`; `ServedThroughCluster`, without any resync; `MoveTogether`, with both |
| `MCOwnership` | a table with a serial column and a sequence of its own, in the order that lets the repair succeed; two sessions with 2 transactions, of any number of locks; a lock timeout of 1 tick and a deadline of 3; one failed call | `TypeOK`, `RestIsOwned`, `NoWaitCycle`, `BriefBlocking`, `RepairCompletes`, `SettledTakesNoLocks` |
| `MCSerialSequence` | the serial column alone, its sequence listed first, nobody else about | a violation, see below |
| `MCRelease` | 3 versions, the first published; 2 commits of main and one of a branch; 5 runs; 2 disruptions out of failed and lost calls, tags moved and deleted, jobs run again; runs of other branches at any time | `TypeOK`, `OneCommit`, `HalfwayIsResumable`, `ArtifactsFinal`, `HistoryKept`, `ChartsInOrder`, `MovingTagsForward` |
| `MCHalfway` | the same without any disruption | a violation of `NeverHalfway`, see below |

The properties, in words:

* `GuardedWhileProvisioning`: while a run works on PostgreSQL or on the secret, the incarnation it
  works for is stored and has the finalizer.
* `DeletionSparesLive`: no step of `handleDeletion` runs while the stored resource is guarded and
  not deleted.
* `ReadyIsProvisioned`: what a Ready resource promises is on the server its status names.
* `RestIsServed`, `RestIsReleased`: when nothing runs, is queued, undelivered or waiting for the
  garbage collector, a live resource is served completely, and of a deleted one nothing is left in
  Kubernetes.
* `WorkingPasswordKept`: unless a secret was deleted before, no step changes the role's password
  while it is the one in the secret.
* `Converges`, `DeletionCompletes`: the liveness counterparts.
* `ReadySpeaksOfSpec`: a Ready status of the stored generation names the host of the stored spec.
  Nobody can take the result for an older spec for that of the newer one.
* `RestIsReady`: when nothing runs, is queued, delayed or undelivered, the cluster is Ready with a
  connection, for the generation that is stored. Whatever else a run finds, it leaves something
  behind that runs it again.
* `BecomesReady`: a cluster whose details are right and whose server is up becomes Ready and stays
  so, although neither the secret nor the server is watched.
* `FollowsSecret`, `NoticesLoss`: if the informer resyncs, the admin connection follows a secret
  that names another server, and a cluster whose server is gone stops being Ready.
* `RestIsOwned`: a repair that has reported success, and is not to run again, has left nothing that
  belongs to somebody else but what was made after it had read the list.
* `NoWaitCycle`: the repair never waits for a session that waits for it, so it never makes a session
  the victim of a deadlock; the exception is one `ALTER TABLE` of a table with sequences of its own.
* `BriefBlocking`: a session that nobody but the repair stands in the way of is kept no longer than
  the lock timeouts of one statement, although the repair may itself be waiting for another
  session's endless transaction.
* `RepairCompletes`: once the application's transactions have ended, everything becomes the
  application's.
* `SettledTakesNoLocks`: once it is, no later reconcile takes or requests a lock, however often it
  runs.
* `EmptyIsReported`: an empty value in the admin secret that stays is reported for good.
* `RestIsDone`: neither controller comes to rest with its work undone, although nobody tells the one
  what the other has written.
* `ServedThroughCluster`: once the admin secret is right and the server up, the cluster becomes
  Ready and the database is served, without a resync: the two never wait for each other for ever.
* `MoveTogether`: if the informers resync, an admin secret that names another server takes both
  resources there.
* `OneCommit`: image, release and chart of a version are of one commit, whatever happens to its tag.
* `ArtifactsFinal`: no image and no release is published a second time, not even after a lost reply.
* `HistoryKept`: no deployment of the site loses or replaces a chart.
* `ChartsInOrder`, `MovingTagsForward`: no chart, and no image (hence no moving tag), is published
  after that of a newer version; for images, unless the newer one's tag was deleted.
* `NeverHalfway`: without disruptions, when nothing runs or waits, a version with an image has its
  release and chart, unless a newer tag was pushed meanwhile. The workflows do not keep it.
* `HalfwayIsResumable`: what they keep instead. A version that is left halfway has its release, and
  it has a run of Publish Helm that was cancelled while it waited and that would pass the check if
  somebody started it again. Nothing else is lost, and nothing has to be undone.

### Bounds

`MaxUid` is the number of incarnations. Two are needed for every confusion of an old with a new
resource, and a third adds no kind of confusion: a run holds one copy, of one older incarnation.
`MaxLag` is the number of versions the informer may be behind; two make a cached version that is
neither the stored one nor its predecessor. It is a bound on the informer, not on the code: a write
waits for a delivery when it is reached, so an execution that needs a longer lag is not checked by
TLC; the theorems hold for every lag. The lag matters once: with three versions, the cache may still
hold a secret that was deleted and has been made anew, and a run sets the old password on a role
that has the new one already. The delivery of the new secret queues the run that corrects it. This
is why `WorkingPasswordKept` speaks of histories without a deleted secret (`retired`); the premise
was found with `MaxLag = 3`, and the theorems then showed that it is enough, and that the controller
does not come to rest with the wrong password (`ServesAtRest`). `MaxDisruptions` is the number of
disruptions; two make a failure during the recovery from another. `Passwords` has as many values as
can be in use at the same time (role, secrets in the stream, the new one); a new password only has
to differ from these. In `MCOperator` one password is enough, since nothing deletes the connection
secret. The secret names `h1` if it names a server at first, the servers being alike, and they are
up or down together at first. In `MCRelease` the third version makes one that is older and one that
is newer than the one in work; five runs are one for each new version, one of each workflow's
second, and one run again. Version 1 is published at the start because the check refuses an empty
chart history. In `OwnershipRepair`, two sessions make the case of one queued behind the repair that
waits for the other, and two transactions a relation that is dropped and made again. A deadline of 3
ticks lies beyond the 2 lock timeouts that the longest statement may wait, which is what
`BriefBlocking` has to tell apart; the true ratio is 15.

### Fairness

`WF(Reconcile)`: a worker of controller-runtime runs what is queued, and each call returns. Errors
and `Requeue` put the key back, with a delay that grows to 1000 s but ends. `WF(DeliverResource)`,
`WF(DeliverSecret)`: a watch delivers what happened (`Deliver` in `ClusterController`).
`WF(RetryDue)`: a delay passes. `WF(CollectGarbage)`: the garbage collector of Kubernetes runs.
Nothing is assumed of users, failures, the cluster or the admin secret; disruptions are finite
because they are bounded.

`WF(Resync)` is assumed by five properties only, as their premise: those that say what a Ready
cluster or database does when something unwatched changes (`FollowsSecret`, `NoticesLoss`,
`EmptyIsReported`, `MoveTogether`), and `RepairCompletes`, since relations made after a repair are
seen by the next run only. Controller-runtime's default period is ten hours; `cmd/main.go` sets
none. `Spec` does without it, so no other property rests on it. `OwnershipRepair` assumes that the
operator runs, that PostgreSQL grants what it can and that time passes; nothing of the sessions,
whose transactions may stay open for ever.

`Operator` assumes of each controller what its own module does. `ReleasePipeline` states no
fairness: nobody promises that a run ends, and its properties are about what a step may do.

`DeletionCompletes`, and the liveness half of `ImplementsLifecycle`, have a premise, `CanRelease`:
that in the end the admin secret is neither missing nor empty, or that the informer keeps up. With
such a secret each deletion run writes the status and then removes the finalizer with a copy that
may be older than its own write, read again from the same cache, conflicts, and tries again. In the
code this ends when the informer is quicker than the run (`InformerKeepsUp`) or when the write
changes nothing because it falls into the same second as the last one; neither is something weak
fairness gives, and without the premise TLC finds the run that goes on for ever.

### Where the code differs from what is said of it

* `MCDeletePolicy`: `DROP DATABASE` is run inside a transaction, which PostgreSQL refuses; reclaim
  policy Delete drops neither database nor user, and the error is only logged. README.md says they
  are deleted.
* `MCReadyCondition`: after a run that fails, `Ready` stays True and the phase Ready beside a
  condition that is False (the cluster controller does the same when a value of its admin secret
  becomes empty); the phase's comment says "ready and operational", and the end-to-end test looks
  for exactly such a condition.
* `MCHostChange`: the connection secret keeps the old host for good; a comment says the secret is
  updated.
* `MCSwallowedAlter`: after a failed `ALTER USER` the resource becomes Ready although the password
  in the secret does not work; the comment says the statement ensures that they match.
* `MCSerialSequence`: when the sequence of a serial column is listed before its table, every run
  fails at the same statement; README.md says that sequences are repaired and that a failure is
  retried.
* `MCHalfway`: a released version stays without its chart although nothing fails and no newer tag
  comes. Its run of Publish Helm waits for the deployment of the version before when any run of
  Release ends; the run of Publish Helm that this makes has nothing to do, but enters the group
  before its job's condition is looked at and cancels the one that waits. In TLC's trace a run of a
  branch ends; a tag that is refused does the same (version 2 is being deployed, version 4 waits,
  the tag of version 3 is pushed late and refused). The comment on the group in `release.yml` says
  that a publication is never interrupted halfway through. `docs/releases.md` asks people to wait
  for the previous publication before they push a tag, which makes it rare, but nobody waits with a
  push to a branch. `HalfwayIsResumable` says how to get out of it: start the cancelled run again.

One more needs no model to be seen and has no run: the connection secret is controlled by the
resource whatever the reclaim policy (`CollectGarbage` collects it), while README.md says that with
Retain it is retained.

## Proofs

`DatabaseControllerProofs` proves, for every value of the constants:

1. `TypeCorrect`: `Spec => []TypeOK`. One step per action; lemmas say what appending to and
   shortening a stream does to its elements and to `Stored` and `Cached`.
2. `GuardInvariant`: `Spec => []GuardInv`. `GuardedWhileProvisioning` and `DeletionSparesLive` are
   not inductive: whether a run may pass `EnsureFinalizer` depends on how its copy relates to what
   is stored, and the copies a later run takes depend on what is still in the informer's stream.
   `HistoryInv` says of the stream that a guarded version that is not deleted, however old, is of
   the stored incarnation, which still has the finalizer, and that no such version follows a deleted
   one. `RunInv` says of the worker's copy what it implies by where the worker is. The reason it is
   inductive is the finalizer itself: once a version is guarded, only `RemoveFinalizer` ends the
   incarnation, which needs a fresh copy of a deleted version, and by then nothing guarded is left
   in the stream.
3. `ProvisionsGuardedOnly` and `SparesLive`: the two properties, from 2.
4. `ReleasesAtRest`: `RestIsReleased`, from `ReleaseInv`. A deleted version that the informer shows
   has its key queued, or a run of `handleDeletion` is at it; every way out of that run that does
   not remove the finalizer either queues the key or leaves a version that is not delivered yet.
5. `RefinesLifecycle`: every step of the controller is a step of `ResourceLifecycle` or leaves the
   stage and the servers alone, from 2.

`ProvisioningProofs` proves `KeepsWorkingPassword` and `ReadyMeansProvisioned`. The first rests on
`PasswordInv`: as long as no secret was deleted, a password that a run is about to set is the stored
secret's, because it was read from a cache that holds this secret or none, or because `Create`
succeeded. The second rests on `ProvisionedInv`: what the statements before the present one have
done is still done on the run's server (`StatementsDone`), a copy that says Ready, and every version
in the stream that does, was provisioned on the server it names (`ReadyTold`, `VersionsTold`), and
nothing undoes it, since the cleanup of a deletion never takes effect.

`ServingProofs` proves `ServesAtRest`, that a controller at rest has served its live resource, from
`ServeInv` on top of the other invariants. At rest nothing is undelivered or queued, so the last
thing that happened was a run that worked on current copies and whose status write changed nothing:
any other end of a run leaves a version or a queued key. Hence the invariant is about runs with
nothing undelivered or queued only (`ConditionsDone`, `SecretDone`, `RoleDone`): by the time such a
run has reached a step, everything before that step is done. The last conjunct of `RoleDone` is why
the owner of a database that existed before its role is right in the end: a run that creates the
role and finds the database does not alter its owner, and it cannot be the last one. The theorem has
a premise: no `ALTER` fails unnoticed (`alterError` is no disruption of the instance). Without it,
it is false, which is what `MCSwallowedAlter` shows.

`ClusterControllerProofs` proves `TypeCorrect`, and `RestsReady` and `SpeaksOfStoredSpec` from one
inductive invariant, `RestInv`. `RestIsReady` alone is not inductive: the last write of a run makes
the stored resource Ready, and for it to be Ready for what is stored the run's copy must agree with
it in generation and spec (`RunInv`, which is about copies that are not stale, since the API server
refuses the others), and the host must be the one the copy's spec gives. `ReadySpeaksOfSpec` needs
`ObservedInv` in addition: a change of the spec must make the observed generation an old one, so no
status may ever be ahead of its generation. The invariant needs no bound on the lag: what `Quiet`
demands of the stream, length 1, is the only thing that relates cache and store.

`ReleasePipelineProofs` proves all properties that `MCRelease` checks. All but `HalfwayIsResumable`
come from one inductive invariant, `PipelineInvariant`. The properties say what a step may publish;
that a check made some steps ago still holds at the publication is what has to be carried along
(`CheckedInv`). It does because the runs of a group exclude each other (`ExclusionInv`), so that
nobody else publishes what this run has found missing, and because what the check demands of other
versions only ever becomes false by a publication of the same group, or by a tag that was deleted,
which `withdrawn` remembers. `LineageInv` says that a run that has reached a job has found its
predecessors' artifacts, of its own commit; it is what makes a job that is run again no different
from the first. `Moves` and `MoveKeeps` prove once what a step that only moves a run does,
`EnqueueKeeps` what a new run does to those that wait.

`LeftHalfwayIsResumable` proves `HalfwayIsResumable`, which speaks of pipelines that nobody has
disturbed, from a second invariant, `UndisturbedInv`, which holds as long as the budget of
disruptions is untouched. Ends of other runs and refused tags do not touch it. Its heart is
`CarriedInv`: a version with an image is complete, or a newer tag has come, or a run carries the
version on: one that is in progress, or that waits for Publish Helm, or that was cancelled while it
waited there. For this to survive a step, a job must not fail where nobody disturbed it: the release
job finds no release and a tag that still names its commit, which has been merged
(`UndisturbedRunsInv`); nobody published a newer image in between (`NewestImageInv`); and the chart
is refused only because of a newer chart, whose tag has come. At rest, a run that carries a version
can only be a cancelled one, and `RefusedIsOvertaken` says that it would pass the check, unless the
version is overtaken or has its chart.

`OwnershipRepairProofs` proves the four safety properties of the repair. The first half says what
the lock manager does, once for everybody: a request is granted or queued (`RequestStep`), a
transaction ends (`EndStep`, `CommitStep`), the first of a queue gets its lock (`GrantStep`). Each
leaves what others hold and wait for as it is, and lets nobody before somebody who waits
(`Undisturbed`). On these rest three invariants. `RepairInv`: the repair has and wants locks of one
statement's relations only, and nobody waits for what he holds; `NoWaitCycle` follows. `ListInv`:
what belongs to somebody else is still ahead in the list, or is due to the next run, or was made
after the list; `RestIsOwned` is the case of a repair at rest. `DelayInv`: a session that the repair
alone has held up once can have nobody else before it any more, and its delay is at most the
repair's `Allowance`, the timeouts of the locks it has got in this transaction and the present wait;
`BriefBlocking` follows because one statement has as many locks to get as `LongestWait` counts. The
queue and the list are written without `SelectSeq`, whose recursive definition the provers cannot
unfold: `Without` and `Listings` say the same by what the result is.

`OperatorProofs` proves what the composition does. It instantiates the two controllers' proof
modules with the operator's variables, so what they prove of their steps can be cited for the steps
the operator shares with them (`SameClusterSteps`, `SameDatabaseSteps` say that these are the same,
`ClusterFits`, `DatabaseFits` and `SeenFits` that the constants and what the one controller reads of
the other have the types assumed). What is left are the steps that no controller has alone: the
cluster controller changes what the database controller reads, and spends from the budget that both
share (`WorldMoves`); a run is refused because the server it is connected to is down (`RunFails`,
`AlterSwallowed`); the process ends and both workers with it (`WorkerRestarts`). These lemmas are in
`ServingProofs`, beside the invariants they keep. `ControllersInvariant` then holds for every value
of the constants, and with it `TypeCorrect` and `ControllersKeepTheirPromises`: five invariants of
the two controllers, in the composition. `KeepsWorkingPassword` is the action property.

`RestsDone` proves `RestIsDone`. It needs a premise, as `ServesAtRest` does, and for the same reason:
a server that goes down during a run lets an `ALTER` fail, which is only logged. If the run's server
was down at the `ALTER` and is back at the next statement, the run goes on and succeeds. Whether that
does harm depends on what the `ALTER` would have changed. Hence the two cases of the premise. Either
the servers were empty of what is somebody else's (`FreshServers`): then the role has the secret's
password or none and the database no other owner at all times (`FreshInv`, as no secret is deleted in
`Operator`), and an `ALTER` that is swallowed would have changed nothing. Or no server fails during
a run (`"server"` is no disruption): then a run that is past its connection finds its server there
(`Reached`). Without either the property is false: with servers on which the database exists and
belongs to somebody else, TLC finds a run whose `ALTER DATABASE … OWNER` is refused and forgotten,
and a Ready resource at rest whose role does not own its database. It is the finding of
`MCSwallowedAlter` again, seen from the operator. `MCOperator` begins with empty servers.

The proofs use `ConstantsAssumption`, `ClusterAssumption`, `ReleaseAssumption`, `RepairAssumption`
and `OperatorAssumption` (names of the constants' members, natural bounds, some commit in main,
finitely many relations, each in the catalog, at least one server, admin secrets whose host and
password are of the same server) and nothing else but the premises of `ServesAtRest` and
`RestsDone`.

Every safety invariant and every action property that a run checks is a theorem. Only model-checked
are the liveness properties, which need fairness and ENABLED and are out of the prover's reach:
`BecomesReady`, `FollowsSecret`, `NoticesLoss` and `EmptyIsReported` of the cluster controller;
`Converges`, `DeletionCompletes` and the fairness of `ImplementsLifecycle`; `RepairCompletes` and
`SettledTakesNoLocks`; `ServedThroughCluster` and `MoveTogether`.

## Plan

1. Done: `ResourceLifecycle`, `DatabaseController` with its runs, the inductive invariant, the
   refinement.
2. Done: `ClusterController` with its runs and theorems.
3. Done: `OwnershipRepair` with its runs and theorems.
4. Done: `Operator`, the composition of the two controllers over one cache.
5. Done: `ReleasePipeline` with its runs and theorems.
6. Done: the theorems of `DatabaseController`, one for each safety property.
7. Done: the theorems of `Operator`, from the invariants of its two instances;
   `HalfwayIsResumable` of `ReleasePipeline`.
8. Left: abstract specifications of the repair, in which a statement's relations change hands at
   once, and of the pipeline, in which a version is published in three steps, and that the detailed
   modules implement them.

## Not modelled

* Two `PostgresDatabase` resources that name the same role or database, or whose names PostgreSQL
  truncates to the same. Each run of either sets its own password: nothing in the code keeps them
  apart, and README.md promises each resource its own.
* Changes of a `PostgresDatabase`'s spec: policy and names are read by each run and remembered by
  nothing but the connection secret, which is never rewritten (as `MCHostChange` shows of the host).
* Leader election: one process is taken to be active. Flags, TLS, metrics, probes.
* Views, functions, types and domains in `OwnershipRepair`: what changes their owner waits for
  nobody that works with data.
* Generated code, CRDs, the chart, kustomize, tests and the development environment: no state that
  changes at run time.
