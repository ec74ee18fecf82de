# TLA+ models of Unfathomably BE

Unfathomably BE is a federated social server written in Elixir (a descendant of
Pleroma and Rebased; the OTP application is still `:pleroma`). This directory
holds TLA+ models of its concurrent parts, the TLC runs that check them on small
instances, and TLAPS proofs of what matters most for every instance.

Paths below are relative to `src/lib/pleroma/` unless they start with `src/`.
`PROJECT.json` gives, for every definition of a module, the lines of code it
stands for, and lists the runs, the mutants that show each property can fail,
the hazards and the theorems.

    tlc -config PoolRoutes.cfg MCConnectionPool     # model-check one run
    tlapm PostDeliveryProofs.tla                    # check one module of proofs

1. [The system](#1-the-system) 2. [The modules](#2-the-modules) 3. [The connection
pool](#3-the-connection-pool) 4. [The delivery of a post](#4-the-delivery-of-a-post) 5.
[The health of peers](#5-the-health-of-peers) 6. [Follows](#6-follows) 7. [Likes,
replies, votes and deletion of one
post](#7-likes-replies-votes-and-deletion-of-one-post) 8. [Embedded
posts](#8-embedded-posts) 9. [Where code and documents
disagree](#9-where-code-and-documents-disagree) 10. [Proofs](#10-proofs) 11. [Not
modelled](#11-not-modelled) 12. [Plan](#12-plan)

## 1. The system

PostgreSQL holds the durable state. Oban runs background jobs from a table in the
same database. Phoenix serves client APIs, ActivityPub endpoints and streams; each
request, job and socket is a process of its own. ActivityPub is the canonical
model; Nostr, AT Protocol and diaspora\* are adapters that map into it. The
JavaScript under `src/priv/static` is, but for `embed.js` and a service worker of
five lines, the bundled and minified output of two front ends whose sources are
other repositories; the program of this one is the Elixir under `src/lib`, and
that is what the modules are about.

    API request -> CommonAPI -> Pipeline (validate, MRF, persist, side effects)
                                   |                    |
                                   |                    +-> notifications, streams
                                   v
                         Federator.publish (an Oban job, same transaction)
                                   v
             PublisherWorker "publish" -> one "publish_one" job per inbox
                                   v
               HTTP -> Tesla middleware -> ConnectionPool -> gun -> peer

    peer -> inbox controller -> ReceiverWorker -> Transmogrifier -> Pipeline

### Components

**Gun connection pool** (`gun/connection_pool.ex`, `gun/connection_pool/*`).
State: two `Registry` tables (workers by route, owners of route locks), one
GenServer per connection with a table of client leases and an idle timer, the
DynamicSupervisor's children, at most one reclaimer.
Operations: `get_conn`, `release_conn`, `discard_conn`, stream registration,
idle close, reclaim. Callers are the Tesla adapter and the reverse proxy.
Hard: everything is a snapshot of another process's state; callers die, time out
and race with idle timers and with the reclaimer. Correct when a connection in use
is leased, an HTTP/1 connection has one user, the limit holds, nothing in use is
evicted, and everyone who waits is answered. *Modelled.*

**HTTP client** (`tesla/middleware/connection_pool.ex`, `http/adapter/gun.ex`,
`reverse_proxy/client/tesla.ex`). Takes a connection, registers a stream, and
releases, cancels or discards it on each way out but one (`DropResponse`, section 3).
Correct when every way out gives back what it took. *Modelled as far as it touches the
pool.*

**Outgoing delivery** (`web/federator/publisher.ex`,
`web/activity_pub/publisher.ex`, `workers/publisher_worker.ex`,
`web/common_api.ex`). State: a publish job per activity, a delivery job per
activity, inbox and reachability mark, and the flag `federated` of the activity's
row. Operations: fan-out, delivery, retry, snooze, cancellation with a delete.
Hard: jobs are retried from the start, killed, rescued after a crash, pruned; a
delete runs beside them and decides from what it read earlier. Correct when
nothing is delivered twice or lost, nothing leaves after the delete, and exactly
the posts that peers know are followed by a Delete. *Modelled for posts; sections 4
and 9 say where the code falls short of it.*

**Instance health** (`instances/instance.ex`, `instances/cache.ex`,
`workers/cron/schedule_reachability_worker.ex`, `workers/reachability_worker.ex`).
State: a row per host (`unreachable_since`, backoff, history) and a
`persistent_term` map of unreachable hosts. Deliveries, fetches, probes and
incoming requests read and rewrite both without a lock; a daily job probes.
Correct when a host is cut off only after it has really been silent, and comes
back when it answers. *Modelled: the row in `InstanceHealth`, the map in
`InstanceCache`.*

**Incoming federation** (`workers/receiver_worker.ex`, `web/federator.ex`,
`workers/signature_retry_worker.ex`). State: receiver jobs, unique while
incomplete. Peers repeat and reorder; some errors are retried, some are final.
Correct when an activity has its effect once. *Planned.*

**Pipeline and side effects** (`web/activity_pub/pipeline.ex`,
`side_effects.ex`, `utils.ex`, `object.ex`). One transaction per activity, under
an advisory lock of the object it changes; the object's row holds lists and
counters beside the content and is written as a whole. Correct when what is
counted in the row is what is stored, and a deleted post stays deleted. *Modelled
for likes, undos, replies, votes and the deletion of one post
(`ObjectAggregates`); `PostDelivery` has the Delete as one step.*

**Follow relationships** (`following_relationship.ex`, `user.ex`,
`side_effects.ex`, `workers/followers_synchronization_worker.ex`). State: one row
per pair on each of two servers, the states of the Follow activities. Follow,
Accept, Reject and Undo arrive in any order; a digest of the followers repairs
what differs. Correct when nobody follows without a request and a grant, and both
servers agree. *Modelled for one pair (`FollowRelation`).*

**Embedded posts** (`src/priv/static/embed.js`,
`web/templates/embed/show.html.eex`). A script in a foreign page and a script in
each iframe exchange messages about heights. Correct when no post is cut off by its
iframe, and none sets the height of another one's. *Modelled (`PostEmbed`).*

**Transmogrifier, validators, MRF** rewrite and filter documents without state of
their own. **Object store and fetcher** hold objects and tombstones. *Not
modelled: sequential and per document.*

**User lifecycle** (`user/*`, `workers/delete_worker.ex`): registration,
deactivation, deletion and its long fan-out. *Later candidate.*

**Scheduled and expiring posts, polls, reminders**: a job whose subject may change
before it fires. *Planned.*

**OAuth and streaming** (`web/o_auth/*`, `web/streamer.ex`): codes and tokens
exchanged, refreshed, revoked; sockets bound to a token. Correct when a code is
used once and no stream outlives its token. *Planned.*

**Nostr bridge** (`nostr/*`): a connection process per relay, a manager that keeps
the wanted set connected, deliveries that wait for the relay's OK. *Planned.*

**AT Protocol, diaspora\*, FASP bridges**: sessions, cursors, a second delivery
queue. *Later candidates.*

**Quote and feature authorization**: a request and approval protocol of two
servers, of the shape of a follow. *Later candidate.*

**Notifications, conversations, chats, media, rich media, rate limiter, caches,
configuration, search, web APIs and views, WebFinger, feeds, migrators and other
jobs**: queries, documents and counters kept by the database or by Cachex. *Not
modelled;* `PROJECT.json` says why for each.

## 2. The modules

| module | what it is | builds on |
|---|---|---|
| `PoolWorker` | state of one pool worker and the pure part of its callbacks | |
| `LeaseService` | abstract: what a pool promises to its clients | |
| `ConnectionPool` | clients, workers, registries, supervisor, reclaimer | `PoolWorker`, implements `LeaseService` |
| `MCConnectionPool` | symmetry for TLC | `ConnectionPool` |
| `ConnectionPoolProofs` | type correctness | `ConnectionPool` |
| `ConnectionPoolSafety` | leases, exclusivity, routes, limit, locks, timers, the refinement | `ConnectionPoolProofs` |
| `Outbox` | abstract: what may be sent of a post, and when | |
| `PostDelivery` | one post, its jobs, its deletion, Oban | implements `Outbox` |
| `PostDeliveryProofs` | types, the flag `federated`, nothing after the delete, nothing lost, the refinement | `PostDelivery` |
| `InstanceHealth` | rows of hosts, the processes that write them, the probe | |
| `InstanceHealthProofs` | types, dates and drops against silence | `InstanceHealth` |
| `InstanceLookup` | abstract: what a look-up in the map of hosts promises | |
| `InstanceCache` | the map, its refresh, its writers and readers | implements `InstanceLookup` |
| `InstanceCacheProofs` | types, the refinement | `InstanceCache` |
| `FollowConsent` | abstract: what a follow promises to the two people | |
| `FollowRelation` | one pair on two servers, their messages, the synchronization | implements `FollowConsent` |
| `FollowRelationProofs` | types, the refinement, agreement, no ghost | `FollowRelation` |
| `PostAggregates` | abstract: what the row of a post promises about what it counts | |
| `ObjectAggregates` | one post's row, its cache and the activities that change it | implements `PostAggregates` |
| `MCObjectAggregates` | who likes what, symmetry, the constraint | `ObjectAggregates` |
| `ObjectAggregatesProofs` | types, likes, Undos, tombstone, the refinement | `ObjectAggregates` |
| `PostEmbed` | a foreign page and its iframes | |
| `PostEmbedProofs` | types, no cross-talk, no post cut off | `PostEmbed` |

The modules meet where one component hands something to another.
`InstanceHealth` is written against the promise of `InstanceLookup` (its `Seen`),
which `InstanceCache` is shown to keep. What `PostDelivery` takes from its
environment, a host that is held back, refused or whose mark changes, is what
`InstanceHealth` does; what a delivery does with a connection is a client of
`ConnectionPool`, and sees of it what `LeaseService` says.

A definition `Mut<Name>` is the definition `<Name>` with a plausible mistake in it.
It is used nowhere; replacing the body of `<Name>` by it makes TLC violate the
property `PROJECT.json` names, which shows that the property depends on that line
of the code.

## 3. The connection pool

### State

| variable | code |
|---|---|
| `pc`, `route`, `todo`, `opening`, `target` | where a client is in `get_conn`, its key, and the Registry snapshot it still works through (workers with a connection, workers registered with `nil`) |
| `conn`, `stream` | the connection and stream its request uses |
| `inbox` | `{:conn_pid, _}` messages sent to it and not received |
| `watch` | what its monitor of the reclaimer has delivered |
| `lock` | the `Locks` registry: who is in `with_route_lock` |
| `status`, `key`, `owner` | a worker's life, its route, the process it opens for |
| `state` | its GenServer state (`PoolWorker`): protocol, leases with their streams, idle timer |
| `fired` | `{:idle_close, token}` messages in its mailbox |
| `reg`, `children` | its Registry entry and its place in the supervisor; both outlive the process until the exit is seen |
| `late` | a `:checkout` whose caller timed out and went on |
| `rpc`, `rtodo`, `unused`, `reclaimed` | the reclaimer |

### Actions

One action is one step of one process: a Registry lookup, a call as the worker
handles it (the caller is blocked meanwhile), a message received.

* `get_conn`: `Request`, `Lookup`, `CheckoutExisting` (also `CheckoutTimeout`),
  `NoneAvailable`, then under the lock `LockRoute`, `ProvisionLookup`,
  `WaitForOpening` or `NoneOpening`, `StartWorker` or `PoolFull`,
  `StartReclaimer`, `MonitorReclaimer`, `ReclaimerDown`, `RestartWorker` or
  `GiveUp`; then `ReceiveConn`/`ReceiveDown` for the client that started a worker,
  `WaitCheckout`/`WaitBusy`/`WaitExit` for one that waits for somebody else's.
  Starting the reclaimer and monitoring it are two steps, as in
  `Reclaimer.start_monitor`.
* request: `RegisterStream`, `FinishStream`, `ReleaseConn`, `ReleaseStream`,
  `CancelStream`, `DiscardConn`; a call to a worker that is gone does nothing.
  `DropResponse` is the way out on which nobody calls the worker: a redirect that is
  answered in chunks leaves `tesla/middleware/connection_pool.ex:44-52` with its lease
  and its stream, and if `FollowRedirects`, outside of it (`http.ex:203`), refuses it or
  has followed enough, the error carries no connection to release.
* worker: `OpenConn` and `RegisterConn` (unregister, then register: two steps, as
  in `handle_continue`), `OpenFails`, `TimerFires`, `IdleClose`, `ClientDown`,
  `ConnLost`, `GunUp`, `LateCheckout`.
* environment: `Crash` and `Respawn` of a client, `Unregister` and `Reap` (the
  Registry and the supervisor see an exit).
* reclaimer: `SelectWorkers`, `ReclaimInfo` (one call per worker),
  `NothingUnused`/`SomeUnused`, `Reclaim`, `ReclaimDone`.

### Runs

| run | instance | states | what it shows |
|---|---|---|---|
| `PoolRoutes` | 2 clients, 2 routes, 3 workers, limit 2, both protocols, reconnects may change the protocol | 1.6M | `TypeOK`, `OneOpeningPerRoute`, `OnlyOwnConn`, `LimitRespected`, `NoStrayLease`, `LeasesKept` |
| `PoolLive` | 2 clients of which one mortal, 1 route, 1 worker, limit 1, both protocols, idle timers, checkouts may outlive their caller's 5 s, fairness | 96k | `HeldIsLeased`, `Http1Exclusive`, `IdleIsTimed`, `OnlyOwnConn`, `WaitersExpected`, `NoEviction`, `LeasesKept` although leases go astray, clients are killed and the reclaimer races with checkouts; `LockReleasedUnlessNoproc`, `WaitersAnswered`, `DeadForgotten`, `IdleEnds` |
| `PoolHang` | 2 clients, 1 route, limit 1, nobody dies | | violates `LockReleased` (section 9) |

`OneOpeningPerRoute` does not say that a route has one HTTP/2 connection: the
worker unregisters its `nil` entry before it registers its connection, and a client
that looks up in between starts a second one. That is a hazard of the list; the
property says that no two are being opened at once.

`LeasesKept` is the refinement of `LeaseService`, which knows of each client only the
route it `wants` and the connection it has `held`, and of each worker the route it
`serves` and whether it is `shared`. A worker counts as open from the moment it is
`up`; a connection is granted when its pid is in the client's hands or in its inbox
(`Held`), and until the client gives it back its pid is not used again, also where the
connection is long closed. `PoolRoutes` has it with two routes, connections that change
protocol and a pid more than the limit allows, `PoolLive` with stray leases, kills and
idle timers; all of these at once are too large for TLC, and covered by the theorem. It
has a mutant in each run: a look-up that forgets the route is refuted by the first
client that is given a connection of another one, and a worker that thinks itself free
too often by the second user of an HTTP/1 connection.

Two invariants are what the liveness properties rest on, and unlike these they are
proved for every instance. `IdleIsTimed`: an open connection has an idle timer exactly
while nobody leases it, so none can stay open for ever (`IdleEnds`).
`WaitersExpected`: whoever waits for its own worker or for the reclaimer waits for
something that can still come, the only exception being the `:noproc` of section 9
(`WaitersAnswered`, `LockReleasedUnlessNoproc`).

`NoStrayLease` names the leases that nobody will give back. A living client that does
not use the connection has a lease there only if it has left a stream open
(`Abandoned`), which `DropResponse` does; the comment at `gun/adapter_helper/gun.ex:49`
ties the life of a lease to that of its body. Every other way to end a request, with
retries of calls, reclaiming and reconnects beside it, gives the lease back. Nothing
else is lost by it: exclusivity, the limit and the timers hold as they do for a
connection in use. It is not claimed where checkouts time out: the code lets the
stray lease live until its client dies. `Http1Exclusive` is not claimed where a reconnect
may turn an HTTP/2 connection with several clients into an HTTP/1 one: the code
lets them stay.

### Bounds

* Two clients and two connections give every race the code has between a holder and a
  newcomer, between an opener and one who waits for it, and between either and the
  reclaimer. A third client adds only another holder of the route lock; the
  theorems about leases and routes hold for any number.
* `Tokens`: a timer reference is unique. `TimerFires` is guarded so that one spare
  reference always remains; with two there can be a stale `:idle_close` in the
  mailbox beside a new timer, which is the case `NoEviction` is about (`PoolLive`).
  `PoolRoutes` has one, so that timers do not fire there.
* `MaxLeases` bounds the leases of one client at one worker that timeouts and dropped
  responses add up.
* A pid is used again once no process, registry or variable refers to it.
* `PoolLive` has a single pid: the liveness run needs no second one, since the
  limit is one and the run forbids a start before the dead worker is forgotten.

`CHECK_DEADLOCK FALSE` stands where clients do not die: there the hang of section 9
can stop the whole instance.

### Fairness

A process that can go on does (`WF` of `Proceed` and `Use` per client, in which a
request may end by being dropped, of each kind
of step per worker, of the reclaimer). Opening a connection ends because of
`connect_timeout`; a request ends because the adapter and the reverse proxy have
receive timeouts; timers fire; exits are seen by the VM. Nobody has to make a
request, die, or lose a connection, and no particular client gets a contended route
lock: `with_route_lock` polls, so `LockReleased` speaks of the lock, not of those
who want it.

## 4. The delivery of a post

### State

`row`, `federated`: the Create's row and its flag. `pub`, `pubTries`, `todo`: the
publish job of each of Create, Update and Delete and the inboxes a running one has
still to insert jobs for. `job`, `tries`, `worker`: a delivery's job row, its attempt,
and how far the process running it has come (`started`, `checked`, `accepted`,
`marked`). `accepted`: what peers have answered with 2xx. `finished`: history of
completed jobs. `known`: the rows of the table `deliveries`, which say who has fetched
the post; `fetched`: who ever has (history). `dpc`, `seen`: where `CommonAPI.delete` is
and what the activity it loaded said. A job that is executing in the table although its
node is gone is `orphaned`.

A delivery is identified by activity, inbox and mark, because `unreachable_since`
at the time of insertion is part of the params the `unique` option compares.

### Actions

* peers: `Fetch`, a signed request for the post (`track_object_fetch`). `Fetchers` are
  those who follow nobody here and get a Delete only for that.
* user: `Post` (activity and publish job in one transaction), `Edit`, and the delete
  in three steps: `FindPost` reads, `CancelJobs` cancels the Create's jobs,
  `DeletePost` is the pipeline's transaction (or `DeleteFails`).
* publish job: `StartPublish`, `EnqueueDelivery` per inbox, `FinishPublish`,
  `PublishFails`. `StartPublish` makes the list of inboxes (`Audience`): for a Delete
  `recipients` reads the rows of `deliveries` and removes them at once
  (`web/activity_pub/publisher.ex:423-430`), so a second attempt has followers only.
* delivery job: `StartDelivery`, `ValidateSource` (a Create whose row is gone is
  cancelled), then `Snooze`, `Refuse`, `Accept` or `DeliveryFails`,
  `MarkDelivered`, `CompleteDelivery`. `DeliveryFails` can happen after the peer
  has accepted.
* Oban and the node: `Kill` of a cancelled job's process, `Crash`,
  `RescuePublish` and `RescueDelivery` (Lifeline), `Prune`.

Whether the acknowledgement of a job that was cancelled meanwhile overwrites the
cancellation is left open: that is the library's choice.

### Runs

| run | instance | states | what it shows |
|---|---|---|---|
| `DeliveryEdited` | 1 inbox that may refuse, an edit, a crash, pruning | 1.4M | `FinishedIsMarked`, `NoLateCreate`, `OutboxKept` |
| `DeliveryLive` | a follower and a fetcher, a failure and a crash, 3 attempts, pruning, fairness | 524k | `TypeOK`, `NothingLost`, `EventuallyDelivered` |
| `DeliveryRepeated` | 1 inbox, a crash, pruning | | violates `DeliveredOnce` (section 9) |
| `DeliverySilentDelete` | | | violates `DeleteFollowsAccept` (section 9) |

`OutboxKept` is the refinement of `Outbox`, which has no jobs, attempts or fan-out: a
delivery is about to leave (`flying`), has been answered (`landed`) or is recorded as
done (`settled`). A Create departs only while the post is there, a Delete only when it
is gone and was announced, and that is decided by what the delete has seen of the
mark; the mark is set only by a peer that has the post; what is settled does not
depart again unless the job is forgotten (`Forgets`, the Pruner). It implies
`DeleteOnlyAfterAccept` (a Delete is made into a job only if some peer had the post),
which has its theorem and is not checked by a run of its own.

`NothingLost` is what `EventuallyDelivered` rests on: an inbox on the list of a fan-out
that has passed it has a delivery that waits, is under way with a process or can be
rescued, or that has ended as it may: accepted, out of attempts, or given up
(`GivenUp`: cancelled with its post, refused, or its host known to be unreachable). On
the list (`Listed`) are the followers whenever a fan-out starts, again or not; the
fetchers of the post only when a Delete's starts for the first time. The code promises
no more: a Delete whose fan-out fails or dies after `recipients` has run is not sent to
those who only fetched the post, and `EventuallyDelivered` claims nothing of them. A
test (`src/test/pleroma/web/activity_pub/publisher_test.exs:854`) says that they get
it, of a fan-out that goes through.

Jobs of one activity to different inboxes share only the flag and the publish job;
a fan-out that is repeated from the start meets the jobs it had inserted with one
inbox as well as with two, and the theorems of section 10 hold for any number.
`MaxAttempts` is 5 in the code; the passing runs use 2 or 3 with fewer failures
than that, so that the last attempt, the discard after it and the rescue of both are
reached. `LongBackoff` is the attempt after which the wait exceeds the Pruner's 15
minutes (4 in the code). `CHECK_DEADLOCK FALSE`: everything stops when all is
delivered.

`DeliveredOnce` is not a property of the code, and stated only for `DeliveryRepeated`:
the configuration lets the Pruner remove finished jobs long before the unique option
stops looking for them. What is done twice is done to a peer that has the activity
already; no request leaves without its cause, as `OutboxKept` says with pruning, too.

### Fairness

Oban runs what is due, a running job takes its next step, a peer answers one way or
the other, a cancelled job's process exits, Lifeline runs. Nobody has to post, edit
or delete, nothing has to fail. The number of failures and crashes together is below
`MaxAttempts`: with more, the job is discarded by design.

## 5. The health of peers

### State

`InstanceHealth` keeps of a host's row the two fields that decide something: the
date `unreachable_since` (`us`) and whether the metadata hold a backoff (`meta`).
A date is kept as the age class it is compared by: 0 recent, 1 beyond the 7 days
after which nothing is delivered any more, 2 beyond the 183 after which the host is
dormant. `proc` has the processes that touch rows, each with the copy it has read:
delivery jobs, fetches of objects and of source lists, inbox requests, and the probe
of each host. `job` is the reachability job in Oban's table, `up` whether the peer
answers, `silence` a history variable: for how long there has been a date and no
recorded success.

`InstanceCache` keeps `dated` (the hosts with a date in the table), the persistent
term (`loaded`, `cached`), a refresh under way (`refreshing`, `found`), what each
writer is about to put back (`writer`) and what each reader has asked (`asked`,
`hit`, `answer`).

### Actions

* deliveries: `Enqueue`, `Drop`, `Send`, `Posted`, `TimeOut`; other processes:
  `Fetch`, `Fetched`, `SourceItems`, `SourceFetched`, `Inbox`.
* recording: `Read` the row, then `Update`, `Insert`, `Unchanged` or
  `ConflictRaises`: only the fields that differ from the copy are written.
  `Declare` and `Demote` give an unreadable source list an old date; `Upsert` and
  `CancelJobs` are `set_reachable`.
* probes: `CronSelect` and `CronInsert` (the rows are read before the jobs),
  `AskProbe`, `StartProbe`, `Probed`, `KillProbe`, `Lifeline`, `DiscardDormant`.
* environment: `Tick`, `BackoffEnds`, `Change` of a peer, `Crash`.
* the map: `Commit` of a row by a writer, `Sync` (all of the map is read), `Put`
  (all of it is written), `Refresh` and `Replace` by the cache's own process,
  `Ask`, `Look` and `ReadRow` of a reader, `Restart`.

### Runs

| run | instance | states | what it shows |
|---|---|---|---|
| `InstanceHealth` | 1 host, 1 delivery job, 1 other process, the probe, fairness | 643k | `CutOffNeedsSilence`, `DroppedOnlyAfterSilence`, `Recovered` |
| `InstanceCache` | 2 hosts, 2 writers, 1 reader, fairness | 231k | `CacheRepaired`, `CacheSettles`, `LookupsKept` |

`CutOffNeedsSilence` is the property about the lost updates: whatever a process
writes from an old copy, a date in the table is never older than the time for which
no success was recorded, so that a cleared date does not come back. It holds because
only changed fields are written, and because days lie between the classes and
seconds between a read and its write (`Tick` is guarded by that).
`DroppedOnlyAfterSilence` carries it to what is done with it. `Recovered` says that a
host that answers again is reachable in the end, even if nobody sends anything to it.
`LookupsKept` is the refinement: whoever asks is told "no date" or what the table
says at that moment, however stale the map is.

One host is enough for the rows: nothing relates two of them but the map, which has a
run of its own with two. Two processes and the probe give every pair of read and
write that can interleave on a row.

### Fairness

Recording, probing and the end of a backoff go on (`WF`), time goes on (`SF` of
`Tick`, which is enabled again and again between two writes). Nobody has to deliver,
fetch or send anything. `Recovered` assumes that the node does not crash for ever and
that the peer stays up. In the cache, its own process runs and whoever has begun to
sync ends it; `CacheSettles` assumes that restarts and writes of rows end.

## 6. Follows

One person on server `a` follows another one on server `b`, and both run this code.
`rel` is the row of each server, `state` the states of the Follow activities on `a`,
`latest` the Follow that `b` has inserted last. `sent` are the activities each server
has published; the other one handles any of them in any order, at most once, or
never (`got`). `leaving`, `removing`, `click` and `sync` are the places between two
transactions: the row is deleted and the Undo not yet written, the Follow is
cancelled and the row not yet removed, an answer is chosen and not yet sent, the
synchronization has read a row and not yet changed it.

Actions: `Follow`, `Leave`, `Cancel`, `TakeAccept`, `TakeReject` on `a`;
`TakeFollow`, `TakeUndo`, `RemoveRow`, `Choose`, `Decide` on `b`; `Post`, `Fetch`,
`ReadRow`, `Reconcile` of the synchronization; `RestartA` and `RestartB`, which lose
what is between two transactions.

The run `FollowRelation` has two Follows and one Undo (401k states). Two Follows are
what it takes for a repeated request, for an Undo that names an older Follow than it
cancels, and for an answer to a request that is gone.

* `ConsentKept` is the refinement of `FollowConsent`: neither server has the relation
  as accepted unless `a` asked and `b` granted, whichever way the rows come to say so.
* `AgreeWhenQuiet`: when every activity is handled both servers agree. The history
  variable `crossed` takes out what the code does not reconcile by itself: an unfollow
  that meets an answer on the way, an activity that overtakes another one of the same
  server, a restart between two transactions.
* `SyncSettles` covers those: where the followers are synchronized again and again,
  the rows agree in the end, whatever was lost or reordered before. A row that is
  gone on `a` does not come back, which the synchronization does not attempt.
* `NoGhost`: without a row, the state of the latest Follow does not tell of a relation
  that has ended. `silent` takes out the two ways in which a row is taken and no
  Follow is cancelled: a restart in the middle of `User.unfollow`, and the
  synchronization.

Bounds: one synchronization job at a time (the code has one per digest). Fairness:
a server ends what it has begun (`Finishing`) and its jobs run (`Syncing`); that
something is posted again and again is an assumption of `SyncSettles`. Nothing has to
be delivered: `AgreeWhenQuiet` speaks of the states where everything is.
`CHECK_DEADLOCK FALSE`: everything stops when nobody asks any more.

## 7. Likes, replies, votes and deletion of one post

`ObjectAggregates` is about one row, that of a poll, whose JSON holds what is counted
of it beside its content: the likes, the number of replies, the votes. `row` is what
is committed, `cache` the entry of the object cache, `view` a page view that has
loaded the row and not yet put it into the cache, `lock` the advisory lock of the
post's id, `stored` the committed Likes, replies and votes, `undone` the Likes with a
committed Undo. Each activity is a job in a transaction of its own with a place
(`step`) and a copy of the row (`copy`).

* Likes and Undos: validated before the lock (`LikeCheck`, `UndoCheck`), then
  `UndoFind` and `Lock` take the advisory lock; under it `LikeSkip` or `ReadRow`,
  `AddLike` or `RemoveLike`. An Undo whose Like is gone goes on without the lock and
  finds nothing (`UndoNothing`).
* a reply is one UPDATE of the database (`Reply`), without the lock; a vote reads the
  poll from the cache and writes all of it (`VoteCheck`, `VoteRead`, `VoteWrite`),
  without the lock; a Delete puts the tombstone in place under it (`DeleteCheck`,
  `Bury`).
* `Commit`, `Abort` (an exception or a timeout rolls back; an error returned as a
  value does not), `ViewLoad`, `ViewPut`, `Expire`.

A write waits for the row lock of the database (`RowFree`) and sets the cache before
the commit.

The comment at `web/activity_pub/pipeline.ex:211-217` says of the lock that each side
effect reloads the committed winner instead of writing an older snapshot over it. That
holds for Likes, Undos and Deletes, and not for replies and votes. A Like between its
read and its write loses the count of a reply that was committed there. A vote loses
likes and replies that came since its copy was cached, may write a state that was
rolled back, and can bring a deleted poll back. So that what is stored is counted, is
no property of this code, and none is claimed. The history variable `older` records who
wrote over a newer row, and the properties say what holds until then:

* `LikesAgree`: the row's likes are those of the stored Likes, unless a vote wrote an
  older copy. Two Likes of one actor with different ids can both be stored, since
  `LikeValidator` asks before the lock is taken; such an actor is not listed any more
  when one of them was undone, and the property says so.
* `EffectsKept`, the refinement of `PostAggregates`: the row changes as if every Like,
  Undo, reply, vote and deletion were one step. Its own effect is there when it commits
  and no other's is gone. `Overwritten` says where the promise ends: for the counts when
  any job wrote an older copy, for everything when a vote did. Two consequences have
  names and theorems of their own: `UndoneStaysUndone`, a Like that arrives again
  before, with or after its Undo is not stored once the Undo is; and
  `DeletedStaysDeleted`, no like, undo or reply brings a deleted post back.

`LikesAgree` and `UndoneStaysUndone` are about a post that is not deleted: a
Like that was validated before the Delete may be stored beside the tombstone.

The run `ObjectAggregates` has two Likes of two actors, one of them delivered twice
and undone, a reply, a vote that is tried again, and a Delete (1.9 million states).
States after a vote wrote an older copy are not explored further (the constraint
`Claimed`): no property claims anything of them. Symmetry exchanges the two deliveries
of the first Like. Two Likes of one actor are covered by the theorems only.
`CHECK_DEADLOCK FALSE`: everything stops when all activities are handled.

## 8. Embedded posts

`PostEmbed` has the foreign page (`readyState`, its iframes in document order, and
for each execution of `embed.js` its array of iframes and its listener), the page in
each iframe (`page`, `parentId`, `pending` animation frames, `content`), and the
messages between them. An action is one task of one event loop: `AddFrame`,
`RunScript`, `DOMContentLoaded`, `Receive` in the page; `Listen`, `Load`,
`GetMessage`, `UpdateHeight`, `ToggleMedia`, `ToggleSubject`, `Reload` in a frame. A
message to a frame whose script has not run yet is lost. Two things bound what an
iframe can follow. The summary of sensitive media sends the new height, that of a post
with a subject does not (`show.html.eex:17` and `27`); `silent` records such a click.
And what is sent is the `scrollHeight` of the root element (`ScrollHeight`), which is
never less than the height of the iframe it is shown in: an iframe does not shrink.

The run `PostEmbed` has two iframes, two executions, two heights of which one is higher
than the iframe is at first, and one click or reload (880k states). `OwnHeight`: an
iframe changes its height only by a message of its own post, although every listener
hears every message. `EventuallyFits`: in the end no post whose iframe was there when a
script ran is cut off, in whatever order script, frame and clicks on media came.
`FitsWhenQuiet` is its safety half: a loaded and numbered post for which nothing is under
way or due (`Quiet`) has an iframe that is high enough (`Fits`), unless its subject was
clicked since its height was last read. That an iframe is not higher than its post is
not true of the code and not claimed. All
three carry the condition `Agree`: the executions number
the iframes by position, so that an iframe inserted before others between two
executions gives one number two owners, and the heights go wrong for good. Fairness:
documents are parsed, frames load, and event loops run what is due; no script has to
run, nobody has to click. `CHECK_DEADLOCK FALSE`: nothing happens when all is shown.

## 9. Where code and documents disagree

Each is a run of its own whose counterexample is the story.

1. **A client waits for ever in a full pool** (`PoolHang`). The cheatsheet bounds
   the time to acquire a connection. `Reclaimer.start_monitor` starts the
   reclaimer and then monitors it; if it has ended in between the monitor delivers
   `:noproc`, which `wait_for_reclaimer_finish` does not match, without a timeout
   and with the route lock held. Every later client of the route polls for ever.
   `PoolLive` shows that this is the only way to keep the lock.
2. **A Delete that is not sent** (`DeliverySilentDelete`). A delete is federated if
   the loaded activity says `federated`; a peer may have accepted the Create while
   the flag is not yet written. The peer keeps the post. `FinishedIsMarked` shows
   that the window closes when the job is completed.

3. **A delivery that is made twice** (`DeliveryRepeated`). The comment at
   `web/activity_pub/publisher.ex:677-679` trusts the unique delivery jobs when a
   fan-out is repeated. They look back 86,400 seconds (`web/federator/publisher.ex:39`),
   and the Pruner removes finished ones after 900, against its own comment
   (`src/config/config.exs:724-726`). A fan-out that Lifeline starts again an hour
   after a crash meets none of them.

Three disagreements have no run of their own and are told where they belong: the
advisory lock against replies and votes (section 7), the peers who fetched a post whose
Delete is fanned out again (section 4), and the redirect whose lease stays (section 3),
which no document mentions.

## 10. Proofs

All theorems are about the specification without fairness and hold for every value
of the constants that satisfies the named assumptions, which TLC evaluates on every
run: the timer references do not contain `nil`, workers and scripts are finite, limits
are positive, the sets of processes and of activities are disjoint, `None` and
`Undefined` are none of the values they stand beside, every Like has an actor; the
bounds are natural numbers.

Every safety property of a passing run has its theorem here; the runs do not repeat all
that is proved. The types are checked by TLC where they are hardest to keep (`PoolRoutes`,
`DeliveryLive`, `InstanceHealth`, `ObjectAggregates`) and proved of every module, and
`LockHeldInside`, `DeleteOnlyAfterAccept`, `UndoneStaysUndone` and `DeletedStaysDeleted`
are theorems only.

### Connection pool

`TypeInv` strengthens `TypeOK` by two facts the actions rely on: a spare timer
reference is left (`TokenLeft`), and whoever waits or holds has somebody it waits
for or holds (`Located`).

| theorem | inductive invariant | why it has to be stronger |
|---|---|---|
| `TypeCorrect` | `TypeInv` | the actions index tables by `conn`, `target` and `owner` |
| `LeaseCorrect`, `HeldIsLeasedCorrect` | `LeaseInv` | the lease is written when the connection is registered, so the invariant has to follow it from the start: the client that asked still waits for exactly this worker, or is dead |
| `NoEvictionCorrect` | `LeaseInv` | an empty table means that nobody holds the connection |
| `SingleLeaseCorrect`, `Http1ExclusiveCorrect` | `SingleLease` | leases are exclusive at an HTTP/1 worker, and use is covered by leases. Assumes `~Renegotiates` |
| `RouteCorrect`, `OneOpeningPerRouteCorrect` | `RouteInv` | the holder of the route lock has seen every worker of the route that is still connecting, and when it decides to start one there is none |
| `LimitCorrect` | `LimitRespected` with `TypeInv` | every live worker is among the supervisor's children |
| `OnlyOwnConnCorrect` | `LeaseInv` | it is one of its conjuncts: the message that answers a start is for who asked |
| `NoStrayLeaseCorrect` | `StrayInv` | the worker knows of the stream that a client is reading: only then does what is left of a dropped response show in the lease it leaves (`Accounted`, `Harmless`), and giving one lease back not hide another. No checkout is late. Assumes `~CallTimeouts` |
| `LockHeldInsideCorrect` | `LockHeldInside` with `TypeInv` | no run has it: a route lock is held only by a client inside `provision` of this route. Inductive |
| `KeyCorrect` | `KeyInv` | every worker a client refers to, as one it looked up, waits for or uses, is of its route, or dead: a Registry snapshot stays true of the key although a pid is used again, because a pid with references is not |
| `LeasesKeptCorrect` | `LeaseInv`, `KeyInv` and `LimitRespected` | see below |
| `IdleIsTimedCorrect` | `IdleIsTimed` with `TypeInv` | inductive: a lemma per callback (`CheckoutTimed`, `RemoveTimed`, ...) says that it leaves leases and timer in step |
| `WaitersExpectedCorrect` | `WaitersExpected` with `TypeInv` | inductive: what a client waits for changes by the steps of others only as `Expected` allows (`ExpectedFrame`) |

Each invariant has a lemma per group of actions; frame lemmas (`LeaseFrame`,
`RouteFrame`) say which changes of the variables cannot disturb it, and lemmas about
the callbacks of `PoolWorker` (`CheckoutLease`, `RemoveClientLease`, ...) say what
each makes of the lease table.

The refinement has a lemma per group of actions that names the steps of `LeaseService`
they are: `ServiceAcquire` (`Ask`, `Grant`, `Return` or none), `ServiceUse` (`Return` or
none), `ServiceOpen` (`RegisterConn` is `Open`), `ServiceWorkerStep` (`Open`, `Lose`,
`Switch` or none), `ServiceReclaimer` (`Lose` or none). `HeldIsUsed` ties the mapping to
`LeaseInv`. `Open` needs that nobody holds the pid of a worker that is still connecting
(`LeaseInv`) and that the limit leaves a place for it (`LimitRespected`: its own among
the supervisor's children). `Grant` needs `KeyInv`, since any number of steps have passed
between the look-up and the answer of the checkout, and, for an HTTP/1 connection, that
a table without leases means that nobody holds it (`HeldIsLeased`).

### Delivery of a post

`TypeInv` adds `AttemptsInv` to `TypeOK`: a job that waits has an attempt left,
and a job that runs has used one, without which neither the increment of an attempt
nor the decrement of a snooze keeps its type.

| theorem | inductive invariant |
|---|---|
| `TypeCorrect` | `TypeInv` |
| `DeleteOnlyAfterAcceptCorrect` | `AcceptInv`: a process that is past its request has its delivery among the accepted ones, and nothing is taken back |
| `FinishedIsMarkedCorrect` | `MarkedInv`: what a process has marked stays marked while the row exists, and before the post nothing is finished |
| `NoLateCreateCorrect` | none beyond `TypeInv`: `Quiet` is stable (`QuietStep`) |
| `NothingLostCorrect` | `LostInv`: every job there is, is accounted for (`JobsInv`), an inbox on the list that the fan-out has passed has one (`FanInv`), and until a Delete is fanned out every fetch is on record (`FetchInv`). `NothingLost` alone does not say of a job that the fan-out has not come to, after it was started again, how it stands; `AcceptInv` is what makes a completed one an accepted one |
| `OutboxKeptCorrect` | `SentInv`: the invariants above with `LifeInv`, which says where the delete is while the row is there, and that no job exists of an activity that was not published. Without it a Delete's job could depart before the post is gone. Where nothing is pruned, `FinishedInv`: the row of a finished job stays `completed` |

### The health of peers

| theorem | inductive invariant |
|---|---|
| `TypeCorrect`, `SilenceCorrect` | `Inv`: each row is `Sound` (no date is older than its silence) and each process is `Good`: whoever is about to write and has read no date still finds none, a recent one, or a declared one |
| `DroppedCorrect` | `Inv`, and that a drop looks at the table's date |
| `TypeCorrect` (of `InstanceCache`) | `TypeOK` with `Waiting` |
| `LookupsCorrect` | `Waiting`: a reader that goes on to the table has not been answered. Every step of the cache is a step of `InstanceLookup` or changes nothing there |

### Follows

| theorem | inductive invariant |
|---|---|
| `TypeCorrect` | `TypeOK` |
| `ConsentCorrect` | `Founded`: every activity sent, every answer chosen and every list fetched refers to a request that was made, and whatever says "accepted" anywhere has a grant behind it |
| `NoGhostCorrect` | `NoGhost` with `TypeOK` |
| `AgreeWhenQuietCorrect` | `Together`, with `SyncOK` and `Mailed`: while nothing has crossed, an unfollow and an answer are never under way at once, what is under way from `b` ends with what `b`'s row says, and else the rows agree. `AgreeWhenQuiet` alone speaks only of the states without mail, which no step preserves |

### Likes, replies, votes and deletion

`Base` adds to the types which steps a job of each kind can be at (`PathOK`) and who
holds the two locks (`LocksOK`). `Core` says what each job has in its hands:
`TombOK` (its copy has the tombstone of the row, or brings it), `LikeOK` and `UndoOK`
(its likes are the row's, changed by what it does; the Like it is about is stored or
not), `OtherOK`, `CountOK`, and that nothing cached is deleted before the row is
(`CacheOK`). The properties alone are not inductive: a write is decided by a copy read
several steps earlier, and it is the lock that keeps the copy true. `QuietStep` covers
all actions but `Commit`, after which only the acting job can be affected;
`CommitDoes` says what a commit makes of likes, activities and Undos, `CommitStep`
that no other job's copy becomes false by it. `TypeCorrect`, `LikesAgreeCorrect`,
`UndoneStaysUndoneCorrect` and `DeletedStaysDeletedCorrect` follow.

`EffectsKeptCorrect` maps a commit to the step of `PostAggregates` named after the kind
of its job, and every other action to no step, or to `Overtaken` when it notes that its
job works on an older copy (`StillIsNoStep`). That a commit takes nothing of another's
effect back is where `LikeOK`, `UndoOK` and `CountOK` are used: they say of the copy,
before it becomes the row, that it is the row with this one effect.

### Embedded posts

`OwnHeightCorrect` rests on `IdInv`: a number that a post knows, or that is on its way
to or from it, was given to its iframe by some execution. `FitsWhenQuietCorrect` rests
on `FitInv`: a numbered iframe that is loaded has a message to its post, a frame
callback, a click on the subject since the last one, or a last message from it under
way that tells a height that is enough (`Announces`), or fits. The last message is what
counts, since earlier ones may tell a height that was overtaken by a click; `QueueTail`
says that taking the first one leaves it.

### Only model-checked

Liveness (`LockReleasedUnlessNoproc`, `WaitersAnswered`, `DeadForgotten`,
`IdleEnds`, `EventuallyDelivered`, `Recovered`, `CacheRepaired`, `CacheSettles`,
`SyncSettles`, `EventuallyFits`) is out of the prover's reach and left to TLC. What is
proved of it are safety halves, which say in what states it can not be stuck:
`WaitersExpected`, `IdleIsTimed` and `LockHeldInside` for the pool, `NothingLost` for
deliveries, `FitsWhenQuiet` for iframes. `Recovered`, `CacheRepaired`, `CacheSettles` and
`SyncSettles` have none: what is wrong there is put right by what a periodic job does
next, not by what any state already holds. Every other
property of a passing run has its theorem.

## 11. Not modelled

Connection pool: the order in which the reclaimer picks victims (`crf`; any order is
allowed), the text of a connection key, TLS and proxy options, a crash of the
supervisor or of the registries, the `gun_error` handler, the extra process of the
Timeout middleware. A pool that stays full after a successful reclaim because the
supervisor has not yet seen the exit is in the model (`GiveUp`) but no property
rules it out.

Delivery: how an activity is addressed (followers and fetchers are given), the peers that
a Delete finds by their interactions, signatures, relays, followers synchronization,
republishing, activities other than a post's Create, Update and Delete, and the
health record of a host, whose outcomes (snooze, refuse, mark) are chosen freely.
One delete at a time. The pipeline's transaction is one step. Three things the
code permits and no document excludes have no property: a delete that fails after it
has cancelled the deliveries, an Update of a deleted post that is still delivered, and
a Create that overtakes the Delete on its way. The first is among the hazards.

Health: favicons and NodeInfo metadata, the history per inbox in the metadata,
failure counts, `any_dormant?`.

Follows: the Block activity, follows within one server, group memberships, follower
counts, moves, and the self-accept of followed sources (`web/common_api.ex:172`).

Objects: Updates and refetching (which lock the row with FOR UPDATE), Announces and
reactions (the path of Likes, another list), quote counts, the deletion of a reply,
moderation filters, notifications and streaming of the result.

Embedded posts: removal of iframes from the page, changes of height without a click or a
reload (an image that loads, a resized window).

The components without a module, and why, are in `PROJECT.json`. Most are
sequential rewriting of one document (Transmogrifier, validators, MRF policies, views,
formats of the bridges) or queries and counters of the database, where a model would
only repeat the code. OAuth, scheduled posts, incoming jobs, streams and the Nostr relay
have interleavings worth a model; section 12 says which. The front ends' bundles under
`src/priv/static` are generated from sources that are not in this repository.

## 12. Plan

What would come next, in this order.

1. `IncomingDelivery`: receiver jobs, their uniqueness and the duplicates guard;
   abstract specification: an activity takes effect at most once. `PostDelivery` and
   `IncomingDelivery` compose over a channel to at-least-once sending with
   at-most-once effect; `Outbox` is the sending side of it.
2. `TokenLife`: authorization codes and tokens with the streams opened under them. A
   code is used if the copy that was loaded says it is unused
   (`web/o_auth/authorization.ex:164`).
3. `ScheduledPost`: publication against change and deletion.
4. `NostrRelay`: manager, connection and delivery to one relay.
5. Follower counts (`user.ex:1808`) and blocks in `FollowRelation`.
