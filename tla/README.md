# A TLA+ model of the Nexodus service

Nexodus connects devices of an organization with WireGuard. An API server
(`cmd/apiserver`, several replicas) keeps devices, VPCs, security groups and so
on in PostgreSQL; an agent (`cmd/nexd`) on each device registers it, watches the
tables it needs and configures WireGuard from them. This directory holds TLA+
modules for the parts of that system where concurrency, ordering and failure
decide whether it is right, TLC configurations that check them on small
instances, and TLAPS proofs for every value of the constants.

All paths below are relative to the repository (`src/` in the manifest).

## Inventory

For every component: the state it keeps, its operations, what it talks to, what is
hard about it, what would make it correct.

### API server

| component | state | operations | talks to | hard | correct when |
|---|---|---|---|---|---|
| signal bus, in memory `internal/signalbus/signalbus.go` | map from names to slices of subscriptions; a channel of capacity 1 each | Subscribe, Close, IsSignaled/Signal, Notify, NotifyAll | watch handlers, pg signal bus | Notify walks a shared backing array without the lock, while others append and swap in place | slices list the open subscriptions; every subscription open throughout a call is signalled |
| signal bus, through PostgreSQL `pg_signalbus.go` | LISTEN connection of the process | Start, Notify, waitForNotification | PostgreSQL, in-memory bus | notifications are lost while the connection is down, or when pg_notify fails | a parked subscriber is woken for every change, or by NotifyAll after a reconnection |
| watch API `internal/handlers/events.go`, `service_network_events.go` | per stream and watch: cursor, fetched list, tail flag, ids sent, parked flag | sendMultiWatch, stream, waitForCancelTimeoutOrNotification | signal bus, fetch managers, database, client | rows commit between fetch, parking and signal; clients resume; revisions commit out of order | the client's copy agrees with the table up to its cursor, the tail means what it says, changes are delivered |
| revisions `internal/database/migration_20231031_0000`, `transaction.go` | a sequence per table, a trigger | stamp on insert and update | everything that writes | a revision is drawn at the write, and seen at the commit | cursors never skip a row |
| fetch managers `handlers/fetchmgr/*` | per key: a ring (memfm) or a Redis stream (redisfm); per fetcher a position and a mode | Open, Close, Fetch, cache Fetch and Fill | database, Redis, watch API | lapped rings, competing fills of several goroutines or replicas, partial pipelines, retried transactions | shared fetches hide nothing, answers are in order, an empty answer means caught up |
| device handlers `handlers/device.go`, `internal/ipam` | the device's row; addresses and prefixes in the IPAM service | create, update (including a move to another VPC), delete | IPAM service (gRPC), database, signal bus | IPAM calls are covered by no transaction; any may fail; requests overlap | a live device holds its addresses, no lease leaks, nobody releases another's |
| online tracker `handlers/online_tracker.go` | streams per agent and replica, Redis subscription, online column, timers | Connected, connected, disconnected, isConnected, timer | Redis, database, watch API | reconnection during the grace period, on another replica, while a timer writes | online while served; offline in the end when gone |
| users, organizations, memberships, invitations `handlers/user.go`, `organization.go`, `user_organization.go`, `invitations.go`, `routers/middleware.go` | rows; user ids cached in Redis without expiration | user creation on first log-in, create, delete with cascades, invite, accept, leave | database, Redis | first log-ins on two replicas; a log-in during a deletion; reads before the transaction; a loop that changes what it counts | one user per person, a deleted user is forgotten, organizations end empty, invitations find their user |
| VPCs, service networks, security groups, registration keys `handlers/vpc.go`, `service_network.go`, `security_group.go`, `reg_key.go`, and the devices and sites in them | rows; IPAM prefixes of private VPCs | create, update, delete with cascades | database, IPAM, signal bus | deletions statement by statement; saves of rows read before; keys used once | nothing outlives its VPC, groups in use exist, prefixes follow their VPC, one device (or site) per single-use key |
| metadata, CA, feature-flag handlers | one table each | create, read, update, delete | database, signal bus | little of their own: the notification after the commit is the watch pipeline's | – |
| garbage collection `handlers/gc.go` | none | remove rows some time (a day by default) after their soft delete | database | a client that stays away longer misses deletes | – |
| sessions, OIDC, routers, commands | cookies, tokens, flags | wiring around libraries | – | – | – |

### Agent and client

| component | state | operations | talks to | hard | correct when |
|---|---|---|---|---|---|
| client watch and informer `internal/client/custom_*.go` | per informer the copy of a table, cursor, tail flag, bookmark channel, error; a stream they share | Execute, event handlers, start, run, restart | watch API, the agent's loop | the stream is cut while Execute waits or starts it; errors before the tail; locks of their own | a list is whole, the loop sees every row |
| peering `internal/nexodus/wg_peers.go`, `wg_deploy.go`, `wg.go`, `nexodus.go` | device cache (per peer: method of eight, time of the last try, health), wanted configuration, WireGuard's peers | reconcile: refresh, choose, configure, deploy, delete | WireGuard, informers, STUN | choice and reset depend on relays, addresses and time; any part of a pass fails | the record of the interface is true; a peer some method reaches is served in the end |
| DERP relay client and its mapping `derp.go`, `wg_derp_proxy.go`, `wg_peers_derp_mapping.go` | map from keys to loopback addresses; the region in use (`myDerp`) | look-up or lease of an address, change of the region with the relay, relay loops | relay, WireGuard | look-up and allocation under separate locks; address search; endpoints that follow the region | one address per peer and back |
| proxies, routes, policies, exit nodes | operating-system state | start, stop, apply | kernel | effects outside of the program | – |
| control socket, set-up, key-value stores | local files or secrets | request/answer, load, store | CLI | – | – |

### How they interact

A handler writes a row and commits; the trigger has stamped the row with a
revision. The handler calls `signalBus.Notify`, which goes through `pg_notify`
to the listener of every replica, and from there to the in-memory bus. A stream
(`sendMultiWatch`) that is parked on its subscriptions wakes, fetches what lies
above its cursor - through a fetch manager for devices and sites, otherwise from
the table - and sends it to the informer of the agent. While that stream lasts,
the online tracker keeps the device's row online, which is itself a write that
the other agents watch.

## Modules

| module | models | abstracts |
|---|---|---|
| `SignalPromise` | what the interface of `signalbus.go` promises, abstractly | how the subscriptions of a name are kept |
| `SignalBus` | `signalbus.go`, implements `SignalPromise`; to the cell of a slice's backing array | names and subscriptions are model values; a subscription is created once |
| `WatchStream` | handlers' write, commit and notify; pg_notify's queue; the listener; sendMultiWatch; the client's cursor and copy | row content is its revision; a table per watch; queries that differ only in their filters |
| `OrderedFeed` | what a fetch manager promises the watches, abstractly | how answers are found, cached and shared |
| `TailCache` | `basefm`, `memfm`, `redisfm`; implements `OrderedFeed` | one key; a Redis stream is a sequence of items |
| `DeviceIpam` | create, update and delete of devices, with every IPAM call | an address is a number of its pool; CIDRs are model values with a "host bits cleared" function |
| `OnlineTracker` | `online_tracker.go` for one agent; Redis commands under way; the updates of the agent's row, which save its online column | the grace period is "some time" |
| `Accounts` | the middleware's user look-up and its cache; users, identities, organizations, memberships, invitations; garbage collection | a person's address is the person; bodies, names and flags are left out; devices are pairs of owner and organization |
| `Vpcs` | VPCs, service networks, security groups, registration keys, devices and sites as rows; garbage collection | the caller owns the organization; addresses are `DeviceIpam`'s |
| `Informer` | Execute, the shared stream's goroutine, its restart, the server as a sender | a table is the number of its rows |
| `Peering` | the reconcile pass with everything that can fail in it, DERP loopback addresses and the region in use | time stamps are zero, fresh or old; reachability is a set of places |
| `SignalBusProofs`, `WatchStreamProofs`, `TailCacheProofs`, `DeviceIpamProofs`, `OnlineTrackerProofs`, `AccountsProofs`, `VpcsProofs`, `AgentProofs` | theorems about the module each is named after, with their proofs; `AgentProofs` is of `Informer` and `Peering` | – |
| `MC*` | constants and symmetry for TLC | – |

State and actions, in the code's terms:

* **SignalBus.** `heap` and `signals` are Go's backing arrays and slice headers;
  `AppendInPlace`/`AppendGrow` are the two cases of `append`, `Remove` is the swap
  of `close`. `NotifyBegin` is Notify up to `RUnlock`; each `NotifySend` is one
  iteration of its loop, which reads the cell *now*, from the array as it is now.
  That is a data race in Go: a read of a pointer-sized cell gives the old or the new
  pointer, and interleaving the steps gives both. `owed` and `churn` are history
  variables for the properties.
* **SignalPromise / SignalBus.** `SignalPromise` knows which subscriptions are open, and of a
  call only whom it is for (`aim`). A Notify may signal any subscription ever created
  for its name, in any order and more than once; it returns when it owes nothing to those
  open since it began, or its name saw a close and then a Subscribe meanwhile. Begin,
  each send and return of a call map to `Notify` or `NotifyAll`, `Signal` and `Return`.
* **WatchStream.** One action per iteration of the `for range states` loop, told
  apart by what the iteration finds: parked or not, an item left or not, a fetch
  that is empty or not. `Write`/`Commit`/`Rollback` are a transaction on one row;
  the row stays locked in between, and other rows' transactions overlap it.
  `Notify`, `Deliver`, `ListenerFails` and `ListenerConnects` are the way of a
  notification. A cancelled request keeps running until a step of the loop sees it.
* **TailCache.** Every call of the code that takes the cache's lock is one action;
  Redis commands are actions of their own (`RedisCheck` is XRANGE, `RedisAdd` the
  pipeline of XADDs), so fetchers on different replicas interleave between them. A
  `Reply` is the return of Fetch together with what the watch does with it, or with a
  retry of its transaction with the old cursor.
* **DeviceIpam.** A request carries the sequence of IPAM calls it has yet to make
  (`calls`), computed from the row it read, as the handlers do. Each call is an
  action that the service serves, refuses for a reason, or that is cut off before or
  after it was served; requests interleave between calls.
* **OnlineTracker.** A stream and the timer it leaves are one value `stream[s]`, in
  the place of `Connected` it has reached: `read` the row, `mark` it, `serving`,
  `grace` (the timer runs), `writeOff` (the timer has asked Redis and not written).
  go-redis's Subscribe and Unsubscribe write a command and return: `wire[p]` is what
  replica p has sent and Redis (`RedisTakes`) has yet to take. `UpdateRead` and `UpdateSave`
  are `UpdateDevice` and `UpdateSite`, which read the row in the beginning and save every
  column of it in the end (device.go:382, site.go:257), online as it was read: `drafts`
  are the values that were read. A lost connection (`Disconnect`) takes the subscription
  and the commands with it.
* **OrderedFeed / TailCache.** `OrderedFeed` has `Commit`, `Open`, `Close`, `Ask` and
  `Answer`: a reader is given versions above its cursor, none of them replaced by an
  older one, none left out that was committed in order, and parks (answers nothing)
  only when nothing lay above its cursor as it asked. `Feed` in `TailCache` maps a fetcher
  that is not `closed` to an open reader; the tables and cursors are shared variables.
  Ring, stream, positions, fills and retries map to stutters.
* **Accounts.** A handler is the step that reads and the step that commits (`Login` and
  `LoginCreate`, `DeleteUser` and `DeleteUserCommit`, ...), with others in between;
  handlers whose statements are one transaction without an earlier read are one step.
  `Login` is the middleware's miss of the cache (one look-up per person and replica
  at a time, as its limiter of one has it), `StoreId` the write to Redis after it.
  `Serializable` is the difference between the two databases: a transaction of CockroachDB
  commits only if what it read still holds, one of PostgreSQL at its default level
  commits on what it saw. `Doomed` is the loop of `DeleteUser`. Redis may fail to answer
  `DeleteUser`'s Del: the error is logged (user.go:409) and the deletion goes on; the id is
  then one of those in `late`.
* **Vpcs.** `st` is the life of every row: `new`, `live`, `dead` (soft-deleted), `purged`.
  `DeleteBox` goes through `DeleteCount`, `DeleteRegKeysOf`, `DeleteGroupsOf`, `DeleteRow`
  and `DeletePrefix`, one per statement, since it has no transaction. `Saved` is gorm's
  `Save`, which on PostgreSQL brings back a row deleted since it was read. `heard` is
  what the last step notified. A registration key has a `scope`: a VPC, a service network,
  or both (reg_key.go:47). Devices and sites are two tables of `Agents`; CreateDevice looks for a
  single-use key's id in the one, CreateSite in the other, and a creation draws an id the
  key does not determine unless the key is single-use. `uses` counts what a single-use
  key has made: creations less collections.
* **Informer.** `main` is the agent's loop in `Execute`, `run` the goroutine that receives,
  `restarting` the goroutines that left `run` and have yet to call `start`. The three take
  different locks, so they interleave between those. `wire` is what the server has sent; a
  broken stream loses its end and shows an unexpected end of file (`reset`) or another error.
* **Peering.** A pass runs in one goroutine under `deviceCacheLock`, so `Reconcile` is one
  action: `Refreshed` (devices and handshakes into the cache), `Decisions`
  (`rebuildPeerConfig` for each peer), `Leases` (loopback addresses, in any order of
  the map; `Leased` does the look-ups one after another), `buildPeersConfig`, `Deploy`. What fails in it is a choice of the action.
  `cache`, `config` and `tunnel` are `deviceCache`, `wgConfig.Peers` and the interface.
  `Region` is the choice of the DERP map before the peers are built (wg_peers.go:242-309):
  `myDerp` becomes the region of a DERP relay that was found (`named`: it has an endpoint whose
  source is `stun:`, and a hostname), the hosted one when there is no relay, and
  stays beside a WireGuard relay. It is the port of every endpoint behind DERP, and nothing
  is reached at port 0.

Operators whose names end in a fault (`RemoveNoSwap`, `CountSkipped`, `LeaseTaken`, ...)
stand before the operator they vary and are used nowhere: each is a bug that code
could have, and replacing the operator by it makes TLC refute the property that
`PROJECT.json` pairs it with.

## Runs

Passing runs:

| run | instance | checks | shows |
|---|---|---|---|
| `signal_bus` | 4 subscriptions, 2 names, 1 caller | `TypeOK` `RegisteredOnce` `WalksOwnName` `KeepsPromise` | the in-place slices are right and implement the promise, and a Notify without the lock misses nobody unless its array shrank and was reused |
| `watch` | 1 watch, 2 rows, fetches of 1, 3 transactions, 1 fault, 2 connections | `TypeOK` `NothingMissed` `TailIsCurrent` `EventsInOrder` | the client's copy is right up to the cursor, the tail is current, order is kept |
| `watch_live` | 2 watches, 1 row each, 2 transactions, 1 fault, 1 connection | `NoLostWakeup` `EventuallyDelivered` | parking and signals never miss each other; changes arrive |
| `tail_cache` | 2 fetchers, 2 rows, cache 2, 3 revisions, 1 fault, both backends | `TypeOK` `NothingSkipped` `ImplementsFeed` `CatchesUp` | shared caches hide and reorder nothing, answer nothing only when caught up, and Fetch's loop ends |
| `device_ipam` | 2 devices, 2 VPCs with their own namespaces, pools of 2, 4 requests of which 2 overlap, 1 fault | `TypeOK` `LiveHoldsItsAddresses` `NoLeakWhenAllSucceed` `ReleasesOwnOnly` | what the handlers guarantee about leases, and under which conditions |
| `online` | 2 streams, used again and again, 2 replicas, 2 commands of a replica under way, 1 fault, any number of updates | `TypeOK` `CountsItsStreams` `OnlineWhileServed` `OfflineWhenGone` | counting, announcing and writing off are right unless a connection crosses a write-off or an update puts a stale column back |
| `accounts` | 2 people, 2 replicas, 3 ids, 1 invitation, 2 requests at a time, 3 calls, both databases, Redis that may fail, from users with any memberships | `TypeOK` `OneUserPerPerson` `DeletedForgotten` `OrgsGoEmpty` `InvitationReachesUser` | log-ins, deletions and invitations that cross keep the tables consistent, under the conditions below |
| `vpcs` | default and private VPC, 1 service network, 1 group besides the default ones, 3 ids (each of a device and of a site), 2 public keys, 1 registration key of either home or both, 2 requests at a time, 4 calls, both databases | `TypeOK` `NothingOutlivesItsBox` `GroupsThere` `PrefixesOfVpcs` `SingleUseOnce` | what the cascades and counts guarantee without transactions, and where they do not |
| `peering` | 2 peers (one plain or behind a symmetric NAT with routes, one that or a WireGuard relay or a DERP relay, found or not), an agent that is plain, behind a symmetric NAT or the relay; 2 loopback addresses, 1 change, 1 failing pass | `PeeringTypeOK` `ConfigIsTrue` `LoopbackOfOne` `HealthyKeepsMethod` | the agent's picture of WireGuard is right whatever fails, and a healthy peer is left alone but for the port of an endpoint behind DERP |
| `peering_live` | the same with 4 loopback addresses and peers reachable only locally, or only publicly and by relay | `ServedInTheEnd` | every available method is tried until one works |
| `informer` | 2 informers, 1 row each, 2 events on the wire, 2 resets, 1 failure | `TypeOK` `ListIsWhole` `LoopCatchesUp` | restarts leave no hole, no bookmark that nobody closes, no row unseen |

One run shows what a comment promises and the code does not do:

| run | property | what happens |
|---|---|---|
| `accounts_shared` | `OrgDiesWithItsOwners` (user.go:384) | a user who shares two organizations is deleted: the loop leaves both with the first, counts the second without the user, and deletes it under its other owner |

Further configurations, in the same form, that TLC refutes; run
`tlc -config <cfg> <module>` to see the trace. `PROJECT.json` has each as a finding.

| configuration | property | what happens |
|---|---|---|
| `MCSignalBusLost.cfg` | `NotifyReachesAll` (signalbus.go:9) | a close moves the last subscription behind the walk, a Subscribe overwrites its old cell: an open subscription is not signalled |
| `MCWatchStreamMissed.cfg` | `NoEventMissed` (watch-api.md:34) | a row commits after one with a higher revision was sent: it lies below the cursor and is never sent |
| `MCDeviceIpamDeleted.cfg` | `DeletedHoldsNothing` (device.go:651) | a device with a default route is deleted; the release of that route fails and the IPv6 address stays leased |
| `MCDeviceIpamAdvertised.cfg` | `AdvertisedIsHeld` (device.go:364) | an update of the advertised CIDRs releases those that stay |
| `MCOnlineTrackerDuration.cfg` | `OnlineForTheDuration` (events.go:437) | an agent connects while the timer of its last stream writes it off: connected and offline |
| `MCOnlineTrackerStale.cfg` | `OnlineWhateverUpdates` (events.go:437) | an update reads the row before the agent is marked online and saves it after: connected and offline, nothing having failed |
| `MCVpcsUsedOnce.cfg` | `UsedOnce` (reg_key.go:37) | a single-use key of a VPC and a service network makes a device and then a site |
| `MCVpcsUnheard.cfg` | `GroupChangeHeard` (security_group.go:295) | a group of a VPC other than the default one changes, and no watch is notified |
| `MCPeeringAgain.cfg` | `NewPeersDeployed` (nexodus.go:1219) | a device is deleted and registers again with the same key: its configuration passes for unchanged and is not deployed |

`MCOnlineTrackerThree.cfg` is a larger instance of `online` that TLC does not refute: three
streams, one command under way, the safety invariants only.

### Bounds and why they are enough

* `SignalBus`: with four subscriptions a name's array grows 1, 2, 4 and is reused
  after a close; two names share subscriptions of the heap. Callers only read the
  slices, so a second one adds nothing to what the first sees; the proofs hold for
  any number.
* `WatchStream`: fetches of one row, so that every batch is cut by its limit and
  rows are written between the batches. Three transactions on two rows give an
  insert, an update or delete of it, and another row on either side. A second
  connection resumes from every cursor. For the wake-ups two watches matter (one
  parks while the other is served), and one row each is enough.
* `TailCache`: three revisions lap a ring (or trim a stream) of two; two fetchers
  compete, on two replicas in Redis's case.
* `DeviceIpam`: pools of two addresses make two live devices exhaust a pool; four
  requests are create, create, and a move or delete of each, or create, move, delete,
  and a create that takes the freed address. Two requests run at a time.
* `OnlineTracker`: two streams overlap on one replica, or one is in its grace period while
  the other comes on the same replica or the other one. Streams are used again and again:
  nothing bounds time, only faults. Two commands under way are an unsubscribe and the
  subscribe after it. `MCOnlineTrackerThree.cfg` has two streams on one replica while a third is in
  its grace period, with one command under way; liveness is checked with two streams only.
  Updates are any number: `drafts` keeps both values that they may have read.
* `Accounts`: three ids are two users with default organizations and a third that
  is either of a later user or of a further organization; two people are an owner and
  another owner, an inviter and an invited. Initial states are the tables such users
  can have, so that three calls go into what crosses (a deletion, a log-in on each
  replica; an invitation, a log-in, an acceptance); of those, `MCStart` keeps the ones where
  whoever is cached has an address, and one of each two that swap the users. Two requests at a time is every pair.
* `Vpcs`: four calls are a creation, a request that crosses another, and one that
  depends on both. A private VPC is one with IPAM prefixes, the default one is the one
  with the id of its organization; two agents compete for a key, a group, a VPC. Three
  ids are a single-use key's and two that a creation could draw if it were not bound to it.
* `Peering`: methods concern one peer and the relays, so one peer and one that may be a
  relay meet every row of the table of methods; two loopback addresses make the search
  end empty. A change may be of a device, of our own address, or of what is reachable; the
  coming or going of the relay moves the endpoints behind DERP from one region to the other.
* `Informer`: two informers are the least that share a stream; one more row than the
  first list comes from a write; two resets make a restart of a restart.
* `MaxFaults = 1` (`MaxFailures = 1`) where a module has it, but for `peering_live`, which
  has no faults: faults of different kinds are tried one at a time. In `Accounts` and `Vpcs`
  any request may fail at any step.

`CHECK_DEADLOCK FALSE` is said where calls, transactions, connections or changes are
bounded (`WatchStream`, `DeviceIpam`, `Accounts`, `Vpcs`, `Peering`, `Informer`): when they
are used up and every request is answered, or the agent has crashed, the model rightly
stops. `SignalBus`, `TailCache` and `OnlineTracker` are checked for deadlock.

### Conditions in the properties

Some properties hold only outside of a situation in which the code does something
else; a history variable names it, and the property is stated without it too
where the repository promises so (the configurations above).

* `overtaken`, `resumed` (WatchStream): a commit came after a higher revision's; the
  client resumed before it had seen the tail (the server then forgets which ids it
  has sent, and skips a delete of one of them).
* `lost` (WatchStream): a handler's notification was lost for good (pg_notify failed,
  the process stopped before it, the first LISTEN was still to come). The 30 s
  timeout does not make up for it, since it leaves every watch parked.
* `late` (TailCache): the revisions committed after a higher one.
* `raced`, `undone`, `clean` (DeviceIpam): two requests on one device overlapped; a
  move was rolled back after IPAM had released the old addresses; every request
  succeeded.
* `late` (Accounts): a person was logging in while the person's user was deleted, or Redis did not
  answer the deletion's Del, whose error is only logged (user.go:409); Redis may
  then keep the deleted user's id, and never expires it. `raced` (Accounts): an invitation was inserted after its
  address became a user's, or after its organization ended.
* `Serializable` (Accounts, Vpcs): PostgreSQL's default isolation lets a device into an
  organization, or into a group, between a count and the commit; those conjuncts are
  stated for CockroachDB's.
* `slipped`, `torn` (Vpcs): a row was written to a VPC or service network between its
  deletion's count and the end, or after; a request on a VPC failed half-way.
* `failures = 0` (Informer): after a refused request, an error event or a broken stream
  the informers' lists may be partial, an `Execute` may wait until another one starts the
  stream, and a second error before the tail closes the bookmark channel again, which
  panics. Streams that are only cut, as the proxy does, cause none of it. The model has
  all of this; the properties say what holds without it.
* `ServedInTheEnd` (Peering) leaves out a device whose local address is its reflexive one
  (`twin`; its local methods go to the public address) and one that is never begun
  with, because it registered again with a configuration the agent still has.
* `crossed` (OnlineTracker): a stream connected, or its subscription had not taken effect,
  while a timer was between asking and writing. `lateOn`, `lateOff`: a failed call may have left
  the agent off, or on; `lateOff` also when Redis took longer than the grace period
  to take the unsubscribe of the stream that the timer is of. `stale`: the column is as an update put it
  back that had read it before: a connected agent offline, or one that has gone online
  with no timer left to write it off. Each of the two ends with the next write of the tracker.
* `uses` (Vpcs): a key made for a VPC and a service network makes one of each, so that the
  bound of `SingleUseOnce` is the number of the key's homes; `UsedOnce` is the comment's.
* `HealthyKeepsMethod` (Peering) is about a peer with handshakes whose device and our address did
  not change, on a direct method or behind DERP, and at the endpoint its method gives it in some
  region. The pass may rewrite the port of an endpoint behind DERP to the region in use.

### Fairness

* `WatchStream`: the loop of a running request keeps going; a handler that has
  committed reaches its Notify (or the action that stands for its failure); the
  listener receives, and reconnects (`pq.NewListener` retries with a back-off of
  10 s to 1 min). Nothing obliges clients to connect or transactions to commit.
* `TailCache`: a fetcher that is open keeps fetching: weak fairness of `Fetch(f)`, written
  out in `FairSpec` since `ENABLED Fetch(f)` is costly and is just that f is open.
* `OnlineTracker`: timers go off (`time.AfterFunc`), a handler that has read the
  row goes on, and Redis takes what it was sent, if the connection lasts. No agent has to
  connect or leave, and no update to be made.
* `Peering`: the ticker goes off every five seconds and each time a pass follows; time
  passes. Handshakes are strongly fair: a peer that is configured at a place where it can be
  reached again and again shakes hands within one of those times (`peeringTimeout` is
  longer than WireGuard's retry). Changes and faults are bounded.
* `Informer`: the loop's steps, the goroutines and the server go on. `Execute(k)` is
  strongly fair only while k is signalled or was never executed (the loop's select
  serves each channel in the end, other channels being served in between); the
  loop's polling is not relied on. For the informer of the relays' metadata this is an
  idealisation: the agent executes it only while a relay is among the devices.

All other fairness is weak, and on steps that no other actor can disable for ever.

## Proofs

Nine modules are proved about, all that have a safety property: seven in a module of their
own, the agent's two in `AgentProofs`. Every theorem holds for
any value of the constants that satisfies the module's assumptions: any number of
subscriptions, watches, rows, devices, requests, faults. The last theorem of each chain
is `Spec => []P` (or `Spec => P` for an action property), got from `Invariance: Spec => []IInv`
(`PeeringInvariance: PeeringSpec => []PeeringInv` for `Peering`).
None of the properties is inductive alone, but for a few; what `IInv` adds is why it holds.

| module | theorem | property | what it rests on |
|---|---|---|---|
| `SignalBusProofs` | `TypeCorrect` | `TypeOK` | |
| | `SlicesListOpenSubscriptions` | `RegisteredOnce` | no two names share a backing array |
| | `NotifyStaysInItsName` | `WalksOwnName` | a captured slice stays in an array no other name uses |
| | `NotifyReaches` | `NotifyReachesUnlessReused` (of no run: `KeepsPromise` contains it) | what a call still owes lies ahead of it |
| | `ImplementsPromise` | `KeepsPromise` | both: each step of `SignalBus` is a step of `SignalPromise` or a stutter |
| `WatchStreamProofs` | `TypeCorrect` | `TypeOK` | |
| | `MissesNothing` | `NothingMissed` | the fetched list has every row up to its last; the client's copy is the stream's |
| | `TailTellsTheTruth` | `TailIsCurrent` | an empty fetch leaves nothing above the cursor |
| | `InRevisionOrder` | `EventsInOrder` | the client's cursor is never ahead of its stream's |
| | `WakesUp` | `NoLostWakeup` | inductive with where the loop is |
| `TailCacheProofs` | `TypeCorrect` | `TypeOK` | |
| | `NoneSkipped` | `NothingSkipped` | what is cached are versions in order; a batch has every row up to its last |
| | `ImplementsOrderedFeed` | `ImplementsFeed` | the same: each step of `TailCache` is a step of `OrderedFeed` or a stutter |
| `DeviceIpamProofs` | `TypeCorrect` | `TypeOK` | |
| | `LiveHolding` | `LiveHoldsItsAddresses` | the ledger (below) |
| | `NoLeak` | `NoLeakWhenAllSucceed` | the ledger, in the other direction |
| | `OwnReleases` | `ReleasesOwnOnly` | the ledger: what is to be released is leased for the request's device |
| `OnlineTrackerProofs` | `TypeCorrect` | `TypeOK` | |
| | `Counts` | `CountsItsStreams` | |
| | `OnlineWhile` | `OnlineWhileServed` | a timer that writes off is alone, unless it was crossed; a replica with streams has told Redis last that it has |
| `AccountsProofs` | `TypeCorrect` | `TypeOK` | |
| | `OneUser` | `OneUserPerPerson` | ids are fresh; what a request found is, or was, its person's |
| | `Forgotten` | `DeletedForgotten` | a deletion that is under way has emptied the cache, but for late log-ins and a Redis that did not answer |
| | `OrgsEmpty` | `OrgsGoEmpty` | |
| | `InvitationReaches` | `InvitationReachesUser` | an open invitation's organization is there |
| `VpcsProofs` | `TypeCorrect` | `TypeOK` | |
| | `Outlives` | `NothingOutlivesItsBox` | what a deletion has got to is empty, but for what slipped in |
| | `GroupsOfDevices` | `GroupsThere` | |
| | `PrefixesFollow` | `PrefixesOfVpcs` | a VPC is created by one request, which holds its prefixes |
| | `OnceEach` | `SingleUseOnce` | the count of a key is the number of rows it made that are not collected, and its id is in each table once |
| `AgentProofs` | `TypeCorrect` | `TypeOK` | |
| | `WholeLists` | `ListIsWhole` | the changes on the wire follow the informer without a hole |
| | `PeeringTypeCorrect` | `PeeringTypeOK` | what each method writes is a well-formed entry |
| | `ConfigTrue` | `ConfigIsTrue` | an entry is written to the interface before it is recorded, and a relayed peer has no entry of its own |
| | `OneLoopback` | `LoopbackOfOne` | a loopback address in an entry is leased to the entry's peer, who has no other; no lease is taken back |
| | `KeepsMethod` | `HealthyKeepsMethod` | the same: a pass only adds leases, and the region is the port alone |

### The inductive invariants

* `SignalBusProofs`: no two names share a backing array (`SlicesDisjoint`; otherwise a swap
  for one name would disturb another's list); a slice that a Notify captured stays inside
  an array no other name uses, holds only subscriptions created for its name, and is no longer
  than the name's current slice as long as nothing was closed (`Captured`; an append
  cannot then overwrite a cell it has yet to read); and what a call still owes lies
  ahead of it (`Ahead`).
* `WatchStreamProofs`: each revision is of one row or open transaction (`Revisions`). A
  fetched list holds versions above the cursor and, unless a commit was overtaken, every row up to its
  last (`Fetched`); the client's copy agrees with the rows up to the client's cursor
  (`Kept`) and up to the stream's (`InStep`: between the two lie only deletes the
  client never had). `Loop` bounds the count of parked watches by the position.
* `TailCacheProofs`: a revision is of one row (`Rows`), everything in the ring, the stream or a
  batch is a version that was committed (`Caches`), and a batch answers its reader
  (`Answers`): in order, above the cursor, and with every row that has its revision up to the
  batch's last, but for late ones. The refinement uses nothing more: an answer of
  `OrderedFeed` is given where a `Reply` is.
* `DeviceIpamProofs`: the ledger. A device that is served by a request has what the
  request's remaining calls will release and, in the row to be saved, the addresses of
  the families it has no more to acquire; any other device has what its row says
  (`Holds`). Unless requests raced or a move was abandoned, what a device has is leased
  for it; if all went well nothing else is. This is kept because the calls of a
  handler are `Orderly`: one release and one acquisition of a family, all releases
  first, and a release in an update only for an address that will be replaced (`Runs`). The
  calls are sequences put together from four kinds of parts; the lemmas `Joined`,
  `JoinedOrderly` and `Popped` say what joining them and taking the first off does.
* `OnlineTrackerProofs`: a replica that counts streams has told Redis last, or Redis knows, that it has
  (`Announced`); while a timer writes the agent off no stream is between its read and its
  end (`AloneWhenWritingOff`); a stream that found the agent online has it online still, but
  for what an update put back (`StillOnline`).
* `AccountsProofs`: what is known of each request between its read and its commit
  (`Requests`), ids are given once, a cached id is of the person it is kept for.
* `VpcsProofs`: the same for the requests on VPCs, service networks, keys and groups: how far each deletion
  has emptied its box, and which rows a request has created or read; rows refer only to rows
  that were written (`References`); a single-use key has been used as often as there are rows with
  its name that are not collected, at most one in each table (`Counted`).
* `AgentProofs`, of `Informer`: only the last event on the wire ends a stream, and each restart has a
  reset of its own (`Stream`); an informer has exactly the first rows of its table and the wire the next
  ones, up to the server's cursor (`Rows`); without failures nobody is told of one (`Calm`).
* `AgentProofs`, of `Peering`: every entry that was decided, recorded or deployed has the
  shape its method gives it (`Shapes`); a loopback address in any of them is leased to that
  entry's peer (`LoopsLeased`), the mapping has one address for a key, and a pass only adds to the
  mapping (`Grown`, by induction along the order in which the pass looks peers up); no relay is reached through
  a relay (`RelayedPlain`).

Each `IInv` was checked by TLC on the instance of the run before it was proved. The proofs
have one lemma per action, on lemmas about what the action does to the data.

### Assumptions

The constants' assumptions are few and evaluated by TLC in every run: bounds are natural
numbers (`AccountsAssumption`, `InformerAssumption`, ...), sizes of caches and fetches
are not zero and there is a row (`ConstantsAssumption` of `TailCache`, `WatchStream`), streams are finitely many
and there is a replica (`OnlineTracker`), ids of different tables differ
(`TablesAssumption` of `Vpcs`), "no subscription" is none (`NilAssumption`), a device may advertise
nothing (`ConstantsAssumption` of `DeviceIpam`: `<<>> \in CidrLists`), peers are finitely many, there is a
loopback address, the kinds of devices are well-formed and an agent that is only to be relayed
counts as behind a symmetric NAT, as `New` has it (`PeeringAssumption`).
Nothing else is assumed of the numbers of devices, peers, requests, agents, informers or of faults.

`NonDefault` of `DeviceIpam`, the list without its default routes, is written with the
places of its members and not with `SelectSeq`, which the provers cannot expand.

### Only model-checked

* Liveness: `EventuallyDelivered`, `CatchesUp`, `OfflineWhenGone`, `ServedInTheEnd`,
  `LoopCatchesUp`. Fairness and `ENABLED` are out of this prover's reach.
* The properties of the configurations that TLC refutes, which are false.

## What is not modelled

* Most of the repository's lines: the generated API client (`internal/client/api_*.go`,
  `model_*.go`), the generated OpenAPI document (`internal/docs/docs.go`), flags and
  commands, operating-system set-up (interfaces, routes, packet filters), tests. They keep
  no state that several actors share, and a model of them would say nothing. The modules
  cover the hand-written code that does: `internal/signalbus`, `handlers` with its fetch
  managers, `ipam`, the client's informers, and the agent's reconciliation.
* Authorization, filters of list queries, and the content of answers.
* The device-metadata watch's own filters, and the starvation of later watches by a
  first that always has events (writes are bounded here).
* `PgSignalBus.NotifyAll`'s payload `*`, which nothing calls, and a Listen that fails
  for good.
* IPAM's own storage: it is taken to be atomic per call, to refuse to release an
  address that is not leased or a prefix that does not exist, and to accept a prefix
  that exists already (the client ignores that error). PostgreSQL is taken at its
  default isolation, and `Save` of a row that is gone inserts it, as gorm does.
* Crashes of the API server in the middle of a device request: for IPAM they are the
  same as a call that is cut. In `Accounts` and `Vpcs` they are `Abort`.
* In `Informer`: deletes and revisions out of order (`WatchStream` has them), several
  informers of one kind (`GetInformer` shares the watch of a kind), the end of the context.
* In `OnlineTracker`: a row of the agent that is deleted and garbage-collected while a stream
  is served, and the updates on CockroachDB, which serializes them with the tracker's writes
  (the model's updates are PostgreSQL's, at its default isolation).
* In `Peering`: an agent that is the DERP relay itself, the DERP proxy's port (the proxy is
  restarted with the deployment that rewrites the endpoints), our own registration, the exit node, security groups' filters, keep-alive
  probes (which only report), the relay's client.
  A peer that can only be reached by DERP when the loopback addresses are used up is
  never served; `peering_live` has addresses enough.
* The components marked so in `PROJECT.json`, each with its reason.

## Plan

Done, in this order: `SignalBus`, `WatchStream`, `TailCache`,
`DeviceIpam`, `OnlineTracker`, `OrderedFeed` with its refinement, `Informer`, `Peering`,
`Accounts`, `Vpcs`; then the proofs of all of them; then `SignalPromise` with its refinement.

All safety invariants and action properties of the runs are proved, and both refinements. A
next theorem would be that a fault-free pass of `Peering` leaves the interface as its decisions
have it. (Of `DeviceIpam`'s ledger nothing survives a race: two deletions of one device may
release an address that was given to another device in between.)

Modules worth adding: the life cycle of the agent's userspace proxies
(`userspace_proxy.go`), the composition of `Informer` with `WatchStream`'s cursor.
