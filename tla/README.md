# OVManager in TLA+

This directory holds a TLA+ model of OVManager, the panel that manages VPN
users over a fleet of OVNode agents: what the panel keeps in SQLite, what it
asks the nodes over HTTP, and what happens when the two disagree. The modules
are checked with TLC on small instances and the most important invariants are
proved with TLAPS for every instance.

The nodes' own program is not in this repository. What a node does is modelled
from how the panel uses it and is marked external in `PROJECT.json`.

## The system

The panel is one Go process over one SQLite database. Three kinds of actors
change its state at the same time: HTTP handlers (an administrator's browser),
background workers (traffic, backup, live telemetry, Telegram), and the
`ovmanager` command on the host, which replaces files and restarts the service.
They share the database handle, a handful of package-level mutexes and the
nodes.

| Component | State it keeps | Operations | What is hard |
|---|---|---|---|
| Traffic accounting (`node/traffic.go`, `billing/ledger.go`, `panel/traffic_worker.go`) | `users.used`, `users.node_usage` (baseline and epoch per node, reseed marker), `user_traffic_daily` | a pass: load rows, ask nodes, bill deltas, write back | overlapping passes, concurrent writers of the row, counters that restart, nodes that come and go, partial answers |
| Policy reconciliation (`node/user_policy.go`) | `push_hash` in `node_usage`, `policySyncLock` | a pass pushes every user's effective policy; a hash saves a push | late and lost calls, hashes that lie, a pass that outlives its users |
| Revocations (`node/revocations.go`, `users/models.go`) | `pending_user_revocations` | enqueue in the deleting transaction, bounded retry passes | lost answers, starvation, races with pushes, reuse of ids |
| User accounts (`users/*.go`) | `users`, `deleted_users` | create, update, status, extend, reset, delete, undo, purge, kick | read-then-write races, the undo window, the last user |
| Node management (`node/management.go`, `routes.go`) | `nodes`, `deleted_nodes` | create, edit, delete, undo, re-pin, downloads | clean-up in several statements, reused ids |
| Node calls (`node/client.go`, `fanout.go`) | pooled connections, pins | one call, 429 retry, bounded fan-out with a deadline | calls left behind by a deadline |
| Connection registry (`node/connection.go`) | last outcome per node | record, healthy, forget | stale records, removed nodes |
| Authentication (`auth/*.go`) | `admins`, `sessions`, login buckets, claim key | claim, recover, login, verify, logout | separate locks around a check and its increment, expiry |
| Schema (`db/migrate.go`, `steps.go`) | `PRAGMA user_version`, every table | fresh build, adoption, stamped steps | a kill between two commits, statements outside of the steps, ids across a rebuild |
| Backup and restore (`panel/maintenance.go`) | the database file and pool | snapshot, staged swap, rollback | requests and workers during the swap, crash |
| Backup worker (`panel/backup_worker.go`) | last successful day, pruned files | daily snapshot, offsite copy | retries that prune, a restore under the tick |
| TLS files (`cli/tls.go`, `cmd/main.go`) | key and certificate, declared or in the data directory | install, remove, legacy migration | two plain writes and a panel that starts between them |
| Live telemetry (`telemetry/stream.go`, `handler.go`, `panel/live_worker.go`) | node snapshot, grace, bounded queues | poll, publish, subscribe, fetch | drop-oldest with concurrent readers, stale snapshots |
| Alerts (`telemetry/alerts.go`) | delivered keys, node states, cooldown | node alerts, threshold events, promote, prune | send before record, concurrent callers, restarts |
| Update (`cli/update.go`) | two installation trees, journal and marker | copy, stage, swap, carry, verify, fail over | a kill between any two steps, data inside the tree |
| Release offer (`panel/updater.go`) | a cached answer of GitHub | status | order of versions, retired tags |
| Settings, diagnostics, subscription pages, web interface, installer | tables and files of their own | read and render, one statement at a time | little: see *Not modelled* |

How they interact: a *traffic tick* runs an accounting pass, then a policy pass
(forced every ten minutes), then a revocation pass, over the same rows and the
same nodes. Handlers run the same passes for one user at any time. `node_usage`
is one JSON column written by accounting, by the policy merge, by resets and by
node deletion, each with its own guard. Restores swap the database under all of
them; updates swap the whole installation, and a start of the panel migrates
whatever database it finds. Three parts of the running panel share little with the
passes: logins and recoveries work on `admins` and `sessions`, the alerts of a
metrics pass and the live snapshot on package-level memory of their own.

What makes each component correct is listed under *Properties* for those that
are modelled, and in `PROJECT.json` under `hazards` for all of them, at the line
where each can go wrong.

## Modules

| Module | Models | Checked by | Proved in |
|---|---|---|---|
| `TrafficSync` | the accounting pass of `traffic.go` with its writers and failures | `MCTrafficSync` | `TrafficSyncProofs` |
| `UsageMeter` | what accounting promises: charge traffic at most once | through `TrafficRefinement` | `TrafficSyncProofs` |
| `TrafficRefinement` | the mapping from `TrafficSync` to `UsageMeter` | `MCTrafficSync` | `TrafficSyncProofs` |
| `PolicySync` | one user's policy, hash, calls, downloads, deletion | `MCPolicySync` | `PolicySyncProofs` |
| `RevocationQueue` | the job table over several accounts and nodes | `MCRevocationQueue` | `RevocationQueueProofs` |
| `DatabaseRestore` | the swap of the live database under a running panel | `MCDatabaseRestore` | `DatabaseRestoreProofs` |
| `UserAccounts` | requests on user accounts, deletion and undo | `MCPanelProcess` | `UserAccountsProofs` |
| `OwnerAccess` | setup key, claim, recovery, login limit, sessions | `MCPanelProcess` | `OwnerAccessProofs` |
| `NodeCalls` | the nodes table, pins, shared clients | `MCPanelProcess` | `PanelProcessProofs` |
| `AlertDelivery` | node alerts, threshold events and their delivery | `MCPanelProcess` | `PanelProcessProofs` |
| `LiveView` | the live snapshot, the event bus and a browser | `MCPanelProcess` | `PanelProcessProofs` |
| `PanelProcess` | the five above, side by side | `MCPanelProcess` | `PanelProcessProofs` |
| `UpdateSwap` | `ovmanager update` with kills and failover | `MCHostFiles` | `HostFilesProofs` |
| `ReleaseOffer` | which release is offered as an update | `MCHostFiles` | `HostFilesProofs` |
| `Migrations` | the schema migration of a start | `MCHostFiles` | `HostFilesProofs` |
| `TlsPair` | the certificate and key on disk | `MCHostFiles` | `HostFilesProofs` |
| `BackupWorker` | the daily backup and its retention | `MCHostFiles` | `HostFilesProofs` |
| `HostFiles` | the five above, side by side | `MCHostFiles` | `HostFilesProofs` |

### TrafficSync

State: the users row (`used`, `node_usage` split into baseline, epoch, reseed
marker and push hash), the daily row, the active nodes, the lock, and for each
caller a record of its pass (what it read, which nodes answered, what it works
on). Each node has the bytes it carried and the counter it reports. `charged`
and the history variables record what was billed for which node; no action reads
them.

A pass is `StartPass` (lock, load, list nodes), `NodeAnswers` per node, `Gather`
(the deadline), then for the row `Attempt`, `ChargeNode` per contribution, and
`Commit` or `Miss`, with `Reread`, and three attempts in the code (`traffic.go:211`;
`MaxTries` bounds them). A miss returns before the history statement
(`ledger.go:341-346`); that statement's own error is ignored and the commit goes on, which
`Commit` allows under `HistoryErrors`; only a failed COMMIT takes the history row back
(`RolledBackHistory` in `DatabaseError`). The other writers are
`ResetUsage`, `MergePushHashes`, `DeleteNode`/`RemoveBaseline` (separate
statements), `RestoreNode`; `PanelRestart` forgets memory and keeps the database.

Abstracted: names and alias keys (one key per user and node), JSON, and the byte
count to a small number. One users row stands for all, as rows are processed
independently under one lock.

### PolicySync

State: the user's effective policy (`"on"`, `"off"`, or no row), the recorded
hash per node, the pending revocations, the passes, downloads and revocation
call under way, the account on each node, and `late`: calls nobody waits for any
more. A call is split into waiting, applying and answering, because the fan-out
deadline (`fanout.go:116-159`) returns without cancelling it: `PushAnswered`,
`PushFails` (with or without effect), `PushExpires` and later `LateLands` or
`LateDies`. `doubt` and `strays` are history. `doubt` has the nodes to which something
happened that no hash can know; `strays` those that have, or may have, an account of a
deleted user which no job will remove: because a push landed when the job was done, because
the node was away, or because its job was dropped.

`BeginRevocation` and `RevocationDropped` are the two outcomes of loading the job's node:
`GetNodeByID` gives nothing for a node that is gone, and also when the query of its row or
the decryption of its key fails, and `revocations.go:71-76` drops the job in each case.
`DeleteUser` is `DeleteAccount`'s transaction; `DeleteNode` leaves each of its
clean-up statements undone or done; `PanelRestart` turns calls under way into
late ones. Names and login limits are not told apart: a policy is whether the
user may connect.

### RevocationQueue

State: the id of each account's row, the id sequence, undo snapshots, nodes, the
job table ordered by second, node and user, the batch of the pass under way, and the
pushes that are on their way to a node (`calls`). Accounts are deleted, restored under a
new id and created; nodes stop answering, disappear, or are `unreadable`: registered, but
their row cannot be loaded (a failed query, a key that does not decrypt). `DropJob` drops
the job of any node that is not `Loadable`. A push is begun while the user lives and lands
(`PushLands`) or is lost (`PushLost`) at any time later, also after the deletion and its
delivery; `revived` has the accounts that came back that way. The failed
TryLock of a second caller changes nothing and is no action.

### DatabaseRestore

State: the two files SQLite keeps under the live name (`main` and the
write-ahead `log`), whether the log belongs to that main file (`ours`), the
pre-restore copies (of which restore, and what they hold), the published pool, the restore under way, and each client:
a request (`Tracked`, counted by `TrackActive`) or a background worker, which
nothing counts. A database is the set of writes it holds. `acked` and `promised`
are history: what clients were told is committed, and the part of it that was
committed while nothing was being replaced; `retired` the part of that which was nowhere
but in copies when they were pruned.

A restore is `BeginRestore` (lock, candidate, schema check), `SafetyCopy`,
`StageCandidate`, `ClosePool` after the drain or its deadline, `RemoveSidecars`,
`Rename`, `OpenLive`, `Verified`; the failures are `GiveUp`, `RenameFails`,
`OpenFails`, `VerifyFails`, and then `RollBack`, which runs the same steps over
the rollback copy, or `RollBackFails`. `PanelRestart` may come between any two of
them. Clients read the handle, take a connection, commit and give it back at any
time; a handle is *stale* once another pool is published, a connection an
*orphan* once its log was unlinked.

Taken from SQLite and `database/sql`, and marked external: a commit appends to the
log the connection has open; the last connection to close moves the log into
the main file; a closed pool lends no connection but leaves lent ones open. A
crash is one of the process, not of the machine: what was written stays.
`SafetyCopy` prunes as `createPanelBackup` does, oldest first (`KeepCopies`, ten in the
code, `maintenance.go:385`); copies are ordered by the restore that made them, so a clock
that goes back between two of them is left out. The event a restore records about itself is
no client's write and is left out too.

### UserAccounts

State: per uuid the `users` row (`used`, whether quota and expiry *entitle* the
user, `is_active`) and the `deleted_users` row; the requests under way, each with
the row it read. `AccReads` and then `AccUpdate`, `AccStatus` or `AccExtend` are
the read and the later UPDATE of a handler: what the request does not set is
written back as it read it. A deletion is `AccSnapshots` (the read outside the
transaction) and `AccDelete` (the transaction with its own count of rows);
`AccPurges`, `AccPurgeNext` and `AccPurged` do the same one account after the
other. A restore is `AccReadsUndo`, `AccInsert`, `AccForget`. The traffic pass is
`AccCharge`, time `AccExpires` and `AccWindowEnds`. A snapshot that cannot be read
(`models.go:231-234`) is replaced by a stub without usage, and the deletion goes on: `Stub`,
for the accounts of `Unread`.

History: `billed` is what the traffic pass charged. What is in no row and no snapshot is
counted from the windows that lose it, never from the snapshot: each request under way
carries in `short` what was charged and is not in the row it read: it grows with every
charge between that reading and the write, and a stub starts with everything. A write moves
it to `missed`. `raced`, `lapsed` and `owed` name the other exceptions the properties make,
so that each is an exact window and no more.

`Edited` and `Removed` say which accounts are edited and deleted; editing and
deleting the same account is left out, as an update of a missing row does nothing.

### OwnerAccess

State: the owner's row, the setup key, the sessions, and the login bucket twice,
in memory and in its row. A login is `OwnLogin` (the check), `OwnCompares`,
`OwnRehashes`, then `OwnFails`, or `OwnClears` and `OwnOpens` (the bucket in memory, then its
row and the session), each under the lock of its own that the
code takes; `OwnPresentsKey` is the comparison of the key, `OwnClaims`,
`OwnRecovers`, `OwnRevokes` and `OwnUnlinks` are the statements after it, and `OwnTurnedAway`
their refusal. One of the
three buckets stands for all, as they are checked and raised alike. Sessions carry
`since`, the number of recoveries before them, which no action reads.

The code looks at few of its errors here, and the model has each outcome. The
INSERT of a bucket fails or its row cannot be read (`OwnFails`, `Buckets`), the row is among
those `PurgeExpired` cuts (`OwnRowCapped`), the bucket is dropped from a full memory
(`OwnBucketEvicted`): `lost` counts those that lose a count, up to `MaxLost`, and `spent`
forgives what they lose. `RevokeUserSessions` fails and the recovery goes on
(`OwnRevokes`, `claim.go:211`): that is in `unrevoked`, with a death before it and with a
claim over a row another claim has taken.

### NodeCalls

State: `nodes` and `deleted_nodes` rows (place and pin), the certificate each place
shows, the registry of shared clients, and per caller the row it read and the
client it got. `NodeReads`, `NodeLooks`, `NodeInstalls` (the second look under the
lock), `NodeAnswers` or `NodeFails` are one call. An edit is `NodeEdits` (the row is read),
`NodeSaves` and a call over a client it builds for itself (`management.go:536-546`); that one
has the id 0, so that neither its outcome nor its use of the fallback is recorded. Without a
pin the authorities of the system decide (`Verified`, `Vouched`, `client.go:350-355`), and
where they do not vouch, `NODE_TLS_INSECURE_FALLBACK` (`Handshake`). The other actions are the
administrator's. What deletion does to the users' baselines and jobs is in
`TrafficSync` and `RevocationQueue`.

### AlertDelivery

State: the threshold condition, whether the node answers, refuses or is silent, the
bot; `audit_logs` rows and delivered keys; the maps `checkNodeAlerts` keeps in
memory; the passes under way. A pass goes through `NodeChecked`, `NodeSent`,
`ItemsRead`, `EventRecorded`, `Queried`, `EventSent`, `EventDelivered`,
`EventStamped` and `Pruned`; the pass the owner asks for and that of the worker
interleave. `received` and `told` are what reached the owner. Of a behaviour either the
node or the threshold changes (`topic`): the two halves of a pass share the bot
and nothing else.

### LiveView

State: the snapshot with the grace of each node and its age in ticks, the
collector's pass, the subscribers' queues, the `Publish` calls under way (a copy of
the subscribers, and whether the oldest event was dropped already), and per browser
whether it has yet to fetch and what it shows. `NodesChanged` is what `sameBools` computes
and not inequality: of two maps of one length it looks up each new node in the old one,
where a missing key reads false, so that a node may give its place to
one that is offline and nothing is published; `misled` has the browsers such a swap (`Swapped`)
passed by. `DropsOldest`, `Sends` and
`DropsNewest` are the three non-blocking channel operations of `Publish`. It serves its copy of the
subscribers one after the other in an order nobody knows (a Go map): `AtHand` says whom a
call may turn to, and that it ends with one before it goes on to the next.

### UpdateSwap

State: what lies at each of four places (install, previous, stage, outer): a release tree
and the data directory in it, with the database, its copies, the journal's phase and
the marker. `inTree` says whether the data directory is inside the tree. Each action
is a step of `runUpdate` between two file operations, with its failure branches as
disjuncts; `Launch` gives the outcomes of `systemctl restart` (the release migrates
the database it finds, or not, and stays up, or not). `UpdKilled` may come
between any two steps, the panel writes whenever it serves, and the command may be
run again. `broken` remembers a kill or a rename back that failed.

### Migrations, TlsPair, BackupWorker, ReleaseOffer

`Migrations`: the database as far as a step can change it (stamp, tables, columns, the owner
index, administrators, users and their id sequence, snapshots, one secret, old
sessions) and the statements left of the running start; each commits by itself, a step
with its stamp. A kill or an edited environment may come between starts. The steps
that only add columns or tables are the identity: `reconcileColumns` and
`createExtraTables` add all of them on every path. `MigBreaks` is a statement that fails
other than by the schema, such as a secret that cannot be encrypted: the step is rolled back
and the start ends.

`TlsPair`: the four files a pair can be in and the two writes of `tls install` and of the
self-signed command, the removal, and the copy a starting panel makes. `Torn` is a file cut
off by a failed write. An install takes a certificate and a key that may not match, as
`tls.go:82-102` does not compare them: the panel does not come up with those.

`BackupWorker`: the days of the backups of each label, the recorded day and the tick
under way with the handle it read (`stale` after a restore); a copy that fails, a
rejected file, backups by hand, restores and restarts. The record is read and written
without a look at errors: `BakTickMisreads` takes the day for open, `BakRecordFails` leaves it
open. The time zone stays: moving it makes days begin again, and multiplies the states.

`ReleaseOffer`: what GitHub would answer, the cache of an hour and `versionNewer`.
A tag is the sequence of its leading numbers.

### HostFiles and PanelProcess

Both put five modules side by side and let one of them, `part`, move in a behaviour.
The parts share no variable, so a step of one commutes with every step of another,
and no property names two of them: a property holds of all interleavings if
and only if it holds with the other parts at rest. The full product would only multiply
states. The parts at rest stay in one initial state, so that none is counted twice.

## Runs

| Run | Bounds | Shows |
|---|---|---|
| `traffic_one_node` | 1 node, 2 callers, 2 bytes, 2 counter runs, 2 tries | the accounting invariants with overlapping callers, history errors, resets, removal, restarts |
| `traffic_two_nodes` | 2 nodes, 1 caller, 1 byte, fairness | partial answers; the refinement of `UsageMeter`; every countable byte is billed in the end (`UsedMatchesCharges` is checked by the run before) |
| `reset_forgives` | 1 node, 1 caller | **violated**: a reset during a pass is seeded from older answers |
| `policy` | 1 node, 2 callers, deletion, restore, rebuild, fairness | hashes tell the truth; no owed revocation is dropped; policies and deletions converge |
| `policy_deleted_stays_gone` | 1 node, 1 caller | **violated**: a push under way brings a deleted account back |
| `revocations` | 2 accounts, 2 nodes, 2 ids, passes of 3, 1 push on its way, fairness | no live user is revoked, no job is lost, a healthy node gets its revocations |
| `revocations_starved` | passes of 2, the flaky node has 2 jobs | **violated**: a silent node starves a healthy one |
| `database_restore` | 1 request, 1 worker, 2 writes, 3 restores, 2 copies kept, fairness | files, writes and pool survive every failure and crash of a restore, and the pruning of copies; each restore ends |
| `restore_fallback` | 1 request, 1 write, 1 restore, 10 copies kept | **violated**: a write acknowledged after the safety copy is lost |
| `host_files` | 2 updates, 2 releases with their own schema, 2 writes; 4 tags, lists of 2; 5 legacy databases and the empty one, 2 environments; 2 key pairs; 3 days, 2 automatic backups kept, 1 by hand; fairness | updates, migrations, TLS files, backups and offers through failures and kills |
| `update_rerun` | the same, the update alone | **violated**: a killed update that is run again removes the only copy of an in-tree data directory |
| `panel_process` | 3 accounts (two of one name, one a deletion may fail to read), 2 requests; 2 names, 1 password, 2 callers, 1 key, 2 recoveries, 1 session, a limit of 1, 1 statement on the bucket's row lost; 1 node id, 2 places, 2 certificates of which an authority vouches for one, 2 edits, 2 callers; 2 collectors, 2 events, batches of 1, 1 restart; 2 nodes, 1 browser, a queue of 1, a cap of 1; fairness | accounts, access, node calls, alerts and the live view under interleaving requests |

The bounds are enough for the cases in question: two callers are what a race
needs, two tries are a first attempt and one on a re-read row, two counter runs
are one restart, two bytes are a baseline that is passed by a later counter, two
nodes are what partial success and ordering need. `Flaky` and `Removable` name
the nodes that failures may hit; the others show that they are not affected. The
limit of a revocation pass is 20 in the code (`traffic_worker.go:91`) and 2 or 3
here; only its relation to the number of jobs matters: in `revocations` the
flaky node cannot fill a pass, in `revocations_starved` it can. Three restores with two copies
kept are a restore of the copy an earlier one made, and one that prunes the oldest; two
writes are one in a copy and one not. For `host_files`: two updates are a killed run and the one after it; two releases
with their own schema make a failover that has to restore the database and one that need not;
the legacy databases are of versions 0, 11, 25, 32 and 33, that is, of both sides of every
step that does more than add (12 to 29), of the current version and of a newer release, and
hold several administrators, snapshots with larger ids than users, and secrets of
three kinds; three days with two kept are what pruning needs. The tags are one of the
current line, a retired one, an older one and one without a number. For `panel_process`: two requests
race, three accounts leave one for the guard of the last user, and two of them share a
name, which a restore can lose to a creation; a limit of one and two callers exceed it by
the requests already past the check; with one password a wrong one is one
given under another name, or while the owner is not claimed; two recoveries are one that
fails to revoke and one that makes up for it; two places and certificates under one id are a node
that was replaced, edited or restored behind a shared client; two collectors overlap; a
queue of one overflows, a cap of one drops a node.

Only `traffic_one_node` uses symmetry (of callers and hashes, which no
definition orders); the other passing runs check liveness and use none.

## Properties

* `NoOvercharge`: no node is charged for more than it carried.
* `UsedMatchesCharges`: `users.used` is what was charged since the last reset,
  whichever writers raced.
* `HistoryWithinCharges`: the daily history never holds more than was charged, and less
  only where its own statement failed.
* `BaselineHolds`: a baseline goes back only with its epoch or a reset.
* `ImplementsMeter`: accounting implements `UsageMeter`.
* `CatchesUp`: liveness of accounting.
* `HashTrusted`: outside `doubt`, a recorded hash is the node's state, so a pass
  that skips on it skips rightly.
* `RevocationOwed`: an account of a deleted user on a registered node has a job, but for
  `strays`: what a late push left, and nodes that could not be loaded when their job
  came up.
* `PolicyConverges`, `DeletionConverges`: liveness of policies and deletions; a deletion
  reaches every node but the strays, whose jobs are gone.
* `LiveUsersSafe`: no job or batch names a user that exists.
* `DeletedAreOwed`: an account of a user that is gone, on a node that was always registered
  and could always be loaded, has its job, unless a push that landed after the delivery
  brought it back.
* `JobsEndDelivered`: a job ends by delivery, or because its node cannot be loaded.
* `ReachableDelivered`: liveness of the queue for a healthy node.
* `NoForeignLog`: no log of one database lies beside the main file of another,
  where the next start would recover it.
* `AcknowledgedKept`: a write acknowledged while nothing was being replaced is in
  the live database or a copy, through restores, rollbacks and crashes, until the last copy
  that holds it is pruned.
* `PanelServes`: after a restore the pool is open, or the caller was told that the
  data is not safe.
* `RestoreEnds`: a restore ends although a request it waits for may never end.
* `DeletionKeepsAccounts`: removals and purges at the same time leave a user, and a
  deleted account can be restored with what was billed to it, but for what was billed
  between the reading of its row and the write of it, and but for a row that could not be read.
* `ActiveIsEntitled`: an active account is entitled, but for the windows `raced` and
  `lapsed` name: it is about what each writer checks, and not about those windows.
* `RecoveryEndsSessions`: after a recovery no older session is accepted, unless it
  died before it revoked them, the revocation failed, or a claim landed on a claimed row.
* `LockoutHolds`: no more wrong passwords are compared than the limit and the other
  requests that run at once, restarts included, but for counts the database lost.
* `AnswersArePinned`: an answer came over the pin, and from the place, of the row its
  caller had read or the edit it made, whichever client it shared. Without a pin an
  authority vouched for it, or it came through the fallback and that is on record, but for
  the client an edit builds for itself.
* `OwnerIsTold`: no threshold event is put aside before the owner received it (`NoEventLost`),
  every one reaches the owner in the end, and the last word on
  a node that goes on refusing is that it is down. That a message is sent twice, and what
  overlapping passes leave as the last word, it does not say.
* `NodesShownTruly`: once nothing is on its way a browser shows every node that is online,
  and, but for the swaps `sameBools` cannot tell, exactly the snapshot; and a node
  goes offline only after two polls without an answer.
* `UpdateKeepsAll`: some tree is always left to serve or recover, and acknowledged
  writes are in the live database between updates, except in-tree after a kill.
* `UpdateEndsAsReported`: `committed` and `failed_over` mean what they say of release,
  tree and schema.
* `MigratedWhole`, `MigrationEnds`: a panel that comes up has a whole schema, one owner,
  no plain secret and no old session, whatever starts were killed; and it comes up.
* `UserIdsNotReissued`: no id of a user that lives or can be restored is given again by a
  creation; the first user of a fresh build is seeded and not covered.
* `BackupsAsRecorded`, `BackupDayEnds`: a recorded day has its verified backup and copy,
  no day has two as long as no copy, record or tick failed and no restore came between,
  and a due day gets recorded however often a copy fails.
* `OfferIsUpgrade`: only newer releases of the current line are offered, and the highest,
  if no tag is of the retired line.
* `TlsServesAsTold`: a starting panel serves the pair the last undisturbed command
  installed, nothing if its halves do not match, or plain HTTP after a removal.

Every property of a passing run is shown to depend on the code by a mutant: an
operator beside the definition it replaces, marked *Mutant* in the module, with
which TLC violates the property.

## Fairness

Workers tick for ever (`traffic_worker.go:49-64`, `runGuarded` survives panics),
so starting a pass is weakly fair. A pass never blocks: a fan-out returns at its
deadline, calls have timeouts, the rest is local. A node that is asked again and
again answers in time once (strong fairness of the answer): without it nothing
the panel does can converge. Disturbances (people, crashes, writers) may happen
any number of times and then stop; this is stated as "in the end only the steps
of the passes are left", not as the absence of each disturbing step, because
some disturbances have the effect of an ordinary step. So `CatchesUp` says nothing of a row
other writers change for ever, where every pass uses up its attempts.

`revocations` assumes less: accounts and the flaky node may change for
ever, and the flaky node need never answer.

`database_restore` assumes only that the steps of a restore go on: they are file
operations and a wait with a deadline. Requests and workers need never finish,
which is what makes the deadline necessary: a request may itself be waiting for
`maintenanceLock`.

`host_files`: systemd starts the panel until it stays up (`Restart=on-failure` in the unit
file), so the statements of a start go on (`MigWork`); the ticker of the backup worker
fires every minute and a copy has a timeout (`BakTick`). The updater, the operator and GitHub are not fair.

`panel_process`: the live worker ticks for ever (`Collect(Worker)`), a pass that began goes
on because every send and every call has a timeout (`PassMoves`), and the cooldown runs
out. `OwnerIsTold` assumes that the bot works in the end; requests, logins and
browsers are not fair. The other properties of the run are safety.

## Proofs

The eight proof modules hold for any sets of nodes, callers, accounts, clients and
secrets and any bounds that satisfy the named assumption of the module they are about
(`ConstantsAssumption` and, by component, `AccountAssumption`, `AccessAssumption`,
`NodeAssumption`, `AlertAssumption`, `LiveAssumption`, `UpdateAssumption`,
`OfferAssumption`, `MigrationAssumption`, `TlsAssumption`, `BackupAssumption`). These
ask that sets be finite or not empty, that bounds be numbers, that a special value be none
of the ordinary ones, and, for the nodes, that ids be 1 to some number.
`LegacyAssumption` says what the releases before left behind: databases as far as their
stamp says, no two administrators of one name. `NodesFinite` is what the sums of the
refinement need. TLC evaluates each on its instance. One theorem has a hypothesis
of its own: `OffersAreUpgrades` is about releases of at most three parts
(`ThreeParts`), as are all that the code and its tests name. Nothing else is assumed.

* `TypeCorrect` in each of the first four: the types are inductive on their own. Not so
  in `UserAccounts`, where what is kept of an account is compared with what was billed
  (`AccTypeCorrect`), nor in `OwnerAccess`, where the bound of `spent` comes from
  `LockInv` (`OwnTypeCorrect`).
* `UsedIsCharges`: inductive given the types; the guard on both columns is what
  the `Commit` case needs.
* `NoDoubleBilling`: by `LedgerInv`. A caller's working copy is compared with
  what the node had carried when it answered, and only the holder of the lock
  has a copy, so that no two copies of one baseline are billed.
* `HistoryIsCharges`: inductive given the types. Usage and history move in one transaction:
  a miss runs no history statement, and a COMMIT that fails takes both back.
* `BaselinesNeverLowered`: by `HeldInv`: what an attempt will store is no lower than what it
  read, unless that was reset or the epoch moved (`HeldBack`), and the guard of
  the commit makes what it read the row.
* `RefinesMeter`: every step of `TrafficSync` is a step of `UsageMeter` or a stutter. The one
  that bills is the commit: what `used` grows by is the sum over nodes of what
  the columns grow by, each within what the node carried since its last charge, by
  `LedgerInv` and lemmas about sums over finite sets.
* `HashesTrusted`: by `HashInv`. Between an acknowledgement and the merge that
  records it, the truth is in the pass (`Truth`), and the lock makes that pass the
  only one (`Exclusive`). `Lifetime` is needed because a revocation changes the
  node without touching a hash: by then no hash is left.
* `OwedRevocationsKept`: by `OwedInv`. `RevocationOwed` alone is not inductive: a
  node that is restored must be known to have lost its job while it was away. A dropped job
  makes its node a stray in the same step; no other step takes the job of a registered node
  that has the account.
* `RevocationsSpareLiveUsers`: by `IdInv`. Every id in a row, a job or a batch is
  at most the last one handed out, and no two rows share one.
* `JobsAreDelivered`: by `JobsEnd`, one case per action: a job leaves the table with the
  account, or when its node cannot be loaded.
* `DeletionsAreOwed`: inductive once it is known which nodes are always registered and loadable
  (`NodesKept`): only those are written every job and never lose one undelivered. A push
  that lands late either finds the job still there or adds the account to `revived`.
* `LogsMatch`, `AcknowledgedSurvive`, `PanelAlwaysServes`: by `SwapInv`
  (`SwapSafe`). None of the three is inductive alone: that no log exists when the
  file is renamed needs the pool to be closed and every connection to have lost
  its log by then (`NoLogBeforeRename`, `OrphansAreCut`), and that the renamed
  file may forget what it replaces needs the copy to cover it (`CopyCovers`).
  `ClosedInSwap` says where the pool can be closed at all.
* `NothingRetired`: while no more restores were begun than copies are kept, `retired` is
  empty, so that `AcknowledgedSurvive` then makes no exception. The copies are of different
  restores, all begun by then, so that their number is at most that of the restores.
* `ActiveAreEntitled`: inductive given the types. Each write that can leave an account
  active adds it to `raced` or `lapsed` in the same step, which is the point: there
  is no third way.
* `DeletionKeeps`: by `UndoInv` and `CountInv`. The part `ForgetOwesNothing` of the first is needed because a restore
  deletes the snapshot in a statement of its own: by then the row is back, or the
  account is not owed. What a request read and the `short` it carries are together what was
  billed, until it writes both. That a user is left needs the count inside the transaction, and
  is proved from the cardinality of the set of rows.
* `LimitHolds`: by `LockInv`. What was compared is what a bucket, in memory or in its row,
  holds and what is under way between comparison and count; the last of the callers to pass
  the check found the bucket below the limit; and what a statement that failed took
  away is forgiven in the same step.
* `RecoveryHolds`: by `RecoveryInv`. An owner that is not claimed has no session; and unless
  `unrevoked`, either every session of the owner's name is of now, or a recovery that gave the
  owner that name has still to revoke, so that the revocation finds them all.
* `AnswersPinned`: by `PinInv`. A client belongs to the row its caller read or wrote, or the
  caller has none: neither an edit nor the replacement of a shared client reaches a call
  under way.
* `EventsKept`: by `AlertInv`. That no event is put aside unless the owner received it holds
  because of `MarksEarned`: whatever is marked as delivered, in a row, in a key or in the
  pass under way, was received; a restart and the pruning of keys only take marks away.
* `ViewIsTrue`: by `LiveInv`. A page that differs from the snapshot has an event in its
  queue, a fetch to make, a poll about to publish or a call of `Publish` that has yet to
  come to it, unless its queue overflowed or a swap went by unannounced (`Shows`): two
  unequal snapshots that `sameBools` takes for equal have no node newly online;
  calls send only to browsers that are still there (`CallsInOrder`); and a node on its grace
  missed the last poll, so that it goes offline on the second (`GraceEarned`).
* `PanelTypes`, `PanelSafe`: each step of `PanelProcess` is a step of one part and stutters
  in the others, so what is proved of a part holds of the composition. The same argument
  (`HostParts`) carries the theorems below to `HostFiles`, whose types are `HostTypes`.
* `UpdateSafe`, `UpdateReports`: by `UpdInv`. That a release is always left needs to know
  which places hold a tree at each phase of a run (`TreesKept`, `PhaseOpen`); that
  acknowledged writes are in the live database needs where the journal and the copies are
  while a window is open (`PromisesKept`); that the service can serve what it finds needs
  the schema of each database (`ServiceFits`, `SchemaKnown`).
* `OffersAreUpgrades`: the scan of the tags finds a release of the current line if there is
  one, and the highest: by a least counterexample over the length that was scanned, since
  versions of up to three parts are in a linear order (`AboveIsAnOrder`) that
  `versionNewer` decides (`NewerIsAbove`).
* `TlsServesTold`: by `TlsInv`: what the last undisturbed command achieved, a pair or two
  halves that do not match, is in the files that the declared paths lead to, as long as no command runs and nothing was edited.
* `BackupsRecorded`: by `BakInv`. A recorded day is proven by a verified file or is one a
  tick is about to record (`RecordProven`); while nothing went wrong the automatic backups
  are of different days, none later than the one at work (`AutoInOrder`), so that
  a proven one leaves only when the label is full.
* `MigrationsWhole`, `IdsNotReissued`: by `MigInv`, which says of the statements left of a
  start what they still owe: the tables and columns of the schema, the cleaning up of
  secrets and sessions (`Cleaned`), the id sequence (`IdsKept`) and the owner
  (`OwnerKept`). It holds between any two statements, hence after any kill.

Only model-checked: the liveness properties (`CatchesUp`, `PolicyConverges`,
`DeletionConverges`, `ReachableDelivered`, `RestoreEnds`, `MigrationEnds`, `BackupDayEnds`
and the two parts of `OwnerIsTold` that are about what happens in the end), as the prover
treats neither fairness nor ENABLED. Every invariant and every action property of a passing
run is a theorem. A model had to change where it could not be reasoned about:
whom a `Publish` serves next was chosen anew from a set that others change, and could
move a call to another subscriber after it had made room for one. `AtHand` fixes
the subscriber until the call is through with it.

## Where the code and its documents disagree

* A usage reset that lands while a pass has already gathered answers is seeded
  from them (`traffic.go:221`, against the comment at 226-228).
* A deleted user's account can come back after the node acknowledged the deletion
  (`user_policy.go:206`, against the wiki page on users).
* Revocations of healthy nodes are not delivered on the next tick once silent
  nodes hold the first twenty jobs (`revocations.go:47`, against
  `users/models.go:179`).
* A restore accepts and acknowledges writes between its safety copy and the
  closing of the pool; they are in no database afterwards (`maintenance.go:385`,
  against the wiki page on backups).

* An update killed after both renames and before the carry, and run again, removes the
  only copy of a data directory inside the tree (`update.go:271`, against the comment at
  287-288; run `update_rerun`).
* Polls come every second tick while a browser watches, and at about 330 seconds when idle,
  past the 300 in which a snapshot counts as fresh (`telemetry/handler.go:571`, against
  569-570).
* A node that keeps silent is never reported down: its call is overtaken by the deadline
  of the fan-out and its row left out (`telemetry/handler.go:421`, against 311-313).
* Creating or extending an account may leave one active that is expired or exhausted, until
  the next traffic pass (`users/handler.go:588` and 244-270, against 677-678).

The last three are facts of one step; the modules contain them (`TickSkips`, `ProbeRow`,
`lapsed`) and the properties except them by name, so they have no run of their own. Other
such facts, met while modelling:

* A revocation job is dropped when its node cannot be loaded, for whatever reason: a query that
  failed once, or a key that does not decrypt, loses the job of a registered node, and the
  deleted user's account stays there (`revocations.go:71-76`).
* `sameBools` reads a missing key as false: when a node leaves the snapshot as an offline one
  enters it, nothing is published and an open page goes on showing the one that left
  (`stream.go:410-420`).
* A recovery whose `RevokeUserSessions` fails says so nowhere and leaves every session valid that
  has the owner's name (`session.go:180-184`, `claim.go:211`).
* A deletion whose snapshot cannot be read goes on with a stub: the undo brings the account back
  without its usage and its settings (`models.go:231-234`).
* The client an edit of a node builds has the id 0, and `client.go:40` records no use of the
  fallback for it: such an edit talks to an unverified node without a trace.
* The INSERT of a login bucket is not checked (`auth/handler.go:411`) and its rows are capped
  (`session.go:213-226`): a restart then forgets failures. `tls install` does not check that
  certificate and key match (`tls.go:82-102`); the panel does not come up with such a pair.
* A download ignores the result of the policy push before it (`management.go:876`); a restore
  into a panel whose pool is closed can only give up, as its safety copy needs one.
* A message is sent before it is recorded: a crash in between, or the other collector, sends
  it again, where `alerts.go:93` says "once each". Overlapping passes may also leave "up"
  as the last word on a node that is down.
* The newest event can be dropped although an old one was taken out for it: another
  publisher may fill the room first (`stream.go:82-95`). The page is fetched again later.
* A deleted node stays in the live snapshot until its grace ends, and takes one of the places the
  cap leaves; an outcome recorded by id is recorded for whichever node has that id now.
* The three login buckets are checked under one lock each and raised under others, where
  `auth/handler.go:65` says "atomically"; hence the `+ callers` of `LockoutHolds`.
* The rehash of a login updates by name and can put the old password's hash over that of a
  recovery; a claim can unlink a key that was minted after it looked.
* Restoring a node under an id that is taken drops the snapshot. A fresh build killed after its
  index and started with another `ADMIN_USERNAME` can never complete.
* `updater.go:158-161` starts from the first tag: a retired one listed first hides newer
  releases of the current line.
* The marker that `update.go:259` writes to pause writes is read by nobody.
* Comments only: `connection.go:127` says healthy while unknown; `migrate.go:10` says
  version 29 for 32; the header of `sweep.go` claims a fan-out to the nodes.

## Plan

What is left, in order of importance:

1. The batch that sets session limits, and the kick of a session, as calls to nodes beside
   those of `PolicySync`.
2. Retention and the daily sums of the usage ledger over several days.
3. The start of an update by the panel, in a unit of its own, beside `UpdateSwap`.
4. The commands of the Telegram bot, with the pool it keeps across a restore.
5. Proofs of what holds where a run shows a violation: that a deleted account comes back
   only through a call that was under way, and that an update loses an in-tree directory only
   by a kill between the renames and the carry.

## Not modelled

* *Settings*: single statements on one table; a module that depends on a setting takes it
  as an input. Only the backup worker's settings change during a behaviour.
* *Node diagnostics, contract and PKI, health, dashboards, the rest of the telemetry queries*:
  they read, aggregate and format; what they ask of a node changes nothing the panel keeps.
* *Session limits and kicks, retention of the ledger, the bot's commands, the updater's start
  and log*: see the plan. The cleanup of the maintenance page deletes what no property is
  about.
* *TLS*: `panel/tls_cert.go` has a writer that nothing calls; the Let's Encrypt command is
  left out: it adds where a pair comes from.
* *Subscription pages and portal security*: rendering, and a limit per address.
* *Secrets*: cryptography; that a key can be read, or is kept in plain text, is a bit of
  `RevocationQueue` and `Migrations`.
* *Web interface, installer, service scripts*: not Go, and run by people.
* *The node agent* is outside this repository.

`PROJECT.json` lists every part with its state and its reason.
