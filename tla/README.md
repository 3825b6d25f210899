# log-less: a TLA+ verification project

log-less is an edge log store: one process per machine takes records from files,
HEC, OTLP, Sentry clients and other instances, puts them into a write-ahead log,
merges closed WAL segments into partitioned Parquet files, keeps the store inside
a disk budget, and sends chosen records and finished files on to peers, vendors
and a central store. What it promises is easy to say and hard to test: a sender
that was told "you may forget your copy" never loses a record, whatever crashes,
and no record is stored twice or counted twice on the way.

The modules model the code under `src/crates/`; `PROJECT.json` maps
definitions to the lines they stand for (a helper whose lines are those of a definition
that is mapped is not listed again).

## 1. The system

| Part | State | Operations | Hard because |
|---|---|---|---|
| Ingest queue (`queue.rs`) | bounded channel, six atomic counters | `submit`, `next_batch_lingering`, `drain` | counters and channel are not updated together; full queue, bounded wait, vanished consumer |
| Write-ahead log (`wal.rs`, `run_wal_writer` in `main.rs`) | two directories of segments, two `WalWriter`s, the published synced count, the published active ids | `append`, `maybe_sync`, `sync`, `roll`, `open`, `publish` | one count for two logs; syncs done by rolls; crashes inside segment creation |
| Merge, compaction (`merge.rs`, `compact.rs`, `maintenance_pass` in `main.rs`) | the store's files, the catalog's `files` and `merged_segments` | `merge_all`, `commit_merge`, `compact`, `record_compaction`, `rebuild` | runs beside the writer on its directory; crash between any two of write, commit, delete; a live policy |
| HEC requests and acks (`hec.rs`, `hec/event.rs`, `hec/ack.rs`) | per channel: next id, floor, pending ids; watermarks per batch; counters | two judgements, parse, admit, capacity check, `issue`, `bind`, `query` | request threads, record path and writer touch the table in any order; ids outlive the process at the client |
| OTLP receivers (`otlp/*.rs`) | one HTTP/2 connection: streams, credit, header table; two decoders | frames, `finish`, GOAWAY; preflight, decode, submit | streams interleave on shared connection state; two encodings of one message |
| HTTP server (`bounded_http.rs`, `httpd.rs`) | acceptor, active count, stop flag, bytes read | accept, head, body, inflate, answer, shutdown | flag, wake-up and count race; limits at every stage |
| File tailing (`tail.rs`) | cursor per file, open handles, checkpoint | discover, poll, rotate, truncate, save | the checkpoint and the WAL are synced independently; files change between polls |
| Peer receiver (`peer.rs`) | tickets, abandoned tickets, dedupe log | `ingest`: loop check, settle, dedupe, room, issue, wait, abandon, save | timeouts race late syncs; the shutdown waits for requests that wait for the WAL |
| Peer sync sender (`sync.rs`, `spool.rs`, `sync_policy.rs`, `sync_signals.rs`) | tap, spool, cursor, target, planner windows, detector baselines | offer, plan, spool, deliver, `set_target`, fetch, drain, stop | torn tails, a cursor of its own, change of target and stop between any two steps, counts and records of one event |
| Vendor forwarding, context ring (`forward.rs`, `ring.rs`) | channel, spool, rollups; recent lines, seen flows, two budgets | dispatch, replay, flush; record, window | retries per destination, commit after dispatch; budgets on their own clocks |
| Sentry proxy (`sentry.rs`, `sentry/*.rs`) | spool, rate limits by category, back-off | post, filter, relay, drain | a batch stops half-way; limits arrive with answers |
| Parts (`parts.rs`, `parts_edge.rs`, `parts/replicate.rs`, `restore.rs`) | inventory, uploads, reservations, retire queue, replication window | upload, commit, retire, sweep, replicate, restore | two machines, each may crash between the steps of a handshake; two threads share a state file |
| Retention, disk budget (`retention.rs`, `budget.rs`) | files, catalog rows, free space | expiry, reclaim in order of value, pins | deletes files, then rows |
| Policy (`policy.rs`, `policy_store.rs`, `policy_impact.rs`, `admin_api.rs`) | the document in force, `policy.json`, the audit log, preview tokens | get, preview, put, restore, reconcile | two files written one after the other; a confirmation of what has changed since |
| Authentication, tenancy (`auth.rs`, `auth/s3.rs`, `config.rs`, `partition.rs`) | key set, its cache, session key; principals, tenants, indexes | verify, refresh, mint; authorize, admit, route | answers out of order, keys that rotate, a configuration that changes between admission and merge |
| S3 endpoint (`s3_serve.rs`, `s3_sigv4.rs`) | page walk, range, counters | list, get, head | reads a tree that the merge, compaction and retention change |
| Templates, typed columns (`drain.rs`, `mask.rs`, `template_dict.rs`, `typed.rs`, `schema.rs`) | the prefix tree, templates and sightings; the column registry | mine, label, record; plan, register, write, read back | memory, files and catalog are not updated together |
| Migration (`migrate.rs`) | files of two layouts | regroup, rekey, rewrite, remove | stops anywhere and is run again |
| Others | | | the decision model, scans, session counters, the soak test and the measurement programs |

How they interact: receivers hand batches through bounded channels to the main
loop, which calls `submit`; the writer thread takes batches from the queue,
appends them to one of the two logs by age and publishes (a) how many records are
synced, which HEC acks and peer tickets are judged against, and (b) the ids of
its open segments, which the maintenance thread uses to leave those segments
alone. Behind the writer the tap offers records to the sync sender, and the main
loop hands errors with their context window to the forwarder. The maintenance
thread merges, compacts and reclaims, and publishes the disk pressure the record
loop reads; the parts driver uploads finished files to a central, which other
centrals replicate and a new edge restores from. At the end the main loop closes
the tickets, stops the receivers, stops the writer, joins it and then stores the
phase that lets the maintenance thread run its last pass.

`PROJECT.json` lists the components, those not modelled too, and the hazards at
the lines where they bite.

## 2. Modules

| Module | Models |
|---|---|
| `DurableLog` | abstract: what a log promises its senders |
| `SplitWal`, `SplitWalProofs` | the two logs, the writer thread, crashes, reopening; theorems |
| `Merge` (extends `SplitWal`), `MergeProofs` | the maintenance thread beside that writer, store and catalog; theorems |
| `IngestQueue` | `queue.rs` |
| `AckTable`, `AckTableProofs` | HEC acks with request threads, record path, writer, restarts; theorems |
| `HecRequests` | HEC requests from head to answer, parsing of events, counters |
| `HttpServer` | the listener under all receivers |
| `OtlpGrpc`, `OtlpHttp` | one HTTP/2 connection; OTLP over HTTP and both decoders |
| `FileTail` | polls, rotation and checkpoint; path patterns and walks |
| `Tenancy` | credential to tenant, index and partition, across a restart |
| `Policy` | runtime policy, preview, audit log, enforcement |
| `IntakeProofs` | theorems about `HttpServer`, `HecRequests` and `Policy` |
| `PeerIngest` (extends `IngestQueue`) | peer requests, tickets, main loop, queue, writer, shutdown |
| `PeerHops` | records travelling between peers in any topology |
| `PeersProofs` | theorems about `IngestQueue`, `PeerIngest`, `PeerHops` and `PartsEdge` |
| `Spool`, `PeerSync` (extends `Spool`) | the outbound spool; tap, control, fetch and sender thread |
| `PeerPlanner`, `PeerSignals` | what the dial sends; the detectors that turn it up |
| `Forward`, `Ring` | the vendor forwarder; the context window of an error |
| `Sentry` | the Sentry proxy and its relay |
| `SenderProofs` | theorems about `PeerSync` with `Spool`, `PeerSignals` and `Sentry` |
| `PartsEdge`, `PartsStore` | the edge's and central's halves of the parts path |
| `Replicate`, `Restore` | central to central; central to a new edge |
| `Reclaim`, `Migrate` | retention, budget and pins; the move to the current layout |
| `Auth` | broker keys, their cache, S3 credentials |
| `StoreProofs` | theorems about `Migrate`, `Auth`, `Restore`, `Replicate`, `PartsStore` and `Reclaim` |
| `S3Serve` | listings and downloads over a changing tree |
| `TypedColumns`, `Templates` | typed attribute columns; template mining and its tables |
| `MCIntake`, `MCPeers`, `MCStore`, `MCLive` | the components side by side, for TLC |
| `MCMerge`, `MCPeerIngest`, `MCTypedColumns`, `MCInputs` | instances and inputs for TLC |

`MCIntake`, `MCPeers`, `MCStore` and `MCLive` put many components into one
instance. The variable `focus` chooses at the start which component runs; the
others stay in their initial state. The behaviours are therefore exactly those
of each component by itself, and every property is about one component (in
`MCLive`, a conjunct per component). Components that do interact are composed in
modules of their own: `Merge` on `SplitWal`, `PeerIngest` on `IngestQueue` with the
main loop and the writer, `PeerSync` on `Spool`, `AckTable` with the record path and
the writer, `PartsEdge` with central and its sweep, `FileTail` with the pipeline
behind it, `Policy` with the maintenance pass, `S3Serve` with the writers of the tree.

### Correspondence

**SplitWal.** A record is its position in the order in which the writer takes
records from the queue, so "the first n records are synced", which is what the
published count says, can be compared with the records really on disk. A segment
keeps its log, id, UUID, the millisecond in the UUID, whether its header was
written, and the records of its synced frames. `wal[l]` is `struct WalWriter`,
`buf` being the frames since the last `fdatasync`. The methods of `WalWriter` are
functions on `[segs, wal, made, clock]`, the actions the steps of
`run_wal_writer`; `wpc` is its program counter, one step per operation another
thread or a crash can see in between. A crash keeps a prefix of the unsynced
frames (the reader cuts a torn one). Time enters as three booleans of
`MaybeSync`: which thresholds have been crossed.

**Merge.** Adds the maintenance thread. `mpc` follows `maintenance_pass` →
`merge_all` for the main log, then the late spool → `compact`. A file of the
store is its path (partition, segment id, the 48 bits of the UUID that go into
the name), its rows, and the rows it holds twice. `layout` is the partitioning
the live policy chooses; a pass takes a snapshot of it. Any step may fail, and the
process may crash anywhere. Files appear by rename, hence in one step, and are synced
before their commit (`store.rs:186-192`). The catalog is SQLite with its own log and
`synchronous=NORMAL`: a commit outlives the process, but a power loss may set the catalog
back to its last checkpoint while the segments unlinked since stay gone. `durable` is that
checkpoint, `committed` (history) what all commits made, `Behind` says that they differ.
An unlink a power loss undoes is, to the next pass, an unlink that failed.

**IngestQueue.** Each producer is inside `submit` at one of five points; counters
change where the code changes them. The records are the severity classes.

**AckTable.** `channels` and `watermarks` are `Inner`. A request is the sequence
capacity check, hand-off, load of the synced count, `issue`, reply; the record
path takes a batch, submits, and binds it to `enqueued`; the writer publishes.
`receipts`, `given` and `last` are history: what clients hold and what it stands
for. A poll changes nothing, so it is the operator `Query` and not an action.

**HecRequests.** A connection carries one request at a time through `preflight`,
the body and `handle`; the token that is good may expire in between. An event is
what parsing tells of it. What the ack table and the pipeline answer is open here
and modelled in `AckTable` and `IngestQueue`.

**HttpServer.** The acceptor, one thread per connection and the shutdown are the
processes; bytes arrive one unit at a time, so that each limit is met at, under
and over its value. A deadline's passing is an action.

**OtlpGrpc.** The wire is a queue of frames; a header block carries the number of
blocks its client encoded before it, which is what HPACK's table amounts to here.
Credit is counted on the connection and per stream.

**OtlpHttp.** Posts are judged, decoded whole or refused, and counted. Both
decoders are operators over one abstract message, so that the two encodings can be
compared.

**FileTail.** A line is two pieces, the second of which ends it; offsets count
pieces. Files never share an inode. A poll reads, saves its checkpoint and then hands the
lines over (`HandOver`); the record path may refuse, shed or cut any of them
(`droppedLines`), and what it takes is on disk once the WAL is synced. In its second part the matcher's
backtracking loop and the walk are state machines, compared with a definition of
what a pattern means.

**Tenancy.** `authorize` and `admit` for each kind of credential, `route`, the tenant
and index attributes written to the WAL, and `merge.rs`'s `route_in` under the
configuration of that day.

**Policy.** Operators are clients of the admin API; the store's write lock, the
preview token, `policy.json`, the audit file and its compaction are the state. A
crash keeps the two files, and the start-up reconciles them. A partition is a
bucket and an hour, which is what a preview counts. `review` (history) is what the
operator of the document in force was shown: which partitions stayed, and when. A
partition that passes its limit after the preview is deleted unshown, and the config
file's own document has no preview; `DeletedWasShown` says that nothing else is.

**PeerIngest.** `req`, `tickets`, `abandoned` and `remembered` are the handler,
`WalAcks` and the dedupe log; `loop` is the main thread from the record loop to
the join; the queue is `IngestQueue` with the main loop as its only producer; the
WAL is a sequence with a synced prefix. Each sender resends its one batch until it
hears 200.

**PeerHops.** A record is its event id and its provenance attributes; both sides of
every link refuse what came back, travelled too far or does not parse. The look at the
remembered ids, the append (which offers the record to the next link) and the saving of the
ids after the sync are three steps, and a sender may resend between any two of them.

**Spool, PeerSync.** A segment is a sequence of cells, a frame or `TornTail`. The
cursor is a file of its own and may lag after a crash. `PeerSync` adds the tap's
bounded channel, the control record the admin API writes, the fetch thread (it reads a
chunk, waits for room in the channel, and ends between two chunks) and the
sender's loop, a step per call that may fail. Records go unsent in four ways that are kept
apart: `counted` by the code; `leftOut`, passed over without a count (below the floor,
looping, not encodable); `withdrawn`, taken without a target; and `lostItems`, gone with the channel in a crash or,
of a fetch, with the sender's return, which nothing counts.

**PeerPlanner, PeerSignals.** `PeerPlanner` holds the planner's windows, ring and
boosts and the peer's totals; a finding of a detector may come at any tick and sends a
marker record of its own.
`PeerSignals` holds what the detectors keep between buckets; a baseline is whether
it is at the level of a regular key.

**Forward, Ring, Sentry.** `Forward`'s thread is its program counter and the entry it
handles; the spool is a sequence and a committed cursor. `Ring` is one shard.
`Sentry`'s forwarder peeks, relays frame by frame and commits what it settled; a commit
that fails leaves the cursor, so the frames are sent again, and an error of a post does not
tell whether upstream took the envelope (`TakenOnce` allows one more for every crash,
failed commit and lost answer; `sentry.rs:746-748` promises at-least-once). `ForwardedIsAccounted` is about an agent with a spool.

**PartsEdge, PartsStore.** `PartsEdge`: the job, the timer and the retire pass are two
threads on one state file, every answer of central may be lost after it took
effect, and central is the set of parts it stores. An append to the state file may fail,
be cut or go unsynced; what is appended behind a line without its newline makes one line
with it that does not parse. `PartsStore`: each step takes
the locks the code takes; the directory is measured while uploads hold
reservations. A sweep may unlink a part and then fail, in the directory sync or in the
catalog, and leave its row (`rowLeft`). That a power loss may take back commits of
`peer_parts` is not modelled; a part without a row is uploaded again.

**Replicate, Restore, Migrate.** Each is a run that may stop anywhere and be started
again; the other side, the bucket or the tree may change meanwhile. Bytes are
numbers, so that a wrong byte, a hash and a length can be told apart.

**Reclaim.** `disk` and `dirs` are the store, `rows` the catalog's `files`; a pass
is the locals from `snap` to `stuck`, and `pc` follows `pins_for_pass` →
`enforce_pinned` → `forget_missing_in` → `measure` → `reclaim_pinned` →
`forget_files`. Removing a directory may stop half-way, unlinking a file and each
catalog call may fail, and the process may crash between any two steps. The merge
writes files between passes, the uploader confirms them at any time, and every
pass may find another policy. Sizes are small numbers and the fractions of the
budget are percents. Unlike `Merge`, the module keeps of a file only its size,
partition and age.

**Auth, S3Serve.** In `Auth` a fetch is asked and applied in two steps, so answers
may arrive out of order. A restart may find the session key's file whole, lost or
unreadable, fail to write a new one, and find the key cache whole, unusable or spoiled (it
is written without a sync). In `S3Serve` a page is a walk of the live tree, one
directory entry a step, and every request passes the gate in `preflight` and again
in `handle`.

**TypedColumns, Templates.** Batches become files through plan, register, write and
record; memory goes with a crash, the files and the catalog stay. A content hash is
the text it is of.

## 3. Abstract specification

`DurableLog` has four steps: start, accept records, acknowledge records the
system holds, fail losing records that were not acknowledged. `SplitWal`
implements it with `stored` = on disk, buffered or in the batch at hand (checked by
`ImplementsDurableLog`, proved by `WalImplementsDurableLog`). `Merge` implements
the same specification with the rows of the Parquet files added (checked by
`MergeImplementsDurableLog`, proved by `MergeRefinesDurableLog`): a merge, a
compaction, a deletion of a segment are all stutters.

## 4. Properties

Each component has one property, the conjunction of what it promises: `XInv` where
all parts are invariants, `XPromise` where some are about steps. Its type invariant is
the first part; the parts that matter are these.

| Property | Parts |
|---|---|
| `WalInv` | `AckedDurable`: no published count covers a record that is not on disk |
| `PublishedIsTrue` | `AckedDurable`; `SyncedIsPublished`: what both logs have synced is published at the next pass; `ClosedSegmentsFrozen`: a closed segment never changes |
| `MergeInv` | `AckedReachable`, `MergerAvoidsOpenSegment`, `CleanStopMergesAll` |
| `NoDuplicateRows`, `CatalogOnDisk`, `StoreKeepsRows` | of `Merge`: no row twice; a listed file is there (unless a power loss took commits back, when it may be a compaction's gone input), and the rows it was listed with are in a file or in a segment still to be merged; no rename, unlink or crash takes the last copy of a row |
| `QueueInv` | `AccountsForEverything`, `EnqueuedIsConserved` |
| `NeverBlocksHere` | `NeverBlocks`: a call of `submit` returns |
| `AckPromise` | `AnsweredIsDurable`, `AckNeverReverts` |
| `HecInv` | `RefusedUnread`, `StoredIsWhole`, `ExitsAccountButPolls` |
| `HttpInv` | `ActiveIsThreads`, `HandledIsWhole`, `MemoryIsBounded`, `DrainedIsQuiet` |
| `GrpcInv` | `CreditIsReturned`, `HeadersInStep`, `AcceptedIsWhole`, `TotalsAccount` |
| `OtlpHttpInv` | `ExitsAccount`, `EncodingsAgree` |
| `FileTailInv` | `NothingIsGlued`, `LinesAreRead` |
| `GlobInv` | `GlobIsExact`, `WalkFindsMatches` |
| `TenancyInv` | `StoredUnderTenant`, `StoredInGrant`, `RecordsAreCounted`, `LevelsAreFound` |
| `PolicyPromise` | `WritesAreSerial`, `ReadIsDurable`, `RestartKeepsPolicy`, `CurrentIsAudited`, `VersionsAreUsedOnce`, `DeletedWasShown`, `LossWasShown` |
| `PeerInv` | `AckedOrCounted`, `RememberedOrCounted`, `TicketsReachable` |
| `PeerSyncInv` | `AcceptedIsKept`, `ResendsNeedFaults`, `DrainedHasRoom`, `OfferedAccounted` |
| `PlannerPromise` | `LeftOutIsCounted`, `NeverCountedTwice`, `LeadUpSent` |
| `SignalsPromise` | `OneAlarmPerSilence`, `SilenceIsNoticed`, `PairIsNewOnce` |
| `HopsInv` | `TravelIsBounded`, `StopsAfterOneLap`, `NeverComesHome`, `OriginIsKept` |
| `RingInv` | `KeysWaitOnce`, `EgressIsBounded`, `DuplicateIsRecent`, `FoldedIsCounted` |
| `ForwardInv` | `CommittedWasHandled`, `EveryErrorAccounted`, `CountsAreExact`, `StopEmptiesRollup` |
| `SentryPromise` | `SentryExitsAccount`, `ForwardedIsAccounted`, `TakenOnce`, `AnsweredIsKept`, `LimitStopsBatch` |
| `PartsEdgePromise` | `RecordedIsConfirmed`, `ForgottenIsGone`, `SwallowedByTears`, `LinesSurvive` |
| `PartsInv` | `ReservedIsHeld`, `PartsAreCounted`, `CataloguedIsStored` |
| `ReplicateInv` | `InstalledIsWhole`, `RecordedHasCopy`, `CompleteIsCaughtUp` |
| `RestoreInv` | `InstalledIsVerified`, `EveryPartReported`, `OkIsComplete` |
| `ReclaimPromise` | `NeverUndercounts`, `PinsLeaveRoom`, `CleanPassForgets`, `PhantomsAwaitExpiry`, `PinnedKept`, `TakesTheMinimum` |
| `MigrateInv` | `RowsStay`, `IdsStay` |
| `AuthInv` | `KeysAreKept`, `CredentialWithinToken`, `SessionsSurvive` |
| `S3Promise` | `ListedInOrder`, `ListingIsComplete`, `ReadIsEntitled`, `DownloadIsOneVersion`, `RequestsCountedOnce`, `ExpiredReadsNothing` |
| `ColumnsInv` | `ColumnHasOneType`, `ReplanAddsNothing`, `ColumnsAreBounded`, `AttributesSurvive` |
| `TemplatesPromise` | `LabelCoversLine`, `MergedIsNamed`, `SightingsCountRows`, `LineageIsFixed` |
| `LiveServes`, `LiveEnds` | what must happen, per component: see the fairness below |

Each property has a mutant of the mapped code, a plausible slip, under which TLC finds
it violated in the same instance.

## 5. Runs

Deadlock checking is off: the bounds on records, requests, starts and faults stop
every behaviour in the end, and a process that has shut down stays down.

### That pass

| Run | Components | Instance |
|---|---|---|
| `Merge_safety` | `Merge` | 2 records in 2 partitions, 2 starts, 1 error or unsynced commit, one policy |
| `Merge_compact` | `Merge` | 2 records, a segment each, compaction of 2 files, two policies, 2 errors or unsynced commits, a crash |
| `Intake` | `SplitWal`, `IngestQueue`, `AckTable`, `HecRequests`, `HttpServer`, `OtlpGrpc`, `OtlpHttp`, `FileTail`, `Tenancy`, `Policy` | 3 records, segments of 2, 2 starts; 2 producers on a queue of 2; 2 request threads, 2 batches, limit 1; 2 connections, streams, posts or clients; 2 lines in 2 files; 2 operators |
| `Peers` | `PeerIngest`, `PeerSync`, `PeerPlanner`, `PeerSignals`, `PeerHops`, `PartsEdge`, `Ring`, `Forward`, `Sentry` | 2 senders (a batch of 2, a batch of 1) on a queue of 2; a spool of two segments; a window of 2 ticks; 2 files; 2 destinations; 2 envelopes |
| `Store` | `PartsStore`, `Replicate`, `Restore`, `Reclaim`, `Migrate`, `Auth`, `S3Serve`, `TypedColumns`, `Templates` | 2 or 3 parts, files or keys each, one or two faults, restarts or losses |
| `Live` | `SplitWal`, `AckTable`, `PeerIngest`, `PeerSync`, `FileTail`, `PartsEdge`, `Replicate`, `Auth`, `HttpServer`, `Forward`, `OtlpGrpc`, `Sentry` | smaller: one client or sender each |

The cfg files give the values by component, and section 4 the properties.

Why these bounds are enough to be interesting:

- `SplitWal`, `Merge`. Two records per segment let a segment be empty, half full and
  rolled, and two logs of such segments let one log be synced by a roll while the
  other buffers an earlier record. Two starts give a second process that finds the
  remains of the first, ids that begin again and a header torn by the crash; a third
  start finds nothing of a new kind. To the maintenance thread the state after an
  error is the state after a crash, so `Merge_compact` spends its bound on errors, of
  which a commit that no checkpoint has synced when the power goes is one.
- `IngestQueue`, `AckTable`, `PeerIngest`. A queue of two with a batch of two and one
  of one is full exactly when two senders overlap; two tickets with one abandoned
  allow a timeout, a resend and an eviction. Two batches and two threads give
  `AckTable` every order of issue, bind and sync of two ids.
- `HecRequests`, `HttpServer`, `OtlpGrpc`, `OtlpHttp`. Requests are at, under and over
  each limit, refused and accepted, and two of them overlap; in `Intake` one stream more
  is open than allowed. `Live` has one client and every kind of request.
- `FileTail`. Two files of two lines are enough for a rename, a replacement and a cut
  to meet a fragment; crashes are in `Live`, whose property is about them.
- `Policy`. Two operators, two writes and a crash let a preview go stale, a write race
  another and the crash fall between the document and its audit line. The config file
  is edited, if it is, between the two processes (`FirstFile`).
- `Spool`, `PeerSync`. The cap holds a segment and a half, so a push drops a segment
  that is being read; one fault tears a tail or loses an answer. The fetch is in `Live`,
  with a channel it can find full; `Peers` has none.
- `PeerHops`. A ring of three nodes fed by an edge, events whose provenance is missing,
  good or mangled, a receiver that forgets what it had, and a resend while the first
  request is open.
- `PartsEdge`. Two files with the same or different content, so that two lines may
  name one part; one lost answer, one crash, one cut write, one sweep of central.
- `PartsStore`. A budget of one part with two uploads and a fetch that compete.
- `Replicate`, `Restore`. A page holds two of three keys, a part has two bytes, so a
  copy can be cut, resumed and wrong; a restore is run twice.
- `Reclaim`. The three files together reach the critical mark and the two large ones the
  high mark with a byte of WAL, the small file alone fits under the pin limit, and the
  two policies disagree on which bucket is cheaper and on what is configured at all.
- `Auth`. A rotation while a fetch is under way, one bad answer, two restarts (the second
  may find again what the first could not read).
- `S3Serve`. One change of the tree during a walk, a page of one or two keys, an object
  of two versions read in ranges.
- `TypedColumns`, `Templates`. Batches that promote, conflict and overflow the number of
  columns or templates, one crash, one lost catalog.

### Disagreements

Each run checks what a comment or a document says and finds a behaviour of the
code that contradicts it.

| Run | Property | What TLC shows |
|---|---|---|
| `Merge_same_ms` | `StoreKeepsRows` | the path keeps 12 hex digits of a UUIDv7, all of them its millisecond: two segments with one id, made in the same millisecond, write to one path (both logs are opened one after the other at start). |
| `AckTable_reopen` | `ChannelReopens` | a channel at its limit is refused before `issue`, the only place that retires; it answers 503 until the process restarts. |
| `AckTable_restart` | `ToldIsOnDisk` | ids restart at 0, so an id kept across a crash is answered for another batch. |
| `PeerIngest_stop` | `OkMeansOnDisk` | the signal sets the flag the writer reads: the writer may be gone while the loop still submits. |
| `TypedColumns_nan` | `AttributesSurvive` | a NaN for which the file has no float column goes into the row's JSON as `null` (`schema.rs:354`), which does not parse back, and the reader drops that JSON (`schema.rs:217`), here the NaN alone, the other key having its column. A float column would keep it (`typed.rs:226`). |
| `Forward_flush` | `RollupsAreFlushed` | `last_flush` starts as `None`, which is due only when forced, and is set only by a flush: the periodic flush never runs, and a storm's counts wait for the shutdown. |

`ColumnsInv` passes because the batches of `Store` hold no such float, and `GrpcInv`
because it says of headers what holds until a stream was refused (`EveryBlockDecoded`
below).

`OkMeansOnDisk` has two more counterexamples, which the same module gives when
signals are switched off: room check and submission are apart, so two admitted
batches may need more room than there is and the second is shed (`Senders =
{s1, s2}`); and a DEBUG record of an admitted batch is refused under critical
pressure (`Pressures = {TRUE, FALSE}`). `AckedOrCounted` is what does hold of a 200: each
record is on disk or counted as dropped.

The modules also state, as definitions with the line they come from, expectations that
their own instances refute. To see a counterexample, check the definition as an
invariant or property of the component by itself.

| Module | Definition | Why it does not hold |
|---|---|---|
| `AckTable` | `AckMeansStored` (`hec/ack.rs:4-11`) | a batch is bound when its submission ends, whatever of it was shed, refused or cut off; its ack is true once the rest is synced |
| `OtlpGrpc` | `EveryBlockDecoded` (`grpc.rs:418-420`) | a HEADERS frame over the stream limit is refused undecoded, and the header table is out of step from then on |
| `PeerSync` | `NothingDropped` (`sync.rs:6-7`) | after a crash, frames are appended behind a torn tail, where a reader stops, or before the cursor of a file that became shorter |
| `PeerPlanner` | `PeerTotalsExact` (`sync_policy.rs:9-11`) | a stop flushes a rollup in the middle of its window; the rollup of the same window after the restart has the same event id and is a duplicate to the peer; and anomaly markers count as records |
| `FileTail` | `FragmentsAreReread` (`load_checkpoint`) | the saved offset lies behind the unfinished last line, so its first piece is not read again |
| `PartsStore` | `PartsWithinBudget` (`PartsConfig`) | a reservation measures the directory between a sweep's unlink and its subtraction; the part is then taken off twice |
| `Restore` | `LineageIsHash` | a forced second run renumbers the hashes and keeps the lineage of the row that had the number |
| `Policy` | `LostLineIsWrittenBack` (`policy_store.rs`) | the line written back at the next start is appended to a torn one, which swallows it |
| `Policy` | `NoneStranded` (`orphan_problems`) | a pass that took its snapshot before the change still writes to the bucket that left |
| `Auth` | `OneKidFetch` | a refresh dates its attempt by its start when it ends, so a slow hourly refresh sets the limit's clock back |
| `OtlpGrpc` | `InFlightGetsTrailers` (`grpc.rs:178`) | the connection sends GOAWAY and ends at its next read, whatever streams are open |
| `Ring` | `DuplicateWasForwarded` (`ring.rs:196`) | a flow is marked seen before the budgets are asked, so its repeat is a duplicate of a window that was not sent |
| `Sentry` | `TraceIsWhole` (`sentry.rs:507-508`) | sampling hashes the envelope's id, which differs between the transactions of one trace |
| `Templates` | `MintedIsNamed` | a crash empties the miner; a row already labelled in the WAL is merged under a hash whose text is not known any more |
| `Templates` | `SameLineSameTemplate` | a later line generalises or mints a template that fits the same line better |

Some instances show more. `Forward` with `ReplayLimit = PeekLimit = 1` and
`MaxCommitFaults = 2`: the replay at start is bounded, what it leaves is at the front of
the spool, and the commit after the next error takes its cursor from there, so an
error that was never sent is committed. `S3Serve` with `Pins = {"date"}`: two versions of
an object within one second read as one. `Sentry` with `SpoolConfigured = FALSE`: an
envelope meant to be forwarded is answered and is neither sent nor warned of. `Tenancy`
with `Configs <- MCMovedConfigs`: a record of the own tenant carries no tenant through
the WAL, so after a restart whose own tenant is another one it is merged there. A record
of a tenant's default index carries no index either: after a restart that gives the tenant
another default it is merged into the new one and is not counted as rerouted.
`OtlpHttp` with the posts of `MCBytes`: bytes are hex from protobuf and stay base64
from JSON.

Observed while modelling, without a run: the pattern of a source that ends in `**`
means the files below it, an exclude that ends so does not, and a comment says such
a component "will simply match nothing"; any active category limit of the Sentry
upstream answers 429 to every envelope; a replay of the forwarding spool ignores a
project's overrides (`main.rs:2335`); `Catalog::rebuild` is called "safe to run at any
time" and races a merge; an integer stored in a float column reads back as a float; a
HEC poll with a bad token counts as unauthorized but not as a request, so
`accounts_for_everything` (`hec.rs:181-184`) is off by it (`ExitsAccountButPolls`); a
batch without a channel leaves its watermark in the table (`main.rs:1852`); the session
counters are saved only at a clean shutdown (`main.rs:2080`), so after a kill they no
longer balance; a HEC batch larger than the queue is refused for ever by a guard
(`main.rs:1356`).

More of the kind, with what the models say instead:

- The record path binds a HEC batch to the queue's count also when its records were shed,
  refused or cut by the record cap (`main.rs:1848-1852`; a peer's batch is then not bound,
  1909-1911). Its ack turns true for records that were never stored, while `hec.rs:137`,
  `hec.rs:327-328` and `hec/ack.rs:4-11` say that an ack means durable. `AnsweredIsDurable`
  is therefore about the records the queue accepted, and `AckMeansStored` (above) about
  all that were sent.
- A copy that arrives before the ids of another are saved is let in, so in a ring that is
  shorter than the wait for the sync a record laps until `MAX_HOPS`, and a resend is stored
  twice, though `peer.rs:51-52` and `65-67` say once. `StopsAfterOneLap` excepts exactly the
  records of which two requests were open; the origin is safe always (`NeverComesHome`).
- The planner's anomaly marker goes out without `logless.supplement`, and so is counted by
  the rule of `sync_policy.rs:22-24` and `docs/peer-sync.md:186-187`; the test at
  `sync.rs:1242` takes markers out by hand. `NeverCountedTwice` allows for them.
- A line appended to a state file that ends in a torn line is lost with it; the comment at
  `parts.rs:1245-1246` speaks of the torn line only. The part is uploaded again by the next
  run; if the file goes first, central is never told. `SwallowedByTears` counts one line
  for each cut write.
- Only `catalog --rebuild` (`main.rs:734`), a migration (`migrate.rs:148`) and a restore
  (`restore.rs:522`) rebuild the catalog. After a power loss that took commits back, the
  rows of merged segments that are gone stay unlisted until one of them runs.

Two weaker promises than one might expect show in how `Merge` is instantiated.
`NoDuplicateRows` is checked under one policy and without compaction: a policy
change between a failed merge and its retry moves the partitions, so the files of
the first attempt stay beside those of the second, although `merge.rs:6-8`
speaks of "the same deterministic path"; and compaction takes its inputs from the
directory, so rows are on disk twice between recording its output and unlinking
its inputs, and a `rebuild` in that window lists both, although
`compact.rs:16-17` says the rebuild resolves it.

`PhantomsAwaitExpiry` excludes one case, marked by `torn`. When retention has removed
a directory and the catalog then fails or the process dies, the next pass lists
directories and never meets that partition again. The rows stay until the offline
`retention` or `catalog --rebuild` command runs, although `docs/architecture.md:44`
says of the catalog after a `kill -9` that "the agent rebuilds on boot". Until then
their bytes count as used, which `TakesTheMinimum` therefore leaves out: reclaim
takes that much more than it must.

### Fairness

Each liveness property assumes the fairness of its own component and nothing else.

- `SplitWal` (`TakenIsAcked`, `LateSegmentCloses`): weak fairness of the writer loop,
  because `next_batch` returns within its timeout whether or not there are records;
  strong fairness of each of the three clock conditions of `maybe_sync`, because each is
  `elapsed >= interval`, which once true stays true until the code acts on it. No
  fairness of opening, errors or crashes; the properties end at `~Running`.
- `IngestQueue` (`NeverBlocks`): a thread inside `submit` runs on and `send_timeout` has a
  deadline. None for the consumer.
- `AckTable` (`IssuedIsAnswered`): started requests, the record path and the writer run
  on (the writer syncs within its interval); for `ChannelReopens` clients retry.
- `PeerIngest` (`EveryRequestAnswered`, `ShutdownEnds`): requests, main loop and writer
  loop run on, and waits end at their bound. Nothing is assumed of `PublishSynced`: the
  disk may make no progress before the last pass.
- `PeerSync` (`SpooledIsAnswered`, `FetchEnds`, `SenderEnds`): the sender's loop, its waits
  and the fetch run on. Of the fetch only the next step it can take is weakly fair
  (`FetchNext`): while it waits for room nothing is assumed of it, and that it gets room
  follows from the sender, or from the sender's return, which fails its send. The tap could
  take every free place first; it does not because offers are bounded. Faults are bounded,
  which stands for a peer that answers in the end.
- `FileTail` (`LinesAreStored`): the tailer polls and hands over, and the WAL syncs. Lines
  the record path dropped are excepted.
- `PartsEdge` (`GoneIsRetired`), `Replicate` (`ListedIsCopied`): the job, the retire pass
  and the run go on; the timer starts them again. Lost answers are bounded.
- `Auth` (`KeysCatchUp`): the hourly thread refreshes, and a fetch that was started is
  answered. Nothing is assumed of requests.
- `HttpServer` (`ThreadsEnd`, `ServerShutdownEnds`): acceptor and connection threads run
  on and read deadlines pass. Clients need not send anything.
- `OtlpGrpc` (`CallsAreAnswered`): the server reads what is on the wire, and a client that
  began a call goes on when it has credit.
- `Forward` (`ForwardStops`), `Sentry` (`SpooledIsSettled`, `RelayEnds`), the
  patterns of `FileTail` (`GlobEnds`): the one thread runs on.

`LiveServes` also checks the invariant `EmittedOnce` of `FileTail`, whose instance in
`Live` has the crash.

## 6. Proofs

All are checked by TLAPS for every value of the constants that satisfies the named
assumptions. Each of these stands in the module that declares the constants, and TLC
evaluates it in every run of that module:

- `SplitWalAssumption`: segment sizes are positive, bounds are natural numbers;
- `IngestQueueAssumption`: finitely many producers, a positive capacity;
- `AckTableAssumption`: finitely many request threads, limits that are numbers;
- `MergeAssumption`: a layout sends each record to a partition;
- `HttpAssumption`: finitely many clients, limits that are numbers, well-formed requests;
- `PeerIngestAssumption`: the one producer of this queue is the main loop, finitely many
  senders, each with its batch of records;
- `HopsAssumption`: links join nodes, event ids are unique, a count that parses is a
  number from 0 up;
- `MigrateAssumption`: old and current files and the outputs have paths of their own;
- `AuthAssumption`: times and bounds are numbers, there is a first generation and a
  first tick;
- `HecRequestsAssumption`, `PolicyAssumption`: a body and a retention table are sequences,
  the audit log keeps at least one line, no operator is called `none`;
- `RestoreAssumption`, `ReplicateAssumption`, `PartsEdgeAssumption`, `SignalsAssumption`:
  counts and limits are numbers, a page holds a key, there is one attempt and one layout;
- `PartsStoreAssumption`: finitely many parts with sizes, at most one replication run
  beside the uploads, and a budget that is off or holds the largest part;
- `SentryAssumption`: finitely many envelopes, limits that last;
- `ReclaimAssumption`: finitely many files with bytes and hours, thresholds in the order
  the configuration demands;
- `SpoolAssumption`, `PeerSyncAssumption`: sizes are numbers, the channel and a pass hold
  something, a segment is smaller than the spool (`run_tuned` makes it an eighth) and one
  frame fits.

The theorems about `Merge` have one more hypothesis, `~SameMs`: no two segments are
created within one millisecond. It is needed, not convenient: `Merge_same_ms` shows what
is lost without it. Liveness, and what follows only under fairness, is out of the
prover's reach.

**`SplitWalProofs`.** `WalTypeCorrect`, `WalAckedDurable` and, from both, `WalInvariant`
(`Spec => []WalInv`); `WalImplementsDurableLog`; `WalPublishedIsTrue`. `AckedDurable`
alone is not inductive: `Publish` acknowledges "the first n records of this process", and
that these are on disk follows only from facts about all of the writer's state. The
inductive invariant `Inv(X)` is

- `TypeOK`;
- `Good(State)`: ids are bounded by `made` (so that a new id stays in its type),
  and a log with unsynced frames has its open segment on disk, so that a flush
  reaches a file;
- `Counts`: while the writer is up, `base` plus the two `written` counts plus the
  late records of the batch at hand is `total`;
- `Placed(X)`: acknowledged records are on disk or in `X`, and every record taken by
  this process is there, buffered or in the batch at hand;
- `Opens`: which writer is open at which step of `wpc`, and that both buffers
  are empty whenever a count is about to be published.

It is shown of the functions on the writer's state first (`CreateSegment`,
`SyncLog`, `Roll`, `AppendLog`, `RollIfDue`, `MaybeSyncLog`, `SyncBoth`: what each
preserves and what it does to `OnDisk` and `Buffered`), then of each action; the
same case analysis gives, for each action, the abstract step it implements. `X` is the
set of records that have left the log: empty for `SplitWal` by itself, the rows of the
catalogued files in `Merge`, which reuses the whole argument. The action part of
`PublishedIsTrue`, that a segment below the published ids is frozen, needs that what
each method changes is the open segment or a new one with a higher id.

**`MergeProofs`.** `MergeSafe`, `MergeCatalogOnDisk`, `MergeStoreKeepsRows` and the
refinement `MergeRefinesDurableLog`, from one invariant, `MergeInvariant`. A record
must be findable while the merger is between writing files, committing them to the
catalog and deleting the segment, while the writer goes on beside it, and when a crash
comes in between; and the file a second attempt renames over must be a file of the same
segment. The parts:

- `WalPart`, the writer's invariant, with `Apart`: no two segments share a uuid, a place
  in a log or a millisecond, and the open one is its log's last;
- `Where`, `Placed` for the rows of the files on disk that some commit has listed
  (`Archived`), whether or not the catalog still lists them;
- `Journal`: what a power loss would bring back marks no other segment as merged, and the
  rows it lists are in a segment or a file;
- `Store`: while a segment is there it holds what the files of its millisecond do
  (`Sources`), a path names one file (`OnePath`), a listed file is there and the listed
  rows are on disk (`Listed`), and a segment marked merged is closed with its records in
  listed files (`Marked`);
- `PassInv`: what the pass has listed, written and still holds at each step of `mpc`
  (`Phases`, `Listing`, `Writing`, `Compacting`, `Finishing`).

The first part of the module shows for each method of the
writer that it only adds to an open segment or creates one with a later millisecond
(`Evolves`); the second goes through the actions.

Two properties had been stated more strongly than the code keeps to, and the runs were
too small to tell: a listed file need not hold exactly the rows it was listed with, since
after a rebuild and a change of policy a segment merged again may write a listed path
over with fewer rows before it is committed; the rows are in the segment until then.
`CatalogOnDisk` and `StoreKeepsRows` now say that the rows are in a file or in a segment.

**`PeersProofs`: the queue.** `QueueTypeCorrect`, `QueueAccounting`, `QueueConservation` and,
from the three, `QueueInvariant` (`QueueSpec => []QueueInv`). Both balances count
producers in a set of steps by its cardinality; the lemmas say how one producer's move
changes such a count, and each action is then arithmetic.

**`AckTableProofs`.** `AckKeepsPromise` (`AckSpec => AckPromise`): an invariant and the
action property `AckNeverReverts`. An id below the floor is answered true without a look
at its batch, so the invariant says what the floor stands for (`Floors`: everything below
is on disk), which ids stand for which batches (`Ids`, `IssuedOnce`: no two for one,
otherwise retiring one would take the watermark of the other), that a batch is bound
once and where it is until then (`BoundOnce`, `Marks`), and that the count an `issue`
loaded before it took the lock was published (`SeenIsPast`).

**`IntakeProofs`.** `HttpSafe`. `Sound` says of one connection what its
thread has let through and buffered; `Line` says who is in the backlog and in the
acceptor's hand, each once and without a thread, so that counting a connection before its
thread exists stays exact (`ActiveIsThreads`); `Ending` orders the shutdown after the end
of the acceptor, without which a count of 0 would not last.

`HecSafe`: the counters of the receiver are related to what the pipeline was handed. A
record is named by the number of its request and its place in the body, which needs that
no two requests under way or batches handed over have the same number (`Numbered`); each
exit then adds to one counter exactly what it adds to the set it stands for.

`PolicySafe`: a write replaces the file, then the runtime, then the audit line, and may
stop after each. `UnderWay` says what holds between them and `InForce` what holds when no
write is under way; that a restart, which reads the overrides back over a config file
that may have changed, arrives at the document that was in force is the lemma
`OverlayRestores`. For `DeletedWasShown`, `Shown` says of a write under way, and `Reviews`
of the file, the runtime and the pass, that the retention it carries spares what its
operator was left to think stays, at the time of the look; a pass then deletes what was
shown or has aged since (`DeletionWasShown`).

**`PeersProofs`: the receiver and the edge.** `PeerSafe` follows a record from the request that claims it through the
channel, the main loop and `submit` to the count its ticket is bound to (`OnTheWay`,
`Bindings`), on top of the queue's invariant: what a ticket is bound to covers each of
its records, or the record was counted as given up, or the writer is gone and the count
is never reached (`Covered`). `Answers` and `Tickets` carry this to what was
answered, remembered and abandoned. `HopsSafe` rests on `Carries` (the count is at least
the number of links) and `Roots` (the copy where a record came in never leaves and is the
only one of its kind), so a message that comes back names the node it came back to;
`Remembered` and `Overlaps` say that a copy's id is saved, about to be saved by an open
request, or that the record is one of those excepted.
`EdgeSafe`: `JobKept` says at each step of an upload what central has already confirmed,
`RetireKept` that a retirement holds only files that are gone, and a file does not come
back; so a line both threads rewrite is never lost. `TailKept` relates the end of the
state file, ragged or not, to the number of cut writes: each costs one later line at most
(`OwedCounts`).

**`SenderProofs`.** `PeerSyncSafe` (`PeerSyncSpec => []PeerSyncInv`). Frames are cells of
files that are cut by a crash, appended to behind a tear, rolled and unlinked, while a
commit that failed may or may not have moved the cursor and a pass still holds what it
peeked. `Unread` says which cells the reader will come to. The invariant:

- `KeptOrSettled`: an accepted frame is answered, unread, or among those a crash took or
  that were appended out of sight; it needs `OneCopy` (a frame is in one cell),
  `SpoolFiles` (the newest file is the one appended to, synced prefixes) and `SpoolCursor`
  (the cursor in memory is the saved one);
- `SentWithFaults`: an unread frame was received at most as often as something failed;
- `WithoutFaults`: until something fails there are no tears, no files before the cursor
  and no empty file but the first, so that a drained spool is one file (`DrainedSpool`) and
  has room;
- `InHand`: what a pass holds is the front of what is unread, in order, so that a commit
  to its first frame passes over nothing (`SpoolCommits`);
- `InChannel`, `Parted`: the channel, the fetch's hand, the spool and the four kinds of
  unsent records share the records out; `LastRound`: once the sender has found the channel
  empty at a stop, only a fetch can still send into it.

That `peek` returns the unread cells in order is shown by counting (`PlacesTell`,
`PlacesAreTaken`): the place of a cell is the number of those up to it.

`SentrySafe`: the batch in the relay's hands is the front of the spool while requests
append to it; what is before the relay's place has its answer, and what is not has been
taken at most once for each time a crash, a failed commit or a lost answer took the relay back
(`SpoolKept`, `RelayKept`, `AnswersCounted`). `SignalsSafe`: an alarm that stands belongs to
a key that is tracked, regular and flagged, such a key is never forgotten
(`AlarmsKept`, `TrackedKept`), and so the alarm of a service and of its templates is raised
once and can be taken back.

**`StoreProofs`.** `MigrateSafe`: a migration stopped between writing outputs and
removing the file they come from leaves rows in two files. The invariant is existential:
there is a first file of every row (`home`) such that a path holds exactly the rows whose
home and hour it stands for; writing an output again then puts the same rows there.
`AuthSafe`: every answer on its way, the keys in memory and those in the cache are empty
or one whole published set (`BrokerSet`), the session key in use is the one on disk or one
held in memory only, and a credential ends with its token.

`RestoreSafe`: the report and the parts still to do are kept apart (`Reports`), what is
installed agrees with the inventory and the file table is rebuilt from the tree
(`Rebuilt`). `ReplicateSafe`: of every key the source has listed since the run began
`Covering` says that it is dealt with, on the page in hand or after its end, though keys
come and go between two pages. `PartsSafe`: bytes are counted as elements of a set
(`BytesOf`), which makes sums of sizes a matter of cardinality; `HeldBytes` is what requests
under way have reserved, `CountedBytes` relates the counter to the directory, and
`RecordedParts` says which rows may be without a file.
`ReclaimSafe`: `Passing` says at each step of a pass which rows may be without their file,
`CleanSoFar` that what was deleted was due by the policy and not pinned; the total that is
measured never falls short of the rows that are left.

Proving these corrected the models in places where the runs had been too small to tell:
the relay of `Sentry` sends again after a commit that failed, not only after a crash, and
without a spool nothing accounts for what was to be forwarded; a pass of `Reclaim` may
leave a row to the expiry of its partition; `Spool` lists what is undelivered by the places
of the cells instead of a recursion.

Only model-checked:

- liveness under fairness (`LiveServes`, `LiveEnds`, `NeverBlocksHere`), which this prover
  does not do, and the violations, which are counterexamples;
- `GrpcInv`, `OtlpHttpInv`, `GlobInv`, `RingInv`, `PlannerPromise`, `ColumnsInv`,
  `TemplatesPromise`, `S3Promise`: what they say is what a decoder, a matcher, a sum over
  a window or a listing computes; these are folds, selections and recursions over
  sequences, and what such a definition returns for every input is an induction;
- `NoDuplicateRows`, which holds for one policy and without compaction only, so there is
  no theorem for every value of the constants;
- `ForwardInv`: it holds for one aggregating destination and for replay limits the spool
  never outgrows (section 4 shows the instance where it does not);
- `TenancyInv`: the counts are sums over a set, what admission keeps is a selection, and
  that a row stays where it was granted needs the own tenant and each tenant's default
  index to be the same in every configuration (section 4 says what happens otherwise);
- `FileTailInv`: the texts of a read are cut by a sorted sequence of line ends, which
  would first have to be restated by places, as in `Spool`.

## 7. Not modelled

The components table of `PROJECT.json` gives every part and the reason. In short: the
decision model keeps no state and nothing it answers changes what is stored or sent;
scans evaluate predicates over files; the session counters are three sums saved once;
the soak test and the measurement programs are no part of the agent. Of the modelled
parts, formats of the wire and of files, cryptography, statistics of the spike
detectors, status pages, parsing of the configuration and the offline commands are
left out: they transform data and keep no state a property here is about. Retention
and the disk budget end the pass `Merge` models, but have a module of their own: they
delete acknowledged records by policy, so `AckedReachable` is stated without them, and
their own properties do not depend on how a file came to be.

## 8. Plan

1. `FileTailInv` as a theorem, with the line ends told by their places; `TenancyInv` with
   counts told by the records they stand for.
2. `Reclaim` and `PartsEdge` on one store, so that pins, uploads and retirements meet.
3. `AckTable` and `HecRequests` on one request path.
