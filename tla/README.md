# Engram Context Engine: TLA+ models and proofs

Engram (`src/engram/`) is an MCP server between a coding agent and three upstream
servers: Serena (symbols, edits), MemPalace (memory drawers and a knowledge graph)
and Claude Context (vector search). What Engram itself keeps is small: a SQLite file,
the *Link Layer*, that ties symbols to drawers and code chunks, and an in-memory cache
per process. All of its difficulty is in who writes them, in which order, and what is
left when something fails halfway. That is what the modules in this directory model.

Contents: [parts of the system](#1-the-system), [modules and plan](#2-modules-and-plan),
[correspondence to the code](#3-how-the-modules-correspond-to-the-code),
[runs](#4-what-the-runs-check), [disagreements found](#5-where-code-and-documentation-disagree),
[bounds and fairness](#6-bounds-and-fairness), [proofs](#7-what-is-proved),
[limits](#8-what-is-only-model-checked-and-what-is-not-modelled).

## 1. The system

### Processes and how they interact

Every MCP client starts its own `engram mcp` process; `engram reconcile` is one more.
They share the SQLite file and MemPalace's log, and nothing else. Inside a process one
asyncio event loop runs tool calls, the scheduler and the tailers as tasks. SQLite calls
are synchronous: between two `await`s a task has the loop for itself, and a statement
that waits for the write lock stops the whole process (up to `busy_timeout`, 5 s).
`open_db` connects in autocommit mode (`isolation_level=None`), so outside the two
`BEGIN IMMEDIATE` blocks of `tools/write_hooks.py` every statement is a transaction.

```
 client --> server (tool calls) --> Serena / MemPalace / Claude Context
                |      \
                |       +--> hook bus --> cache eviction, change logger
                v                               |
          Link Layer (SQLite)  <----------------+
                ^      ^
   reconciler --+      +-- cursors of the WAL tailer and the hook inbox tailer
   (scheduler, CLI)
```

### Components

| component (source) | state | operations | what makes it correct |
|---|---|---|---|
| Link Layer store (`link/store.py`, `schema.sql`) | tables `symbols`, `symbol_history`, `anchors_*`, `change_log`, `dirty_files`, `meta` | upsert / rename / tombstone a symbol, add and delete anchors, log a change, mark and clear dirty files, meta rows | an identity names one live symbol; the history retells each symbol's life without a gap; an acknowledged anchor stays |
| Interceptors (`tools/write_hooks.py`) | an open transaction | rename, safe delete, file edit: transaction around the Serena call, then knowledge graph, then hook bus | the database moves exactly when Serena did; what is announced is committed |
| Anchoring tools (`tools/engram_ns.py`, `tools/mem_add_anchor.py`) | none | find a drawer, upsert a symbol, anchor the drawer to it or to a chunk | no duplicate anchor, no lost anchor, no anchor on another symbol |
| Reconciler (`workers/reconciler.py`) | none | drop anchors of vanished drawers and of tombstoned symbols, mark changes as reindexed | removes only what dangles |
| Scheduler, change log (`workers/scheduler.py`, `workers/change_log.py`) | two timers | log an event, tombstone a deleted file's symbols; sweep dirty paths every few seconds, everything once a day | each logged change is swept in the end |
| Hook bus (`events.py`) | handler lists | publish to all handlers, log what they raise | a change that was accepted was recorded |
| WAL tailer (`workers/wal_tailer.py`), hook inbox tailer (`workers/hook_inbox.py`) | byte cursor (and inode) in `meta` | poll, read new lines, hand them on | at least once, in order, across rotation, truncation and restarts |
| Router and cache (`router/`, `engram.why`) | LRU cache | classify, ask sources, fuse, cache; evict on events | an entry is not older than what the cache was told |
| Server, registry, envelope (`server.py`, `tools/registry.py`, ...) | registered tools | dispatch; a catch-all that turns exceptions into failure envelopes | a failing call releases what it holds |
| Rank fusion (`router/fusion.py`), path C of `router/dispatcher.py` | the parts of one answer | collect from three sources, fuse | the answer does not depend on which source was first |
| Enrichment (`tools/vec_enrich.py`), `engram.where_does_decision_apply` | a search result that is being worked through | find the symbol around a chunk; search term by term | the innermost symbol; nothing found is left out, nothing twice |
| Contradiction detector (`tools/contradicts.py`) | none | run MemPalace's checker in process or as a child | a verdict is the checker's |
| Supervisor, upstream client (`upstream/`), `engram.health` | child processes, sessions, the table of clients | connect, warm up Serena, call, probe, disconnect | every child has an owner unless the start is interrupted; a call ends unless an upstream hangs |
| Config, CLI, hook installer, entity extraction | none | parsing, file I/O | not modelled (section 8) |

Two wirings exist only in tests and for embedding programs: `server._run` neither attaches
the change logger nor starts the hook inbox tailer, and it does not register
`engram.notify_file_changed`. Nothing in the repository inserts rows of
`anchors_symbol_chunk` any more. `ChangePipeline` models the pipeline as these parts define it
when they are attached, with chunk anchors a former version left.

### What is hard about it

- *Interleaving at statement granularity.* Autocommit statements of several processes mix;
  within a process only `await`s are switching points.
- *A transaction around a remote call.* The interceptors keep the write lock while Serena
  works. A reply can be lost, a call cancelled, a process killed, all after Serena acted.
- *Failures that look like answers.* A lookup that fails returns `None`, like a drawer that is gone.
- *Two statements that belong together and are not atomic*: row and dirty entry, mark and
  clear, symbol and history row, inode and cursor.
- *A cursor that several processes share*, for a file that may be rotated and truncated.
- *A cache filled after awaits* during which the event that should evict the entry passes by.
- *Upstreams that die or hang.* No request has a timeout and nothing is reconnected; what was
  collected before an upstream went is put together with what came after.

`PROJECT.json` lists each hazard at its line with the properties that watch it.

## 2. Modules and plan

| module | contents |
|---|---|
| `LinkStore` | the tables as a record, the functions of `store.py` as operators on it, and what schema and ledger promise |
| `WritePath` (EXTENDS LinkStore) | interceptors, anchoring tools and the reconciler's memories scope, in several processes, with their upstreams |
| `MCWritePath` | small instances of `WritePath`: menus of calls, an initial database |
| `LinkLayer` | the abstract Link Layer: one atomic step per operation; `WritePath` implements it |
| `WritePathProofs`, `LinkLayerProofs` | lemmas about the store operators, the inductive invariant and its theorems; the refinement |
| `LedgerProofs` (EXTENDS LinkLayerProofs) | the ledger, and how it agrees with Serena, the bus and the knowledge graph |
| `AnchorProofs` (EXTENDS LedgerProofs) | anchors: on the right symbol, kept, purged with a trace; failed edits |
| `ChangePipeline`, `MCChangePipeline` | notify, edit interceptor, hook bus, change logger, sweeps and full passes |
| `WalTailer` | both tailers, statement by statement, with writers, rotation and truncation |
| `EventFeed` | what a tailer promises; `WalTailer` is checked to implement it |
| `ChangePipelineProofs`, `WalTailerProofs`, `RouterProofs` | the inductive invariants of these modules, and the steps of `WalTailer` as steps of `EventFeed` |
| `Router`, `MCRouter` | `engram.why` with the classifier, the dispatch order and the LRU cache |
| `Fusion` | reciprocal rank fusion with exact scores, a pure module |
| `Upstreams` | one server process and its children: start, warm-up, registry, proxied calls, `engram.health`, the way down |
| `FactCheck` (EXTENDS Upstreams) | `engram.contradicts` |
| `Retrieval`, `MCRetrieval` (EXTENDS FactCheck, Fusion) | path C of `engram.why`, `vec.search`, `engram.where_does_decision_apply`, on top of the upstreams they ask |
| `RetrievalProofs` | children, `engram.health`, verdicts, what `engram.where_does_decision_apply` finds, which symbols chunks get, and fusion |

`WritePath` comes first because the database outlives everything else: a wrong row is never
repaired. The change pipeline, the tailer and the cache follow in the order of what they can lose;
what only reads comes last.

All modules of the plan are there with their runs, and every safety property the passing runs check is
proved, some under a hypothesis section 7 names; only liveness is left to the runs (section 8).

No module to be proved about uses a RECURSIVE operator; constants carry named assumptions.

## 3. How the modules correspond to the code

`PROJECT.json` maps every definition to its lines. The general rules:

- An action is one *atomic* piece of a handler: one SQLite statement (or one transaction) or one
  stretch between awaits. `pc` names the statement or the await a request is about to pass.
- A request that is between statements keeps the event loop of its process (`LoopFree`,
  `LoopIdle`); one that awaits an upstream does not.
- Upstreams are external: a call is first *asked*, may be *done* or *refused* at any moment, and
  its reply may be lost. `code` is what exists in the source tree, `drawers` what MemPalace holds.
- Columns nothing branches on (`kind`, `confidence`, time stamps, wing and room) are left out.

**LinkStore.** `symbols` is a sequence: `symbol_id` is AUTOINCREMENT and no row is ever deleted, so
the position is the id. A row is live or tombstoned; the unique index on live identities is
`Collides`. `GetSymbol`, `UpsertSymbol`, `RenameSymbol`, `TombstoneSymbol`, `InsertAnchor`,
`DeleteAnchor` are the functions of `store.py`. NULL is the empty name path. A name path is a
sequence of segments because a rename swaps the last segment and Serena moves what is nested.

**WritePath.** `db` is the committed database, `wdb` what the transaction that holds the lock
(`writer`) would commit.

| call | actions, in the order of the code |
|---|---|
| `code.rename_symbol` | `RenameBegin` (BEGIN IMMEDIATE, upsert, rename row, call Serena; a collision fails at once), `RenameCommit` or `Rollback`, `KgAdd`, `KgEnd`, `Publish` |
| `code.safe_delete_symbol` | `DeleteBegin`, `DeleteCommit` (tombstone and COMMIT after the reply) or `Rollback`, `KgEnd`, `Publish` |
| `engram.anchor_memory_to_symbol` | `DrawerLookup`, `Resolve` (with upsert's SELECT), `InsertSymbolRow`, `Discover` or `Touch`, `AnchorSelect`, `AnchorInsert` |
| `mem.add` with an anchor | `MemAddReply`, then as above |
| `engram.anchor_memory_to_chunk` | `DrawerLookup` (with the upsert's SELECT), `ChunkInsert` |
| reconcile, memories | `Scan`, `CheckDrawer` per row, `Purge` and `Trace` per stale row, or `DryPurge` |

`StoreDrawer` and `DeleteDrawer` are MemPalace's other clients: a drawer goes and comes back under its
id at any moment, between a pass's lookup and its deletions too. `dangled` is a history variable: of the rows a
pass has scanned, those whose drawer was missing at some moment before their lookup.

`LockTimeout` is SQLite giving up; `Cancel` a cancelled task, at an await only; `Crash` the death
of a process with everything it had in flight.

**LinkLayer.** What a reader of the committed tables relies on: a symbol is discovered under an
identity no live row has, renamed in its file, tombstoned for good; an anchor is set or removed.
The mapping (`LL` in `WritePath`) takes `symbols` and `chunks` as they are, drops the ids
of the anchors, and ignores the ledger and everything that is not committed. `RenameCommit` is a
`Rename`, also when the row was inserted by the same transaction under its old name: that row appears under
its new name at once, which is a `Discover`. A statement that only writes the ledger or
`last_seen_at` is a stuttering step.

**ChangePipeline.** `Report`, `EditReply`: a change enters the bus. `StartHandler` to
`MirrorReply`: the change logger, one statement per action (`InsertChangeLog`, `MarkDirty`,
`SelectSymbols`, then `CheckSymbol`, `Bury`, `RecordBurial` per symbol). `Collect` is a tick of the
fast sweep, `StartPass` a pass without paths; `SelectChunks`, `DropChunk`, `MarkReindexed` and
`ClearDirty` are the sweep. `BeginHold` and `EndHold` stand for the interceptors' transactions, as
far as this module needs them: they hold the lock, and may tombstone a symbol. `HandlerTimeout` and
`SweepTimeout` are a locked database. Left out: a dry run of the chunks scope, which changes nothing.

**WalTailer.** One tick is `Stat`, `Look` (meta rows and the branches on them), `Open`, `ReadLine`
per line, `EndOfFile`, `Store`. The inbox tailer (`keepsInode = FALSE`) starts with `ReadCursor` and
`Size` instead and knows no inode. `TickLost` is an exception or a crash anywhere in a tick.
Abstractions: an offset is counted in half lines (all lines are equally long, and a line without
its newline is one half); text buffering of `readline` is ignored; reading the two meta rows and
storing the inode is one step; re-creation with the old inode number is a truncation.

**Router.** What a source answers is reduced to the set of changes the answer takes into account.
`Ask` is the start of a call: with a name and a file it awaits Serena's symbol first (`Resolved`),
then `LookUp` reads the cache and, on a miss, asks the first sources of the path; `Answer` and
`Continue` follow the three paths of `dispatcher.py`, `Put` caches the result. `Apply` changes the tree,
`Deliver` brings the event to the cache (`Without` is the cache without the entries that
reference it, the others in their order; the code searches the JSON text of the key, free text and the
words of its format included, so an entry that merely mentions the name goes too, `Texts`), `StayUnheard` is a change nobody publishes (another
process made it, or its call was cancelled). A source that fails gives an empty part.

**Upstreams.** `phase` is where `Supervisor.__aenter__`, `build_registry` and the exit stack are.
`Spawn`, `Initialize` and `ListTools` are the three awaits of `connect`, `ConnectFails` any of them
raising; `WarmUp` is Serena's activation and onboarding; `Register` builds the registry, where
two tools of one upstream with the same short name raise and the process goes down again.
`Shutdown` and `Disconnect` are the way down, last connected first. `Die` and `Hang` are an upstream
that closes its session, or stops answering (external). `Interrupt` is a cancellation or Ctrl-C while a
connect or the warm-up is awaited: neither the `except Exception` of `connect` nor `__aexit__` of the
supervisor sees it, so no client is disconnected and `phase` ends as `"aborted"`. What the teardown of
asyncio and closed pipes then do to the children is not Engram's and not modelled. `ProxyBegin`/`ProxyEnd` is a forwarded call,
`HealthBegin`/`ProbeEnd` are `engram.health`, which probes one upstream after the other.

**FactCheck.** `ContradictsBegin` is the call in the process (it blocks the loop, hence one step),
`SubprocessEnds` the child, with every way it can end (`Exit`). What the checker finds is external: issues, none,
or JSON of a shape the code does not know, of which `Normalize` leaves an empty list, in both ways.

**Retrieval.** `WhyBegin` and `SourceAnswers` are the `gather` of path C; `FusedOf` is what is
fused and cut. `WhereBegin`, `FactsArrive`, `ChunksArrive` are the loop of
`where_does_decision_apply` over the related terms; `VecBegin`, `VecArrives` are `vec.search`; both go through
`LookUp` (the row in `anchors_symbol_chunk`) and `OverviewArrives` (Serena) per chunk. An upstream
that is not connected, answers with isError or raises is an empty list, as the default closures of
`engram_ns.py` make it. Chunks are a file, two lines and the spelling of the line keys
(`camel`) and whether they come with an `enclosing_symbol` (`given`; only `where_does_decision_apply` keeps
it), because the code reads `startLine` in one place and `start_line` in another and takes 0
for a missing line. The loop of `where_does_decision_apply` passes over (`Skipped`) a chunk without a line and one
from a place it had; `GoingOn` is what is left of a list from the first chunk it does not pass over.
`Edit` and `DropRow` change file and table while a call is under way.

**Fusion.** A score is a sum of shares 1/(k + rank), counted in parts of `Whole`, a common multiple of the
denominators, so that equal scores are equal and unequal ones are not rounded together; `Total` sums them up, a recursive function
instead of a fold because it is proved about. Identifiers are pairs of numbers ordered like the texts.

**EventFeed.** Events are written, delivered in order, or lost when the log is replaced. Replays
are stuttering: the promise is at-least-once.

## 4. What the runs check

TLC 2 workers; numbers of distinct states are rounded.

| run | shows |
|---|---|
| `write_path` (1.2M, 2 min) | three concurrent calls from a menu of all six operations, two processes, with crashes, cancellations and lost replies, while drawers are deleted and stored again. Database soundness (`UniqueLiveIdentity`, `LedgerMatchesIdentity`), agreement with Serena (`CommittedOnlyIfApplied`), honest and complete announcements (`AnnouncedOnlyIfCommitted`, `CommittedIsAnnounced`), no acknowledged anchor lost before a pass finds its drawer missing (`AckedAnchorKept`) or hung on another symbol (`AnchoredAsAsked`), every purge in the ledger but the one that was cut off (`PurgesTraced`), `LedgerAppendOnly`, `PurgeOnlyMissed` as long as lookups do not fail (only anchors a pass has read, and whose drawer was missing between that and its lookup, are removed), and `ImplementsLinkLayer` |
| `write_path_progress` (95k) | without lost replies a failed call left the source tree alone (`FailedMeansNotApplied`); no request waits for ever on the lock or on another request, even if upstreams never answer: it comes to its end or to an upstream call of its own (`OnlyUpstreamDelays`) |
| `rename_lost_reply`, `rename_nested`, `purge_on_lookup_failure` | counterexamples, section 5 |
| `wal_tailer` (740k) | two processes, three lines (one that is skipped), a rotation, a truncation, a tick that fails, both kinds of tailer: `NothingSkipped` between ticks, `EventFeed` is implemented, the shared cursor settles (`CatchesUp`) |
| `wal_rotation` | counterexample, section 5 |
| `change_pipeline` (260k) | one server and `engram reconcile`, two changes (a deletion, an edit), a transaction, a full pass, a crash, cancellations: no change is stranded, "reindexed" means swept, a symbol is tombstoned once, an accepted change is recorded unless a transaction was in the way (`RecordedUnlessHeld`), every logged change is swept in the end |
| `change_two_servers` | counterexample, section 5 |
| `router` (625k, symmetric) | three overlapping calls, three keys, two cache entries, a rename and an edit: only a call under way when the event came can leave a stale entry (`StaleOnlyFromOverlap`), the order of the cache is the order of use, evictions are the right ones |
| `router_stale_put` | counterexample, section 5 |
| `retrieval` (280k) | a server from its first child to its last, or to an interrupted start, three upstreams, one of which may die or hang, and one call of any of six kinds. Children are owned unless the start is interrupted (`ChildrenOwned`), `engram.health` says nothing that was never so (`HealthReflectsCall`), issues are told exactly when a checker found some, and a clean text only after a checker ran to its end (`VerdictIsTheCheckers`), fusing takes turns whatever order the sources answer in (`FusedInterleaves`), `where_does_decision_apply` is complete and free of repetitions (`WhereComplete`), the symbol of a chunk is the innermost one, among those with a start line, of a version the call has seen (`SymbolEncloses`), and only a hung upstream keeps a call or the start waiting (`OnlyHungDelays`) |

A faulty variant of a definition stands beside it (`FaultyX` before `X`): with it in place of the
definition, the property the variant belongs to is violated. They document what the property catches.

Not checked with deadlock detection: every model has a bounded number of calls or lines and
really comes to rest. That the rest is a good one is the business of the liveness properties.

## 5. Where code and documentation disagree

Each is a run with one property that TLC violates; `PROJECT.json` quotes the lines.

1. `rename_lost_reply`: Serena renames, the reply is lost, the interceptor rolls back and reports
   failure. The database keeps the old name, the source tree has the new one; the specification
   of the link layer promises atomicity with the Serena call.
2. `rename_nested`: renaming a class through Engram leaves the rows of its methods under the old
   name path, so that their anchors point to names that do not exist.
3. `purge_on_lookup_failure`: one failed `mempalace_get_drawer` during a pass deletes an anchor
   whose drawer is still there: `drawer_lookup` answers `None` for both.
4. `wal_rotation`: a rotation seen while the new file is empty stores the new inode but not the
   reset cursor, and the first lines of the new file are never read.
5. `change_two_servers`: a change logged between the other process's `mark_reindexed` and
   `clear_dirty_file` loses its dirty entry and stays pending. The same mixture of two servers also
   defeats `TombstonedOnce` and `ReindexedMeansSwept`, which is why the passing run has one server.
6. `router_stale_put`: an answer collected before a rename is cached after the eviction.

Other disagreements that modelling brought up, without a run of their own:

- A pass looks up all drawers, each behind an await, and then deletes without looking again
  (`reconciler.py:119-130`). A drawer that was missing and is stored again under its id meanwhile loses its
  anchor, without any fault, although `reconciler.py:4-6` removes a row "if the drawer is gone from MemPalace".
  `WritePath` has these steps; `PurgeOnlyMissed` and `AckedAnchorKept` state what remains.
- `supervisor.py:15` says that the supervisor owns the lifecycle of its clients. When the start is interrupted while a
  connect or the warm-up is awaited (`client.py:55`, `supervisor.py:33-46`), no client is disconnected
  and children that run have no owner. `ChildrenOwned` excepts exactly this.
- `contradicts.py:10-12` says that the checker's child exits with 1 and JSON when contradictions are found. JSON of
  a shape the code does not know (`contradicts.py:159-169`), an error object for instance, is told as "no
  contradictions". `VerdictIsTheCheckers` lets "nothing" be said of such an answer, and of no other failure.
- `events.py:5` promises at-least-once delivery; a handler that raises is logged and forgotten. When the
  change logger meets a locked database, the change is neither recorded nor retried and the
  caller is told it was accepted. `RecordedUnlessHeld` states what remains.
- `openspec/specs/link-layer/spec.md:55` says that after a restart no entry observed before is processed
  again. The code promises less (`events.py:5`, at least once): a crash between dispatch and
  cursor store (`wal_tailer.py:101-106`) delivers entries a second time, as `EventFeed` allows.
- `openspec/specs/retrieval-router/spec.md:41` asks for warnings that name a failed source. The default
  closures of `engram_ns.py` turn failures into empty lists, so that `sources_used` lists the source and
  no warning is made. Of the same specification `all-sources-unavailable`, `meta.cache`, `meta.fusion`,
  `meta.entities` and `code.grep` are not implemented.
- `vec_enrich.py:5-6` and the mcp-proxy specification describe a lazy insertion into
  `anchors_symbol_chunk`; no statement inserts there. Looking a row up does not ask whether
  its symbol is tombstoned.
- The engram-tools specification wants exactly one liveness probe per upstream and call; an upstream
  that does not announce the probe tool is taken to be up without one (`engram_ns.py:901-903`).
- Results of claude-context carry `startLine` (`vec_enrich.py:97`); `dispatcher.py:147` looks for
  `start_line` only, so that all such chunks share one key in the fusion and count as one item.
- `reconciler.py` never removes rows of `anchors_memory_chunk`; an anchor to a chunk
  outlives its drawer (`AckedAnchorKept` says so).
- When MemPalace is not connected, `drawer_lookup` answers `None` for every drawer
  (`server.py:203-205`), and the daily pass removes every memory anchor: the third counterexample at its largest.
- `contradicts.py:120` runs the checker in the event loop; meanwhile no other call of the process moves.
- `install/cc_hooks.py` says that a user's hooks are preserved; settings that cannot be parsed are
  replaced. Nothing calls `maybe_install_cc_hooks`.

## 6. Bounds and fairness

*WritePath* needs no counters: every request runs once. The menu has an anchor to a chunk and one to a symbol
of the same drawer, so that one lookup is followed by both. Two requests make every pairwise
interleaving, and the third is there for the sequences (rename away, rename back, insert the old
name; a purge beside two anchorings). One drawer is enough, since every lookup is about one row and the
drawer may go and come back any number of times; the progress run has two. The menu has names that collide and names that
come back. Two processes are enough to have one that waits for the lock while the other works.
The nested run has one request because a single rename is enough.

*WalTailer*: three lines, so that there is a line before, at and after a cursor; two inodes and one
truncation, so that a stale cursor meets both; one failing tick. `Orderly` is an assumption about
the file, not about the code: a log does not grow back to an offset that a cursor of its
earlier contents still stands at (no offset scheme can tell the two apart). `Junk` is a line the
tailers skip. `Kinds` chooses WAL tailer, inbox tailer or both.

*ChangePipeline*: `MaxCrash`, `MaxHold`, `MaxPass` are one each. Two changes suffice: one whose
handler works while the other's sweep goes on. Two symbols, one of them discovered late, share the
file that is deleted.

*Retrieval*: one call, because calls share nothing but the upstreams and the cache (which is `Router`'s).
`MaxTrouble` is one upstream that dies or hangs (a dead one may have hung first). The lists have a
chunk at line 0, the same place under both spellings, and a chunk that comes with its symbol, one chunk the symbols enclose differently in
the two versions of the file, the first of which has a symbol at line 0 (which the code takes for one without a
start line); the table begins with any subset of two rows. `Limits` has the
negative limit, zero, one that cuts off and one that does not. MemPalace announces a probe tool, or two tools whose
short names collide. `RankConstant` is the 60 of the code, `Whole` the product of 61, 62 and 63.

*Router*: three calls, so that one fills the entry, one is under way and one reads; two entries and
three keys, so that the cache overflows. The name of the file occurs in the free text of a question
(`MCWithin`), and one name in another. `Escaped` is empty in the runs.

Fairness is only assumed of Engram's own scheduling:

- `LocalSpec` (WritePath): weak fairness of the steps of a request that need no upstream (`LocalStep`)
  and of SQLite's timeout. An asyncio loop runs every ready task, and `busy_timeout` ends every wait.
  Nothing is assumed of Serena and MemPalace (`client.py` has no timeout): at each label where a
  request waits for one (`UpstreamPc`) it may stay.
- `WalTailer`: weak fairness of `Tick`. `run()` polls for ever and catches what a tick raises; it is
  the bound on failures that says they end.
- `FairSpec` (ChangePipeline): weak fairness of handlers and sweeps, strong fairness of `Collect`
  and of the end of a transaction: asyncio queues ready tasks first in, first out, so a
  timer that goes off again and again, or an interceptor Serena has answered, is not passed over for
  ever by others that take the loop before it. That a transaction ends assumes that Serena answers.
- `Retrieval`: weak fairness of the steps of starting and closing, and of `Answered` per call: the
  loop runs what can run, and an upstream that neither died nor hangs answers. Nobody has to call, to edit
  or to shut down; that an upstream dies or hangs is never assumed.
- `Router` has safety properties only.

## 7. What is proved

Machine-checked with TLAPS, for all sets of servers, requests, paths, names and drawers, every
menu, every choice of faults and every initial database that satisfies the schema and the ledger:

| theorem | module | states |
|---|---|---|
| `Invariance` | `WritePathProofs` | `Spec => []IInv` |
| `TypeCorrect` | `WritePathProofs` | `Spec => []TypeOK` |
| `UniqueIdentity` | `WritePathProofs` | `Spec => []UniqueLiveIdentity`: no identity names two live symbols, no anchor exists twice |
| `LockDiscipline_Holds` | `WritePathProofs` | the lock is held exactly between BEGIN IMMEDIATE and Serena's reply, by one request, and only its holder has uncommitted rows |
| `Refinement` | `LinkLayerProofs` | `Spec => ImplementsLinkLayer`: every step is, to a reader of the committed tables, nothing or one whole operation of `LinkLayer` |
| `NothingOverwritten` | `LinkLayerProofs` | `Spec => LedgerAppendOnly`: the ledger only grows, no row disappears, no tombstoned row changes |
| `LedgerTrue` | `LedgerProofs` | `Spec => []LedgerMatchesIdentity`: the ledger leads from the discovery of every symbol over its renames and its deletion to its row |
| `OnlyApplied` | `LedgerProofs` | `Spec => []CommittedOnlyIfApplied`: what is committed as renamed or deleted, Serena has performed |
| `EveryEditAnnounced`, `OnlyCommittedAnnounced` | `LedgerProofs` | `Spec => []CommittedIsAnnounced`, `Spec => []AnnouncedOnlyIfCommitted`: the bus and the knowledge graph hear of every committed edit, unless its call was cut off, and of nothing else |
| `AnchorsAsAsked` | `AnchorProofs` | `Spec => []AnchoredAsAsked`: a new anchor hangs on the symbol its caller named |
| `AcknowledgedKept`, `OnlyMissedPurged` | `AnchorProofs` | if no lookup fails, `Spec => []AckedAnchorKept` and `Spec => PurgeOnlyMissed`: an acknowledged anchor stays until a pass finds its drawer missing, and only such rows are removed |
| `PurgesLeaveTraces` | `AnchorProofs` | for finitely many requests, `Spec => []PurgesTraced`: as many anchors are gone as passes have recorded or were cut off from recording |
| `FailedEditsNotApplied` | `AnchorProofs` | if no reply is lost, `Spec => []FailedMeansNotApplied` |
| `TypeCorrect` | `WalTailerProofs` | `Spec => []TypeOK` |
| `NoneSkipped` | `WalTailerProofs` | for an orderly log, `Spec => []NothingSkipped`: everything before the stored cursor was delivered or is junk |
| `InOrder` | `WalTailerProofs` | for an orderly log, every step is one of `EventFeed` or a stutter, and the initial states are its initial states: the safety half of `FeedSpec` |
| `TypeCorrect` | `ChangePipelineProofs` | `Spec => []TypeOK` |
| `AcceptedIsRecorded` | `ChangePipelineProofs` | `Spec => []RecordedUnlessHeld`, for any number of servers: an accepted change is in `change_log` and its symbols are tombstoned, unless a transaction held the lock |
| `NoneStranded`, `ReindexedAreSwept`, `BuriedOnce` | `ChangePipelineProofs` | for one server, `[]NoStrandedChange`, `[]ReindexedMeansSwept` and `[]TombstonedOnce` |
| `TypeCorrect` | `RouterProofs` | for finitely many calls, `Spec => []TypeOK`; the cache stays within its bound without a key twice |
| `OrderOfUse`, `OldestEvicted` | `RouterProofs` | `Spec => []RecencyOrder`, `Spec => EvictsOldest`: the cache is in the order of use, and loses an entry to an event about it or as the oldest |
| `StaleOnlyByOverlap` | `RouterProofs` | `Spec => []StaleOnlyFromOverlap`: a stale entry comes from a call that was under way when the event arrived |
| `TypeCorrect` | `RetrievalProofs` | `Spec => []TypeOK` of `Retrieval`, with `Upstreams` and `FactCheck` |
| `AllChildrenOwned` | `RetrievalProofs` | `Spec => []ChildrenOwned`: whatever dies or fails, no child process is left without an owner, unless the start was interrupted |
| `HealthIsHonest` | `RetrievalProofs` | `Spec => []HealthReflectsCall`: what `engram.health` says was so during the call |
| `VerdictsAreFound` | `RetrievalProofs` | `Spec => []VerdictIsTheCheckers`: issues are told exactly if a checker found some, "nothing" only after a checker ran to its end and found none the code can read |
| `NothingOverlooked` | `RetrievalProofs` | `Spec => []WhereComplete`: no place twice, not too many, and none overlooked unless the answer is full |
| `InnermostFound` | `RetrievalProofs` | `Spec => []SymbolEncloses`: the innermost symbol, although files are edited and rows dropped meanwhile |
| `FusingTakesTurns` | `RetrievalProofs` | `Spec => []FusedInterleaves`: reciprocal rank fusion of lists without repetitions takes turns, for every rank constant, limit and length |

Assumptions: those of the modules (`MenuAssumption`, `FaultsAssumption`, `InitAssumption`,
`NoOneAssumption`, `PipelineAssumption`, `BoundsAssumption`, `RouterAssumption`, `UpstreamsAssumption`, `FactCheckAssumption`, `FusionAssumption`,
`RetrievalAssumption`); TLC evaluates them on each run. `RetrievalAssumption` says what chunks, rows and symbols are
(a chunk does not end before it starts), not that symbols nest or that upstreams tell the truth, and numbers memories and facts. `FusionAssumption` asks that `Whole` be what it is for. `InitAssumption`
asks of the initial database what `schema.sql` enforces, foreign keys included (`store.py:49` switches them on),
and a ledger that fits; the drawers of its anchors may be missing.

Some theorems have a hypothesis of their own, because the code does not keep the promise without it:

| hypothesis | theorem | without it |
|---|---|---|
| `"lost_reply" \notin Faults` | `FailedEditsNotApplied` | `rename_lost_reply` is a counterexample |
| `"lookup" \notin Faults` | `AcknowledgedKept`, `OnlyMissedPurged` | `purge_on_lookup_failure` is a counterexample |
| `OneServer` | `NoneStranded`, `ReindexedAreSwept`, `BuriedOnce` | `change_two_servers` is a counterexample |
| `Orderly` | `NoneSkipped`, `InOrder` | `wal_rotation` is a counterexample: the cursor of the old file stays, and the new one grows past it (section 6) |
| `IsFiniteSet(Request)`, `IsFiniteSet(Call)` | `PurgesLeaveTraces`, `RouterProofs!TypeCorrect` | the properties count requests and calls |

*The argument.* `UniqueLiveIdentity` is not inductive. A commit replaces `db` by `wdb`, so `wdb` must
be sound too; it is so because a transaction starts from `db` and runs store functions that keep
soundness; that no other process wrote in between is the lock's doing, so who holds the lock
must be known; and that a store function is applied to arguments of the right kind depends
on which handler a label belongs to. Hence

    IInv == TypeOK /\ (\A r : Stage(r)) /\ LockDiscipline /\ Sound(db) /\ Sound(wdb)

`Sound` is typing plus the two unique indexes plus "no anchor id is beyond
the AUTOINCREMENT counter", without which a new anchor might reuse an id. There is one lemma per store function
(`UpsertSymbolSound`, `RenameSymbolSound`, `TombstoneSymbolSound`, `InsertAnchorSound`, ...);
`WritePathProofs` one lemma per action, with steps for typing, stage, lock and soundness.
`LockKept` and `OutsideKept` cover the many actions that leave the lock or all of Engram alone.

*The refinement.* `IInv` says that a commit is sound, not what it publishes. A `RenameCommit` replaces
the whole of `db` by `wdb`; it is one `Rename` or one `Discover` only if `wdb` is `db` with exactly that operation
added. Hence

    Strong == IInv /\ RowBound /\ Pending

`Pending` says, for the request that waits for Serena, that the transaction holds `db` plus its own
rename (`Uncommitted`), for a deletion nothing yet. It is inductive because every other write needs the
lock (`Writable`), which is what the discipline in `IInv` gives. `RowBound` says that the row an anchoring found or inserted is
still there when it writes; it holds because rows never go. The same two facts give `NothingOverwritten`:
`db` extended by the statements of one transaction extends `db` (`Extends`, with one lemma per store function).
`LinkLayerProofs` first shows what each store function is in the words of `LinkLayer`
(`InsertIsDiscover`, `UpdateIsRename`, `DeleteIsDetach`, ...), then per action that `Strong` is kept, that
the step is seen as one of `LinkLayer`, and that `db'` extends `db` (`Kept`).

*The ledger.* `LedgerInv == Ledger(db) /\ Births /\ AnchorsOwned`. `Ledger` is `LedgerFollows` of the committed tables and "every
ledger row is about a symbol row". The core is `Evolves(d, e, moves)`, what a write does to the ledger: it
keeps every row, adds exactly these renames and deletions, and what was known of a symbol stays true. There is one lemma per store function, one
that composes two of them (`EvolvesTwice`, for a rename that discovers its symbol in the same transaction), and `EvolvesSame`:
a ledger that follows still follows afterwards. `Births` is the gap between the two statements of an
anchoring: the row is inserted, its discovery not yet recorded.

*Ledger, Serena and the bus.* `EditsInv == Recorded /\ Authored /\ AnnouncedOnlyIfCommitted`. `Authored` gives every ledger row
of a rename or a deletion that was not there initially its author: a request that asked for it, that Serena has answered and that is
past its commit (`Author`). `Recorded` is the converse, that a request past its commit has its row. The first gives
`OnlyApplied`, and with the stages of the author `EveryEditAnnounced`; the second `OnlyCommittedAnnounced`. That the row of the
transaction is the row that gets committed is `Pending` of the refinement.

*Anchors.* `Named`: the symbol row a request works on has the name the caller gave, or the ledger has
a rename of that row from this name. `Evolves` keeps this true over every later rename.
`AnchorsInv == Rows /\ Dangling /\ Acked`: a row of a pass is the anchor with its id, or that anchor is gone;
the drawer of a row a pass holds to be stale was missing between its scan and its lookup; an acknowledged anchor is in
its table, or such a pass missed its drawer. `PurgesTraced` follows by counting:
every step keeps "anchors gone <= those gone initially + traces + passes that were cut off", the
finite sets being those of requests and of ledger rows.

*WalTailer.* `Cursors == TypeOK /\ Shape /\ CursorInv`. `Shape` ties the cursors to whole and half lines of the present file;
`CursorInv` says of the stored cursor, and of what each tailer carries between its statements (`Held`), that every line before
it was delivered or is junk, as long as it is a cursor of this file and not of an earlier one (`Sound`). It is where `Orderly` is needed. For the refinement,
`ReadLine` delivers the first line that `EventFeed` has pending (`ReadFeeds`), or one it had already delivered.

*ChangePipeline.* `PipelineInv == Typed /\ KnownInv /\ Alone /\ Filed /\ Burials /\ Swept`. `KnownInv` follows a change through the
statements of its handler: what is inserted, marked and tombstoned so far. `Alone` says that a handler between its
statements has the event loop; with `OneServer` nothing else then moves but passes of
`engram reconcile`, and this carries the rest: `Filed` (a pending change has its dirty entry, or a handler or sweep that
is about to deal with it), `Burials` (one tombstone at most, and of those a handler has in hand only it makes one), `Swept` (a sweep
that has selected its chunks holds all that are to go, and a reindexed change has left none).

*Router.* `Typed == CallTypes /\ Stages /\ CacheTypes` contains what typing alone does not: distinct keys, in
the order of their last use (`Cache`). `Renews` describes what a hit or a put makes of the cache without
sequences being mentioned; `WithoutKeeps` says that leaving entries out keeps the order of the others, by
ranks in a set of positions. `StaleInv == StaleOnlyFromOverlap /\ Begun`: every event the cache had heard
when a call began to collect is reflected in what it collects.

*Upstreams and FactCheck.* `ChildrenOwned` is inductive together with the types of the process. `HealthInv` adds, per
call, `Honest`: a call has not begun before all upstreams were tried; a finding about an upstream stays true because
clients never come back and the dead stay dead (`NoneComesUp`); while it probes, what is up was up when
the call began. `VerdictInv`, the property with its types, is inductive as it is: only two steps tell a verdict, and each makes a `Sound` one of how the checker ended.

*Retrieval.* `Typed` carries, beside the types, that a call has chunks in its queue exactly while it resolves them. Every
action of a searching call is one shape (`Own`), every other step leaves what calls keep alone (`OtherSteps`).
`WhereInv`: while a search goes on there is room in the answer, the chunk in hand is at a new place, and every chunk offered so far
is passed over by now or still waits (`Considered`); `GoingOnIs` says that what the loop leaves out it passes over. `SymbolInv`
names the witness: the row a cached symbol is from, no wider than any row that is still there (`FromRow`), or the version a live one is
from (`FromVersion`); rows only shrink and versions only grow since the call began (`Since`). That Serena is asked only
without a row needs a narrowest row whenever there is one (`NarrowestExists`), by well-foundedness.

*Fusion.* `FusedInterleaves` needs no history, only the types. The texts of one source begin unlike those of any other
(`FirstOf`), so an item of lists without repetitions has one source and one rank there (`TurnIs`), its score is the share
of that rank (`ScoreIs`), and shares fall strictly with the rank (`ShareFalls`): the scores put the items in the order of their
turns (`SoonerFirst`). That `Fuse`, which gives every item the place after all that precede it, sorts and cuts at the limit is `FuseSorts`,
for any total order; its core is that as many places as items, growing with the order, are all taken (`Ranking`, with the
pigeonhole of the finite set theorems). `Total` is recursive. That it exists (`SumExists`) and what it adds up to (`TotalIs`) are shown by a least
counterexample (`Least`), since the induction theorems cannot be cited.

## 8. What is only model-checked, and what is not modelled

Only model-checked:

- What the fold of `RelatedTerms` computes for every list of facts: no theorem needs it, and facts about folds take an
  operator, which the provers cannot instantiate.
- Liveness (`OnlyUpstreamDelays`, `CatchesUp`, `ChangesAreSwept`, `OnlyHungDelays`), the fairness of `FeedSpec`
  included: proofs about fairness and ENABLED are beyond the prover.

Not modelled:

- *Entity extraction* (`router/entities.py`): nothing calls it.
- *Hook installer, configuration, CLI, logging*: parsing and file I/O. `engram reconcile` itself is a
  process of `WritePath` and `ChangePipeline`.
- *`engram.symbol_history` and `engram.changes_in_conversation`*: they read committed rows and keep
  no state. What `symbol_history` finds in its statements are states of `LinkLayer`, not
  necessarily the same one.
- *The `wal_lag_seconds` gauge* and other statistics; schemas, descriptions and response envelopes.
- *The shapes of payloads* (`vec_enrich.py`, `engram_ns.py` unwrap several): only the differences
  something depends on are kept (line 0, the spelling of line keys).
- *What MemPalace's fact checker finds*: issues, none, or something of a shape the code does not know.
- *An inbox line that is JSON but not an object* would make every tick fail at that line. The hook
  script, the only writer of the inbox, writes objects only.
- *Bytes that are not UTF-8, and CRLF, in a log*: the cursor counts re-encoded characters and would
  differ from the offset; MemPalace writes neither.
- *Names with non-ASCII characters* are never evicted from the cache, because the search runs over
  JSON text with escapes; `Router` has the set `Escaped` for them and excepts them.
