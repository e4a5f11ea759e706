------------------------------ MODULE WritePath ------------------------------
(***************************************************************************)
(* The writers of the Link Layer: the code.rename_symbol and               *)
(* code.safe_delete_symbol interceptors (tools/write_hooks.py),            *)
(* engram.anchor_memory_to_symbol and engram.anchor_memory_to_chunk        *)
(* (tools/engram_ns.py), mem.add with an anchor (tools/mem_add_anchor.py)  *)
(* and the `memories` scope of the reconciler (workers/reconciler.py).     *)
(*                                                                         *)
(* Each Request is one handler call.  It runs in the event loop of one     *)
(* Server process; several processes share the SQLite file (one            *)
(* `engram mcp` per client, the `engram reconcile` command).  open_db      *)
(* connects in autocommit mode, so outside BEGIN IMMEDIATE every statement *)
(* is a transaction of its own and a step of its own here.  SQLite calls   *)
(* are synchronous: a request that is between two statements, or waits for *)
(* the write lock, keeps the loop of its server (Synchronous) and no other *)
(* request of that server moves, not even to take the reply it waits for.  *)
(*                                                                         *)
(* Serena and MemPalace are external: `code` is the set of symbols that    *)
(* exist in the source tree, `drawers` what MemPalace stores, `remote` how *)
(* far the upstream call of a request has come.  A drawer may come and go  *)
(* at any moment, and come back: MemPalace has other clients.  `dangled`   *)
(* is a history variable, read by the properties only.                     *)
(***************************************************************************)
EXTENDS LinkStore

CONSTANTS
  Server,    \* processes that have the database open
  Request,   \* handler calls
  Menu,      \* the calls a client may make (records of Input)
  Faults,    \* what may go wrong, a subset of FaultKind
  InitDb,    \* the database an earlier session left
  InitCode,  \* the symbols of the source tree
  InitDrawers,  \* drawers MemPalace already holds
  NoOne

FaultKind == {"crash", "cancel", "lost_reply", "lookup"}

Input ==
  [op : {"rename"}, ident : Identity, leaf : Segment]
    \cup [op : {"delete"}, ident : Identity]
    \cup [op : {"anchor", "mem_add"}, ident : Identity, drawer : Drawer]
    \cup [op : {"anchor_chunk"}, drawer : Drawer, chunk : Chunk]
    \cup [op : {"reconcile"}, dry : BOOLEAN]

ASSUME MenuAssumption   == Menu \subseteq Input
ASSUME FaultsAssumption == Faults \subseteq FaultKind
ASSUME InitAssumption   == /\ InitDb \in Database
                           /\ UniqueLive(InitDb) /\ UniqueAnchors(InitDb) /\ LedgerFollows(InitDb)
                           /\ \A k \in DOMAIN InitDb.history :
                                InitDb.history[k].sym \in DOMAIN InitDb.symbols
                           /\ \A a \in InitDb.anchors : /\ a.id \in 1..InitDb.lastAnchor
                                                          /\ a.sym \in DOMAIN InitDb.symbols
                           /\ InitCode \subseteq Identity
                           /\ InitDrawers \subseteq Drawer
ASSUME NoOneAssumption  == NoOne \notin Request /\ NoOne \notin Server

VARIABLES
  db,         \* the committed database
  wdb,        \* what the connection that holds the write lock has not committed yet
  writer,     \* the request inside BEGIN IMMEDIATE ... COMMIT
  pc, home, input,
  sym,        \* the symbol_id a request found or created, 0 when none
  todo, stale,\* reconcile: anchor rows still to look up, rows whose drawer was not found
  remote,     \* the upstream call of a request: "none", "asked", "done", "refused"
  code, drawers,
  dangled,    \* reconcile: rows whose drawer was missing at some moment between the scan and their lookup
  kg,         \* facts Engram wrote to the MemPalace knowledge graph
  events      \* payloads published on the hook bus

local == <<home, input, sym, todo, stale>>
world == <<code, drawers, dangled>>
told  == <<kg, events>>
store == <<db, wdb, writer>>
vars  == <<store, pc, local, remote, world, told>>

Fact  == [rel : {"renamed_to"}, of : NamePath, to : NamePath] \cup [rel : {"ended"}, of : NamePath]
Event == [type : {"symbol.renamed"}, sym : Nat, old : NamePath, new : NamePath]
           \cup [type : {"symbol.tombstoned"}, sym : Nat, old : NamePath]

AwaitPc == {"serena", "add", "lookup", "resolve", "check", "kg_add", "kg_end", "publish"}
WritePc == {"begin", "insert", "discover", "touch", "anchor_insert", "chunk_insert", "purge",
            "trace"}
SyncPc  == WritePc \cup {"anchor_select"}
DonePc  == {"ok", "failed", "lost"}
Pc      == {"new", "scan"} \cup AwaitPc \cup SyncPc \cup DonePc

TypeOK ==
  /\ db \in Database /\ wdb \in Database
  /\ writer \in Request \cup {NoOne}
  /\ pc \in [Request -> Pc]
  /\ home \in [Request -> Server \cup {NoOne}]
  /\ input \in [Request -> Input \cup {NoOne}]
  /\ sym \in [Request -> Nat]
  /\ todo \in [Request -> SUBSET AnchorRow] /\ stale \in [Request -> SUBSET AnchorRow]
  /\ remote \in [Request -> {"none", "asked", "done", "refused"}]
  /\ code \subseteq Identity
  /\ drawers \subseteq Drawer
  /\ dangled \in [Request -> SUBSET AnchorRow]
  /\ kg \subseteq Fact /\ events \subseteq Event

Init ==
  /\ db = InitDb /\ wdb = EmptyDb /\ writer = NoOne
  /\ pc = [r \in Request |-> "new"]
  /\ home = [r \in Request |-> NoOne] /\ input = [r \in Request |-> NoOne]
  /\ sym = [r \in Request |-> 0]
  /\ todo = [r \in Request |-> {}] /\ stale = [r \in Request |-> {}]
  /\ remote = [r \in Request |-> "none"]
  /\ code = InitCode
  /\ drawers = InitDrawers
  /\ dangled = [r \in Request |-> {}]
  /\ kg = {} /\ events = {}

-----------------------------------------------------------------------------
(* The event loop and the write lock. *)

LoopFree(s, r) == \A q \in Request \ {r} : home[q] = s => pc[q] \notin SyncPc

\* A step of request r at label l, in its turn on the loop.
Turn(r, l) == pc[r] = l /\ LoopFree(home[r], r)
Goto(r, l) == pc' = [pc EXCEPT ![r] = l]

\* BEGIN IMMEDIATE takes the write lock; an autocommit write needs it for the moment.
LockFree == writer = NoOne
FaultyWritable == TRUE
Writable == writer = NoOne

FirstPc(op) ==
  CASE op \in {"rename", "delete"} -> "begin"
    [] op \in {"anchor", "anchor_chunk"} -> "lookup"
    [] op = "mem_add"   -> "add"
    [] op = "reconcile" -> "scan"

\* A handler call starts; its arguments have passed validation.  mem.add asks
\* MemPalace at once.
Accept(r) ==
  /\ pc[r] = "new"
  /\ \E s \in Server, i \in Menu :
       /\ LoopFree(s, r)
       /\ home' = [home EXCEPT ![r] = s]
       /\ input' = [input EXCEPT ![r] = i]
       /\ Goto(r, FirstPc(i.op))
       /\ remote' = [remote EXCEPT ![r] = IF i.op = "mem_add" THEN "asked" ELSE "none"]
  /\ UNCHANGED <<store, sym, todo, stale, world, told>>

FaultyGivesUp == FALSE
GivesUp == writer # NoOne

\* The lock was not granted within busy_timeout: the statement raises, the
\* connection is closed and the server answers with a failure envelope.
LockTimeout(r) ==
  /\ pc[r] \in WritePc /\ GivesUp
  /\ Goto(r, "failed")
  /\ UNCHANGED <<store, local, remote, world, told>>

-----------------------------------------------------------------------------
(* code.rename_symbol and code.safe_delete_symbol *)

\* _rename_preview: the last segment is swapped.
FaultyRenamePreview(name, leaf) == SubSeq(name, 1, Len(name) - 1)
RenamePreview(name, leaf) == Append(SubSeq(name, 1, Len(name) - 1), leaf)
Renamed(i) == [i.ident EXCEPT !.name = RenamePreview(i.ident.name, i.leaf)]

RenameBegin(r) ==
  /\ Turn(r, "begin") /\ input[r].op = "rename" /\ LockFree
  /\ LET base == UpsertSymbol(db, input[r].ident)
         s    == GetSymbol(base, input[r].ident)
         new  == Renamed(input[r])
     IN \/ /\ ~Collides(base, new, s)
           /\ wdb' = RenameSymbol(base, s, new.name)
           /\ writer' = r
           /\ sym' = [sym EXCEPT ![r] = s]
           /\ remote' = [remote EXCEPT ![r] = "asked"]
           /\ Goto(r, "serena")
        \/ \* IntegrityError before Serena is asked: conn.close rolls back
           /\ Collides(base, new, s)
           /\ Goto(r, "failed")
           /\ UNCHANGED <<wdb, writer, sym, remote>>
  /\ UNCHANGED <<db, home, input, todo, stale, world, told>>

DeleteBegin(r) ==
  /\ Turn(r, "begin") /\ input[r].op = "delete" /\ LockFree
  /\ wdb' = db
  /\ writer' = r
  /\ sym' = [sym EXCEPT ![r] = GetSymbol(db, input[r].ident)]
  /\ remote' = [remote EXCEPT ![r] = "asked"]
  /\ Goto(r, "serena")
  /\ UNCHANGED <<db, home, input, todo, stale, world, told>>

Release == writer' = NoOne /\ wdb' = EmptyDb

\* The reply that ends the transaction with COMMIT.
FaultyConfirmed(r) == remote[r] # "refused"
Confirmed(r) == remote[r] = "done"

RenameCommit(r) ==
  /\ Turn(r, "serena") /\ input[r].op = "rename" /\ Confirmed(r)
  /\ db' = wdb /\ Release
  /\ Goto(r, IF Renamed(input[r]) = input[r].ident THEN "publish" ELSE "kg_add")
  /\ UNCHANGED <<local, remote, world, told>>

DeleteCommit(r) ==
  /\ Turn(r, "serena") /\ input[r].op = "delete" /\ Confirmed(r)
  /\ db' = IF sym[r] = 0 THEN wdb ELSE TombstoneSymbol(wdb, sym[r])
  /\ Release
  /\ Goto(r, IF sym[r] = 0 THEN "ok" ELSE "kg_end")
  /\ UNCHANGED <<local, remote, world, told>>

\* isError, or call_tool raised: Serena may have acted all the same.
FaultyDenied(r) == remote[r] # "none"
Denied(r) == remote[r] = "refused"

Rollback(r) ==
  /\ Turn(r, "serena")
  /\ \/ Denied(r)
     \/ "lost_reply" \in Faults
  /\ Release
  /\ Goto(r, "failed")
  /\ UNCHANGED <<db, local, remote, world, told>>

\* _record_rename_in_kg: kg_add, then kg_invalidate; _invalidate_in_kg for a
\* delete.  Whether the fact is recorded or not, the call may return (isError is
\* not looked at) or raise, which ends the helper and is only logged.
FaultyKgTurn(r) == pc[r] \in {"serena", "kg_add"} /\ input[r].op = "rename"
KgTurn(r) == pc[r] = "kg_add"

KgAdd(r) ==
  /\ KgTurn(r) /\ LoopFree(home[r], r)
  /\ \/ kg' = kg \cup {[rel |-> "renamed_to", of |-> input[r].ident.name,
                        to |-> Renamed(input[r]).name]}
     \/ kg' = kg
  /\ \E l \in {"kg_end", "publish"} : Goto(r, l)
  /\ UNCHANGED <<store, local, remote, world, events>>

FaultyKgEnd(r) ==
  /\ Turn(r, "kg_end")
  /\ \/ kg' = kg \cup {[rel |-> "ended", of |-> input[r].ident.name]} /\ Goto(r, "publish")
     \/ kg' = kg /\ Goto(r, "failed")
  /\ UNCHANGED <<store, local, remote, world, events>>

KgEnd(r) ==
  /\ Turn(r, "kg_end")
  /\ \/ kg' = kg \cup {[rel |-> "ended", of |-> input[r].ident.name]}
     \/ kg' = kg
  /\ Goto(r, "publish")
  /\ UNCHANGED <<store, local, remote, world, events>>

Announcement(r) ==
  IF input[r].op = "rename"
  THEN [type |-> "symbol.renamed", sym |-> sym[r], old |-> input[r].ident.name,
        new |-> Renamed(input[r]).name]
  ELSE [type |-> "symbol.tombstoned", sym |-> sym[r], old |-> input[r].ident.name]

Publish(r) ==
  /\ Turn(r, "publish")
  /\ events' = events \cup {Announcement(r)}
  /\ Goto(r, "ok")
  /\ UNCHANGED <<store, local, remote, world, kg>>

-----------------------------------------------------------------------------
(* engram.anchor_memory_to_symbol, mem.add with an anchor and              *)
(* engram.anchor_memory_to_chunk: two to five autocommit statements.       *)

\* drawer_lookup: None for a drawer that is gone, and for a lookup that failed.
LookupMisses(d) == d \notin drawers \/ "lookup" \in Faults
LookupFinds(d)  == d \in drawers

\* A chunk anchor needs no symbol: upsert_anchor_memory_chunk's SELECT comes at once.
Found(r) ==
  IF input[r].op = "anchor" THEN "resolve"
  ELSE IF HasChunkAnchor(db, input[r].drawer, input[r].chunk) THEN "ok" ELSE "chunk_insert"

DrawerLookup(r) ==
  /\ Turn(r, "lookup")
  /\ \/ LookupFinds(input[r].drawer) /\ Goto(r, Found(r))
     \/ LookupMisses(input[r].drawer) /\ Goto(r, "failed")
  /\ UNCHANGED <<store, local, remote, world, told>>

\* upsert_symbol's SELECT.
SelectSymbol(r) ==
  LET s == GetSymbol(db, input[r].ident)
  IN /\ sym' = [sym EXCEPT ![r] = s]
     /\ Goto(r, IF s = 0 THEN "insert" ELSE "touch")

\* symbol_lookup has answered (it only supplies the kind column).
Resolve(r) ==
  /\ Turn(r, "resolve")
  /\ SelectSymbol(r)
  /\ UNCHANGED <<store, home, input, todo, stale, remote, world, told>>

MemAddReply(r) ==
  /\ Turn(r, "add")
  /\ \/ remote[r] = "done" /\ SelectSymbol(r)
     \/ /\ remote[r] = "refused" \/ "lost_reply" \in Faults
        /\ Goto(r, "failed")
        /\ UNCHANGED sym
  /\ UNCHANGED <<store, home, input, todo, stale, remote, world, told>>

\* INSERT INTO symbols; another process may have inserted the identity since.
InsertSymbolRow(r) ==
  /\ pc[r] = "insert" /\ Writable
  /\ \/ /\ ~Collides(db, input[r].ident, 0)
        /\ db' = InsertSymbol(db, input[r].ident)
        /\ sym' = [sym EXCEPT ![r] = NewSymbol(db)]
        /\ Goto(r, "discover")
     \/ /\ Collides(db, input[r].ident, 0)
        /\ Goto(r, "failed")
        /\ UNCHANGED <<db, sym>>
  /\ UNCHANGED <<wdb, writer, home, input, todo, stale, remote, world, told>>

Discover(r) ==
  /\ pc[r] = "discover" /\ Writable
  /\ db' = DiscoverSymbol(db, sym[r], input[r].ident)
  /\ Goto(r, "anchor_select")
  /\ UNCHANGED <<wdb, writer, local, remote, world, told>>

\* UPDATE symbols SET last_seen_at: a write, of a column nothing reads.
Touch(r) ==
  /\ pc[r] = "touch" /\ Writable
  /\ Goto(r, "anchor_select")
  /\ UNCHANGED <<store, local, remote, world, told>>

AnchorSelect(r) ==
  /\ pc[r] = "anchor_select"
  /\ Goto(r, IF HasAnchor(db, sym[r], input[r].drawer) THEN "ok" ELSE "anchor_insert")
  /\ UNCHANGED <<store, local, remote, world, told>>

AnchorInsert(r) ==
  /\ pc[r] = "anchor_insert" /\ Writable
  /\ IF HasAnchor(db, sym[r], input[r].drawer)
     THEN Goto(r, "failed") /\ UNCHANGED db
     ELSE db' = InsertAnchor(db, sym[r], input[r].drawer) /\ Goto(r, "ok")
  /\ UNCHANGED <<wdb, writer, local, remote, world, told>>

ChunkInsert(r) ==
  /\ pc[r] = "chunk_insert" /\ Writable
  /\ IF HasChunkAnchor(db, input[r].drawer, input[r].chunk)
     THEN Goto(r, "failed") /\ UNCHANGED db
     ELSE db' = InsertChunkAnchor(db, input[r].drawer, input[r].chunk) /\ Goto(r, "ok")
  /\ UNCHANGED <<wdb, writer, local, remote, world, told>>

-----------------------------------------------------------------------------
(* reconcile, scope memories *)

Scan(r) ==
  /\ Turn(r, "scan")
  /\ todo' = [todo EXCEPT ![r] = db.anchors]
  /\ dangled' = [dangled EXCEPT ![r] = @ \cup {a \in db.anchors : a.drawer \notin drawers}]
  /\ Goto(r, IF db.anchors = {} THEN "ok" ELSE "check")
  /\ UNCHANGED <<store, home, input, sym, stale, remote, code, drawers, told>>

FaultyMissing(a) == TRUE
Missing(a) == LookupMisses(a.drawer)

\* One awaited drawer_lookup; after the last one the deletions follow without an await.
CheckDrawer(r) ==
  /\ Turn(r, "check")
  /\ \E a \in todo[r] :
       /\ todo' = [todo EXCEPT ![r] = @ \ {a}]
       /\ \/ Missing(a) /\ stale' = [stale EXCEPT ![r] = @ \cup {a}]
          \/ LookupFinds(a.drawer) /\ UNCHANGED stale
  /\ Goto(r, IF todo'[r] # {} THEN "check" ELSE IF stale'[r] = {} THEN "ok" ELSE "purge")
  /\ UNCHANGED <<store, home, input, sym, remote, world, told>>

Purge(r) ==
  /\ pc[r] = "purge" /\ ~input[r].dry /\ Writable
  /\ \E a \in stale[r] :
       /\ db' = DeleteAnchor(db, a.id)
       /\ stale' = [stale EXCEPT ![r] = @ \ {a}]
       /\ sym' = [sym EXCEPT ![r] = a.sym]
  /\ Goto(r, "trace")
  /\ UNCHANGED <<wdb, writer, home, input, todo, remote, world, told>>

FaultyTrace(r) ==
  /\ pc[r] = "trace" /\ Writable
  /\ Goto(r, IF stale[r] = {} THEN "ok" ELSE "purge")
  /\ UNCHANGED <<store, local, remote, world, told>>

\* append_history of the purged row, then on to the next stale row.
Trace(r) ==
  /\ pc[r] = "trace" /\ Writable
  /\ db' = AppendHistory(db, sym[r], "reconcile", NoName, NoName)
  /\ Goto(r, IF stale[r] = {} THEN "ok" ELSE "purge")
  /\ UNCHANGED <<wdb, writer, local, remote, world, told>>

\* dry_run: the deletes run inside BEGIN ... ROLLBACK.  The first one upgrades
\* the read transaction and fails when the snapshot is no longer current.
DryPurge(r) ==
  /\ pc[r] = "purge" /\ input[r].dry /\ Writable
  /\ \E l \in {"ok", "failed"} : Goto(r, l)
  /\ UNCHANGED <<store, local, remote, world, told>>

-----------------------------------------------------------------------------
(* Upstreams *)

IsPrefixOf(p, n) == Len(p) <= Len(n) /\ SubSeq(n, 1, Len(p)) = p

\* Serena renames a symbol together with the symbols nested in it.
Moved(c, i) ==
  IF c.path = i.ident.path /\ IsPrefixOf(i.ident.name, c.name)
  THEN [c EXCEPT !.name = Renamed(i).name \o SubSeq(c.name, Len(i.ident.name) + 1, Len(c.name))]
  ELSE c

SerenaActs(r) ==
  /\ remote[r] = "asked" /\ input[r].op \in {"rename", "delete"}
  /\ input[r].ident \in code
  /\ code' = IF input[r].op = "rename"
             THEN {Moved(c, input[r]) : c \in code}
             ELSE {c \in code : ~(/\ c.path = input[r].ident.path
                                  /\ IsPrefixOf(input[r].ident.name, c.name))}
  /\ remote' = [remote EXCEPT ![r] = "done"]
  /\ UNCHANGED <<store, pc, local, drawers, dangled, told>>

\* mempalace_add_drawer; the caller may name a drawer that was there before.
MemPalaceStores(r) ==
  /\ remote[r] = "asked" /\ input[r].op = "mem_add"
  /\ drawers' = drawers \cup {input[r].drawer}
  /\ remote' = [remote EXCEPT ![r] = "done"]
  /\ UNCHANGED <<store, pc, local, code, dangled, told>>

Refuse(r) ==
  /\ remote[r] = "asked"
  /\ remote' = [remote EXCEPT ![r] = "refused"]
  /\ UNCHANGED <<store, pc, local, world, told>>

\* mem.delete_drawer, or a deletion behind Engram's back.
DeleteDrawer(d) ==
  /\ d \in drawers
  /\ drawers' = drawers \ {d}
  /\ dangled' = [r \in Request |->
                   dangled[r] \cup {a \in todo[r] : pc[r] = "check" /\ a.drawer = d}]
  /\ UNCHANGED <<store, pc, local, remote, code, told>>

\* mem.add without an anchor, or another client of MemPalace.
StoreDrawer(d) ==
  /\ d \notin drawers
  /\ drawers' = drawers \cup {d}
  /\ UNCHANGED <<store, pc, local, remote, code, dangled, told>>

-----------------------------------------------------------------------------
(* Cancellation and crashes *)

ReleaseIfHeldBy(rs) ==
  /\ writer' = IF writer \in rs THEN NoOne ELSE writer
  /\ wdb' = IF writer \in rs THEN EmptyDb ELSE wdb

\* The client cancels: CancelledError leaves through `except Exception`, and
\* conn.close in the finally block rolls the transaction back.
Cancel(r) ==
  /\ "cancel" \in Faults
  /\ Turn(r, pc[r]) /\ pc[r] \in AwaitPc
  /\ ReleaseIfHeldBy({r})
  /\ Goto(r, "lost")
  /\ UNCHANGED <<db, local, remote, world, told>>

InFlight(s) == {r \in Request : home[r] = s /\ pc[r] \notin DonePc}

\* The process dies and is started again; SQLite rolls its transaction back.
Crash(s) ==
  /\ "crash" \in Faults
  /\ InFlight(s) # {}
  /\ ReleaseIfHeldBy(InFlight(s))
  /\ pc' = [r \in Request |-> IF r \in InFlight(s) THEN "lost" ELSE pc[r]]
  /\ UNCHANGED <<db, local, remote, world, told>>

-----------------------------------------------------------------------------
Handle(r) ==
  \/ RenameBegin(r) \/ DeleteBegin(r) \/ RenameCommit(r) \/ DeleteCommit(r) \/ Rollback(r)
  \/ KgAdd(r) \/ KgEnd(r) \/ Publish(r)
  \/ DrawerLookup(r) \/ Resolve(r) \/ MemAddReply(r)
  \/ InsertSymbolRow(r) \/ Discover(r) \/ Touch(r) \/ AnchorSelect(r) \/ AnchorInsert(r)
  \/ ChunkInsert(r)
  \/ Scan(r) \/ CheckDrawer(r) \/ Purge(r) \/ Trace(r) \/ DryPurge(r)

Upstream(r) == SerenaActs(r) \/ MemPalaceStores(r) \/ Refuse(r)

Next ==
  \/ \E r \in Request : \/ Accept(r) \/ Handle(r) \/ LockTimeout(r)
                        \/ Upstream(r) \/ Cancel(r)
  \/ \E d \in Drawer : DeleteDrawer(d) \/ StoreDrawer(d)
  \/ \E s \in Server : Crash(s)

Spec == Init /\ [][Next]_vars

\* The labels at which a request waits for Serena or MemPalace; client.py knows no timeout.
UpstreamPc == AwaitPc \ {"publish"}

\* The loop of a server keeps running what needs no upstream, and SQLite gives up on a
\* lock.  Nothing is assumed of the upstreams, nor of a reply being taken.
LocalStep(r) == pc[r] \notin UpstreamPc /\ Handle(r)
LocalFairness == \A r \in Request : WF_vars(LocalStep(r)) /\ WF_vars(LockTimeout(r))
LocalSpec == Spec /\ LocalFairness

-----------------------------------------------------------------------------
(* Properties *)

\* Which handler a request at each label belongs to, and what it has bound by then.
Stage(r) ==
  /\ IF pc[r] = "new" THEN home[r] = NoOne
     ELSE home[r] \in Server /\ input[r] \in Input
  /\ pc[r] \in {"begin", "serena", "kg_end", "publish"} => input[r].op \in {"rename", "delete"}
  /\ pc[r] = "kg_add" => input[r].op = "rename"
  /\ pc[r] = "lookup" => input[r].op \in {"anchor", "anchor_chunk"}
  /\ pc[r] \in {"add", "resolve", "insert", "discover", "touch", "anchor_select",
                "anchor_insert"} => input[r].op \in {"anchor", "mem_add"}
  /\ pc[r] = "chunk_insert" => input[r].op = "anchor_chunk"
  /\ pc[r] \in {"scan", "check", "purge", "trace"} => input[r].op = "reconcile"
  /\ remote[r] # "none" => pc[r] # "new"

\* The write lock is held exactly from BEGIN IMMEDIATE to the reply of Serena, by one
\* request, and only the holder has uncommitted rows.
LockDiscipline ==
  /\ \A r \in Request : pc[r] = "serena" <=> writer = r
  /\ writer = NoOne => wdb = EmptyDb
  /\ \A r \in Request : pc[r] = "serena" => sym[r] \in 0..Len(wdb.symbols)

\* At any moment an identity (path, name path) names at most one live symbol, so that
\* get_symbol has one answer, whatever renames, deletions and insertions interleave.
UniqueLiveIdentity == UniqueLive(db) /\ UniqueAnchors(db)

\* The rows of symbol_history retell the life of each symbol without a gap, from its
\* discovery to its current row: no committed rename or deletion is missing from the
\* ledger, none is recorded that did not happen, and none overwrote another.  (The
\* discovery row itself can be missing after a crash, and can follow a rename.)
LedgerMatchesIdentity == LedgerFollows(db)

\* A rename or deletion reaches the committed database only after Serena performed exactly
\* that edit, whatever replies are lost, calls cancelled or processes killed.
CommittedOnlyIfApplied ==
  \A k \in (Len(InitDb.history) + 1)..Len(db.history) :
    LET row == db.history[k]
    IN IsMove(db, k) =>
         \E r \in Request :
           /\ remote[r] = "done" /\ sym[r] = row.sym
           /\ input[r].op = IF row.source = "engram-rename" THEN "rename" ELSE "delete"
           /\ input[r].ident.name = row.old
           /\ input[r].op = "rename" => Renamed(input[r]).name = row.new

\* What Engram tells others (the hook bus, the knowledge graph) is about changes the
\* database has committed.
AnnouncedOnlyIfCommitted ==
  /\ \A e \in events : \E k \in DOMAIN db.history :
       /\ db.history[k].sym = e.sym /\ db.history[k].old = e.old
       /\ IF e.type = "symbol.renamed" THEN db.history[k].new = e.new
          ELSE db.history[k].source = "engram-delete"
  /\ \A f \in kg : \E k \in DOMAIN db.history :
       /\ IsMove(db, k) /\ db.history[k].old = f.of
       /\ f.rel = "renamed_to" => db.history[k].new = f.to

\* A rename or deletion that is committed is announced on the hook bus, whatever becomes of
\* the knowledge graph in between; only a cancelled call or a dead process leaves one unsaid.
CommittedIsAnnounced ==
  \A k \in (Len(InitDb.history) + 1)..Len(db.history) : IsMove(db, k) =>
    LET row == db.history[k]
    IN \/ \E e \in events : /\ e.sym = row.sym /\ e.old = row.old
                            /\ e.type = "symbol.renamed" => e.new = row.new
       \/ \E r \in Request : /\ pc[r] \in {"kg_add", "kg_end", "publish", "lost"}
                             /\ sym[r] = row.sym /\ input[r].op \in {"rename", "delete"}
                             /\ input[r].ident.name = row.old

\* An anchor the caller was told about stays until a reconciler pass finds its drawer
\* missing: no rename, deletion, concurrent process or pass over other rows loses it.  An
\* anchor to a chunk stays even then.
AckedAnchorKept ==
  \A r \in Request : pc[r] = "ok" =>
    /\ input[r].op \in {"anchor", "mem_add"} =>
         \/ HasAnchor(db, sym[r], input[r].drawer)
         \/ \E p \in Request : \E a \in dangled[p] : a.sym = sym[r] /\ a.drawer = input[r].drawer
    /\ input[r].op = "anchor_chunk" => HasChunkAnchor(db, input[r].drawer, input[r].chunk)

\* No commit overwrites what another connection committed: the ledger only grows, symbol
\* rows never disappear, and a tombstoned row never changes again.
LedgerAppendOnly ==
  [][/\ IsPrefixOf(db.history, db'.history)
     /\ Len(db.symbols) <= Len(db'.symbols)
     /\ \A s \in DOMAIN db.symbols : ~db.symbols[s].live => db'.symbols[s] = db.symbols[s]]_db

\* An anchoring that succeeded hangs on the symbol the caller named, under that name or
\* one the ledger leads to from it, whatever another process renames, deletes or inserts
\* between the statements of the handler.
AnchoredAsAsked ==
  \A r \in Request :
    (pc[r] = "ok" /\ input[r].op \in {"anchor", "mem_add"}) =>
      LET now   == db.symbols[sym[r]].ident
          asked == input[r].ident
      IN /\ now.path = asked.path
         /\ \/ now.name = asked.name
            \/ \E k \in DOMAIN db.history :
                 /\ db.history[k].sym = sym[r] /\ db.history[k].source = "engram-rename"
                 /\ db.history[k].old = asked.name

\* Every anchor a reconciler pass removed has its row in the ledger, except the one a pass
\* is about to record or was cut off from recording.
PurgesTraced ==
  db.lastAnchor - Cardinality(db.anchors)
    <= (InitDb.lastAnchor - Cardinality(InitDb.anchors))
       + Cardinality({k \in DOMAIN db.history : db.history[k].source = "reconcile"})
       + Cardinality({r \in Request : /\ pc[r] \in {"trace", "failed", "lost"}
                                      /\ input[r].op = "reconcile"})

\* A rename or deletion that Engram reports as failed did not happen in the source tree.
FailedMeansNotApplied ==
  \A r \in Request :
    (pc[r] = "failed" /\ input[r].op \in {"rename", "delete"}) => remote[r] # "done"

\* A symbol that anchors point to and that is live in the Link Layer exists in the source
\* tree whenever no interceptor is at work.
AnchoredSymbolsExist ==
  (\A r \in Request : pc[r] \in {"new"} \cup DonePc) =>
    \A a \in db.anchors : db.symbols[a.sym].live => db.symbols[a.sym].ident \in code

\* The only anchors that are ever removed are rows a reconciler pass at its deletions has
\* read, and whose drawer MemPalace was without at some moment between that reading and the
\* pass's lookup: no pass takes along a row that was inserted meanwhile, nor one whose drawer
\* was there all the time.
PurgeOnlyMissed ==
  [][\A a \in db.anchors \ db'.anchors :
       \E p \in Request : pc[p] = "purge" /\ a \in dangled[p]]_db

\* A reconciler pass removes only anchors whose drawer is gone from MemPalace.
PurgeOnlyDangling ==
  [][\A a \in db.anchors \ db'.anchors : a.drawer \notin drawers]_db

\* The Link Layer as its readers see it: the committed tables without the ledger and the
\* anchor ids.
LL == INSTANCE LinkLayer
        WITH Name <- NamePath, File <- Path,
             symbols <- db.symbols,
             anchors <- {[sym |-> a.sym, drawer |-> a.drawer] : a \in db.anchors},
             chunks <- db.chunks,
             InitSymbols <- InitDb.symbols,
             InitAnchors <- {[sym |-> a.sym, drawer |-> a.drawer] : a \in InitDb.anchors},
             InitChunks <- InitDb.chunks

\* Every step of every process is, for a reader of the committed tables, nothing or one
\* whole operation on a row that is there: one symbol discovered under a free identity, one
\* live row renamed in its file or tombstoned for good, one anchor set or removed.  No
\* reader sees half a rename, and no commit carries more than its own operation.
ImplementsLinkLayer == LL!Spec

\* Only an upstream that does not answer can hold a request up: whatever lock it waits for,
\* whoever holds it, and although its holder may wait for Serena for ever, a request comes to
\* its end or to a call of its own to an upstream.
OnlyUpstreamDelays ==
  \A r \in Request : (pc[r] # "new") ~> (pc[r] \in DonePc \cup UpstreamPc)
=============================================================================
