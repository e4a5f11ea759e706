--------------------------- MODULE ChangePipeline ---------------------------
(***************************************************************************)
(* From a changed file to swept anchors: engram.notify_file_changed        *)
(* (tools/notify.py) and the Serena edit interceptor (tools/write_hooks.py)*)
(* publish file.replaced on the hook bus (events.py), the change logger    *)
(* (workers/change_log.py) records it, and the dirty sweep                 *)
(* (workers/scheduler.py, workers/reconciler.py) works it off.             *)
(*                                                                         *)
(* Handlers, sweeps and interceptors of one `engram mcp` process share its *)
(* event loop; several processes share the SQLite file, in autocommit mode *)
(* outside the interceptors' BEGIN IMMEDIATE.  `engram reconcile` is a     *)
(* process that only makes full passes.  No code of the repository inserts *)
(* chunk anchors any more: they are what the database held at the start.   *)
(***************************************************************************)
EXTENDS Integers, Sequences, FiniteSets

CONSTANTS
  Server,      \* `engram mcp` processes
  Cli,         \* `engram reconcile` processes
  Change,      \* file changes, each reported once
  Menu,        \* what a change may be (records of Input)
  Path,
  Symbol,      \* symbol rows
  PathOf,      \* the file of each symbol
  InitLive,    \* symbols that are live at the start; the others may be discovered
  InitChunks,  \* symbols with a chunk anchor in their file
  Faults,      \* a subset of {"cancel", "refused"}
  MaxCrash,    \* bound: processes that die
  MaxHold,     \* bound: interceptor transactions
  MaxPass,     \* bound: full passes
  NoOne

Input == [path : Path, type : {"edit", "delete"}, via : {"notify", "serena"}, told : BOOLEAN]

ASSUME PipelineAssumption ==
  /\ Menu \subseteq Input
  /\ PathOf \in [Symbol -> Path]
  /\ InitLive \subseteq Symbol /\ InitChunks \subseteq InitLive
  /\ Faults \subseteq {"cancel", "refused"}
  /\ MaxCrash \in Nat /\ MaxHold \in Nat /\ MaxPass \in Nat
  /\ Server \cap Cli = {} /\ NoOne \notin Server \cup Cli \cup Change \cup Path \cup Symbol

VARIABLES
  state,      \* change_log: the row of each change, by its reindex_state
  dirty,      \* dirty_files
  symbols,    \* each symbol row: "absent", "live" or "dead" (tombstoned_at is set)
  buriers,    \* the tombstone rows of symbol_history: who wrote them, NoOne for an interceptor
  chunks,     \* anchors_symbol_chunk
  lock,       \* the process with an interceptor between BEGIN IMMEDIATE and COMMIT
  holds, passes, crashes,
  pc, home, input, todo, row,  \* a handler: its label, process, arguments, rows to do, row in hand
  wpc, paths, drop, cur        \* a sweep: its label, scope, anchors to delete, path in hand

bounds  == <<holds, passes, crashes>>
tables  == <<state, dirty, symbols, buriers, chunks>>
handler == <<pc, home, input, todo, row>>
sweep   == <<wpc, paths, drop, cur>>
vars    == <<tables, lock, bounds, handler, sweep>>

Process  == Server \cup Cli
AwaitPc  == {"edit", "publish", "mirror"}
WritePc  == {"insert", "dirty", "bury", "record"}
SyncPc   == WritePc \cup {"select", "check"}
DonePc   == {"ok", "failed", "lost", "died"}
WriteWpc == {"drop", "mark", "clear"}

TypeOK ==
  /\ state \in [Change -> {"none", "pending", "reindexed"}]
  /\ dirty \subseteq Path
  /\ symbols \in [Symbol -> {"absent", "live", "dead"}]
  /\ buriers \in [Symbol -> Seq(Change \cup {NoOne})]
  /\ chunks \subseteq Symbol
  /\ lock \in Server \cup {NoOne}
  /\ holds \in 0..MaxHold /\ passes \in 0..MaxPass /\ crashes \in 0..MaxCrash
  /\ pc \in [Change -> {"new"} \cup AwaitPc \cup SyncPc \cup DonePc]
  /\ home \in [Change -> Server \cup {NoOne}]
  /\ input \in [Change -> Input \cup {NoOne}]
  /\ todo \in [Change -> SUBSET Symbol] /\ row \in [Change -> Symbol \cup {NoOne}]
  /\ wpc \in [Process -> {"idle", "select"} \cup WriteWpc]
  /\ paths \in [Process -> SUBSET Path]
  /\ drop \in [Process -> SUBSET Symbol]
  /\ cur \in [Process -> Path \cup {NoOne}]
  \* each label has bound what its statement uses
  /\ \A c \in Change : pc[c] \in {"bury", "record"} => row[c] # NoOne
  /\ \A p \in Process : /\ wpc[p] = "drop" <=> drop[p] # {}
                        /\ wpc[p] = "clear" <=> cur[p] # NoOne

Init ==
  /\ state = [c \in Change |-> "none"] /\ dirty = {}
  /\ symbols = [x \in Symbol |-> IF x \in InitLive THEN "live" ELSE "absent"]
  /\ buriers = [x \in Symbol |-> <<>>]
  /\ chunks = InitChunks
  /\ lock = NoOne /\ holds = 0 /\ passes = 0 /\ crashes = 0
  /\ pc = [c \in Change |-> "new"]
  /\ home = [c \in Change |-> NoOne] /\ input = [c \in Change |-> NoOne]
  /\ todo = [c \in Change |-> {}] /\ row = [c \in Change |-> NoOne]
  /\ wpc = [p \in Process |-> "idle"] /\ paths = [p \in Process |-> {}]
  /\ drop = [p \in Process |-> {}] /\ cur = [p \in Process |-> NoOne]

-----------------------------------------------------------------------------
(* The event loop of a process, and the write lock *)

\* Nobody is between two awaits.
FaultyLoopIdle(p) == wpc[p] = "idle"
LoopIdle(p) == (\A c \in Change : home[c] = p => pc[c] \notin SyncPc) /\ wpc[p] = "idle"
FaultyLockFree == lock = NoOne /\ \A p \in Process : wpc[p] \notin WriteWpc
LockFree == lock = NoOne

Goto(c, l) == pc' = [pc EXCEPT ![c] = l]

-----------------------------------------------------------------------------
(* A change is reported and published *)

Report(c) ==
  /\ pc[c] = "new"
  /\ \E s \in Server, i \in Menu :
       /\ LoopIdle(s)
       /\ home' = [home EXCEPT ![c] = s]
       /\ input' = [input EXCEPT ![c] = i]
       /\ Goto(c, IF i.via = "serena" THEN "edit" ELSE "publish")
  /\ UNCHANGED <<tables, lock, bounds, todo, row, sweep>>

\* Serena's answer to the forwarded edit; isError or an exception publishes nothing.
EditReply(c) ==
  /\ pc[c] = "edit" /\ LoopIdle(home[c])
  /\ \/ Goto(c, "publish")
     \/ "refused" \in Faults /\ Goto(c, "failed")
  /\ UNCHANGED <<tables, lock, bounds, home, input, todo, row, sweep>>

-----------------------------------------------------------------------------
(* The change logger: from its first statement to its last without an await *)

\* gather has scheduled the handler, which opens its connection.
StartHandler(c) ==
  /\ pc[c] = "publish" /\ LoopIdle(home[c])
  /\ Goto(c, "insert")
  /\ UNCHANGED <<tables, lock, bounds, home, input, todo, row, sweep>>

InsertChangeLog(c) ==
  /\ pc[c] = "insert" /\ LockFree
  /\ state' = [state EXCEPT ![c] = "pending"]
  /\ Goto(c, "dirty")
  /\ UNCHANGED <<dirty, symbols, buriers, chunks, lock, bounds, home, input, todo, row, sweep>>

\* _mirror_to_kg follows when the change belongs to a conversation.
AfterTables(c) == IF input[c].told THEN "mirror" ELSE "ok"

FaultyUpsertDirtyFile(p) == IF dirty = {} THEN {p} ELSE dirty
UpsertDirtyFile(p) == dirty \cup {p}

MarkDirty(c) ==
  /\ pc[c] = "dirty" /\ LockFree
  /\ dirty' = UpsertDirtyFile(input[c].path)
  /\ Goto(c, IF input[c].type = "delete" THEN "select" ELSE AfterTables(c))
  /\ UNCHANGED <<state, symbols, buriers, chunks, lock, bounds, home, input, todo, row, sweep>>

\* _tombstone_symbols_for
LiveIn(p) == {x \in Symbol : PathOf[x] = p /\ symbols[x] = "live"}

SelectSymbols(c) ==
  /\ pc[c] = "select"
  /\ todo' = [todo EXCEPT ![c] = LiveIn(input[c].path)]
  /\ Goto(c, IF todo'[c] = {} THEN AfterTables(c) ELSE "check")
  /\ UNCHANGED <<tables, lock, bounds, home, input, row, sweep>>

\* tombstone_symbol reads the row again, and leaves a tombstoned one alone.
StillLive(x) == symbols[x] = "live"

CheckSymbol(c) ==
  /\ pc[c] = "check"
  /\ \E x \in todo[c] :
       /\ todo' = [todo EXCEPT ![c] = @ \ {x}]
       /\ \/ /\ StillLive(x)
             /\ row' = [row EXCEPT ![c] = x]
             /\ Goto(c, "bury")
          \/ /\ ~StillLive(x)
             /\ row' = row
             /\ Goto(c, IF todo'[c] = {} THEN AfterTables(c) ELSE "check")
  /\ UNCHANGED <<tables, lock, bounds, home, input, sweep>>

Bury(c) ==
  /\ pc[c] = "bury" /\ LockFree
  /\ symbols' = [symbols EXCEPT ![row[c]] = "dead"]
  /\ Goto(c, "record")
  /\ UNCHANGED <<state, dirty, buriers, chunks, lock, bounds, home, input, todo, row, sweep>>

RecordBurial(c) ==
  /\ pc[c] = "record" /\ LockFree
  /\ buriers' = [buriers EXCEPT ![row[c]] = Append(@, c)]
  /\ row' = [row EXCEPT ![c] = NoOne]
  /\ Goto(c, IF todo[c] = {} THEN AfterTables(c) ELSE "check")
  /\ UNCHANGED <<state, dirty, symbols, chunks, lock, bounds, home, input, todo, sweep>>

\* mempalace_kg_add has answered or raised; either way the publisher answers success.
MirrorReply(c) ==
  /\ pc[c] = "mirror" /\ LoopIdle(home[c])
  /\ Goto(c, "ok")
  /\ UNCHANGED <<tables, lock, bounds, home, input, todo, row, sweep>>

\* The lock was not granted within busy_timeout.  _safe_invoke logs the exception and
\* the publisher goes on to answer success.
HandlerTimeout(c) ==
  /\ pc[c] \in WritePc /\ ~LockFree
  /\ Goto(c, "ok")
  /\ UNCHANGED <<tables, lock, bounds, home, input, todo, row, sweep>>

-----------------------------------------------------------------------------
(* Other writers: the rename and delete interceptors, and anchoring tools *)

BeginHold(s) ==
  /\ LockFree /\ LoopIdle(s) /\ holds < MaxHold
  /\ lock' = s /\ holds' = holds + 1
  /\ UNCHANGED <<tables, passes, crashes, handler, sweep>>

\* COMMIT or rollback once Serena has answered; a delete tombstones its symbol.
EndHold(s) ==
  /\ lock = s /\ LoopIdle(s)
  /\ lock' = NoOne
  /\ \/ UNCHANGED <<symbols, buriers>>
     \/ \E x \in Symbol : /\ symbols[x] = "live"
                          /\ symbols' = [symbols EXCEPT ![x] = "dead"]
                          /\ buriers' = [buriers EXCEPT ![x] = Append(@, NoOne)]
  /\ UNCHANGED <<state, dirty, chunks, bounds, handler, sweep>>

Discover(x) ==
  /\ symbols[x] = "absent" /\ LockFree
  /\ symbols' = [symbols EXCEPT ![x] = "live"]
  /\ UNCHANGED <<state, dirty, buriers, chunks, lock, bounds, handler, sweep>>

-----------------------------------------------------------------------------
(* The chunks scope of reconcile.  It awaits nothing. *)

\* _run_fast: collect_dirty_paths, then reconcile on what it returned.
Collect(s) ==
  /\ LoopIdle(s) /\ dirty # {}
  /\ paths' = [paths EXCEPT ![s] = dirty]
  /\ wpc' = [wpc EXCEPT ![s] = "select"]
  /\ UNCHANGED <<tables, lock, bounds, handler, drop, cur>>

\* The daily pass, the engram.reconcile tool or `engram reconcile`: no paths.
StartPass(p) ==
  /\ LoopIdle(p) /\ passes < MaxPass
  /\ passes' = passes + 1
  /\ wpc' = [wpc EXCEPT ![p] = "select"]
  /\ UNCHANGED <<tables, lock, holds, crashes, handler, paths, drop, cur>>

InScope(p, x) == paths[p] = {} \/ PathOf[x] \in paths[p]

\* The label after the deletions, or after a path.
FaultyNextLabel(p) ==
  IF paths'[p] # {} THEN "mark" ELSE IF drop'[p] # {} THEN "drop" ELSE "idle"
NextLabel(p) ==
  IF drop'[p] # {} THEN "drop" ELSE IF paths'[p] # {} THEN "mark" ELSE "idle"

SelectChunks(p) ==
  /\ wpc[p] = "select"
  /\ drop' = [drop EXCEPT ![p] = {x \in chunks : InScope(p, x) /\ symbols[x] = "dead"}]
  /\ paths' = paths
  /\ wpc' = [wpc EXCEPT ![p] = NextLabel(p)]
  /\ UNCHANGED <<tables, lock, bounds, handler, cur>>

DropChunk(p) ==
  /\ wpc[p] = "drop" /\ LockFree
  /\ \E x \in drop[p] : /\ chunks' = chunks \ {x}
                        /\ drop' = [drop EXCEPT ![p] = @ \ {x}]
  /\ paths' = paths
  /\ wpc' = [wpc EXCEPT ![p] = NextLabel(p)]
  /\ UNCHANGED <<state, dirty, symbols, buriers, lock, bounds, handler, cur>>

MarkReindexed(p) ==
  /\ wpc[p] = "mark" /\ LockFree
  /\ \E f \in paths[p] :
       /\ state' = [c \in Change |-> IF state[c] = "pending" /\ input[c].path = f
                                     THEN "reindexed" ELSE state[c]]
       /\ cur' = [cur EXCEPT ![p] = f]
  /\ wpc' = [wpc EXCEPT ![p] = "clear"]
  /\ UNCHANGED <<dirty, symbols, buriers, chunks, lock, bounds, handler, paths, drop>>

FaultyCleared(p) == paths[p]
Cleared(p) == {cur[p]}

ClearDirty(p) ==
  /\ wpc[p] = "clear" /\ LockFree
  /\ dirty' = dirty \ Cleared(p)
  /\ paths' = [paths EXCEPT ![p] = @ \ {cur[p]}]
  /\ drop' = drop
  /\ cur' = [cur EXCEPT ![p] = NoOne]
  /\ wpc' = [wpc EXCEPT ![p] = NextLabel(p)]
  /\ UNCHANGED <<state, symbols, buriers, chunks, lock, bounds, handler>>

ForgetSweep(p) ==
  /\ wpc' = [wpc EXCEPT ![p] = "idle"]
  /\ paths' = [paths EXCEPT ![p] = {}]
  /\ drop' = [drop EXCEPT ![p] = {}]
  /\ cur' = [cur EXCEPT ![p] = NoOne]

\* The exception is logged; the next tick starts afresh.
SweepTimeout(p) ==
  /\ wpc[p] \in WriteWpc /\ ~LockFree
  /\ ForgetSweep(p)
  /\ UNCHANGED <<tables, lock, bounds, handler>>

-----------------------------------------------------------------------------
(* Cancellation and crashes *)

\* The client cancels the call that awaits Serena, the bus or the knowledge graph.
Cancel(c) ==
  /\ "cancel" \in Faults
  /\ pc[c] \in AwaitPc /\ LoopIdle(home[c])
  /\ Goto(c, "lost")
  /\ UNCHANGED <<tables, lock, bounds, home, input, todo, row, sweep>>

\* The process dies between two statements and is started again.
Crash(p) ==
  /\ crashes < MaxCrash
  /\ crashes' = crashes + 1
  /\ pc' = [c \in Change |-> IF home[c] = p /\ pc[c] \notin DonePc THEN "died" ELSE pc[c]]
  /\ lock' = IF lock = p THEN NoOne ELSE lock
  /\ ForgetSweep(p)
  /\ UNCHANGED <<tables, holds, passes, home, input, todo, row>>

-----------------------------------------------------------------------------
Handle(c) ==
  \/ EditReply(c) \/ StartHandler(c) \/ InsertChangeLog(c) \/ MarkDirty(c) \/ SelectSymbols(c)
  \/ CheckSymbol(c) \/ Bury(c) \/ RecordBurial(c) \/ MirrorReply(c) \/ HandlerTimeout(c)

Sweep(p) ==
  SelectChunks(p) \/ DropChunk(p) \/ MarkReindexed(p) \/ ClearDirty(p) \/ SweepTimeout(p)

Next ==
  \/ \E c \in Change : Report(c) \/ Handle(c) \/ Cancel(c)
  \/ \E s \in Server : BeginHold(s) \/ EndHold(s) \/ Collect(s)
  \/ \E p \in Process : StartPass(p) \/ Sweep(p) \/ Crash(p)
  \/ \E x \in Symbol : Discover(x)

Spec == Init /\ [][Next]_vars

\* The loop of a process runs what is due and SQLite gives up on a lock.  asyncio wakes
\* tasks first in, first out, so neither the sweep timer, which goes off for ever, nor the
\* interceptor that Serena has answered is starved by the other tasks of its loop.
Fairness ==
  /\ \A c \in Change : WF_vars(Handle(c))
  /\ \A p \in Process : WF_vars(Sweep(p))
  /\ \A s \in Server : SF_vars(EndHold(s)) /\ SF_vars(Collect(s))
FairSpec == Spec /\ Fairness

-----------------------------------------------------------------------------
(* Properties *)

\* A logged change waits in dirty_files until it is swept, so that some later sweep will
\* visit its file: no sweep, failing sweep or full pass clears a file whose row it did not
\* mark.  Only a handler that dies between its two statements leaves a row behind.
NoStrandedChange ==
  \A c \in Change :
    (state[c] = "pending" /\ pc[c] \notin {"dirty", "died"}) => input[c].path \in dirty

\* A row says "reindexed" only when the anchors were swept after the change: no chunk
\* anchor is left of a symbol that this change tombstoned.
ReindexedMeansSwept ==
  \A c \in Change : state[c] = "reindexed" =>
    \A x \in chunks : \A k \in DOMAIN buriers[x] : buriers[x][k] # c

\* The life of a symbol ends once: two deletions of its file, or a deletion of its file
\* and one of the symbol, leave one tombstone row in its history.
TombstonedOnce == \A x \in Symbol : Len(buriers[x]) <= 1

\* Every logged change whose handler lives is reindexed in the end, whatever sweeps run
\* into the write lock.
ChangesAreSwept ==
  \A c \in Change : (state[c] = "pending") ~> (state[c] = "reindexed" \/ pc[c] = "died")

\* _safe_invoke swallows what the change logger raises, so that a success may be answered for a
\* change that is not recorded; but only a transaction of an interceptor makes it raise.  As long
\* as there was none, an accepted change is in the change log and an accepted deletion has
\* tombstoned what the file held, whatever sweeps, passes and other handlers wrote meanwhile.
RecordedUnlessHeld ==
  holds = 0 =>
    \A c \in Change : pc[c] = "ok" =>
      /\ state[c] # "none"
      /\ input[c].type = "delete" =>
           \A x \in InitLive : PathOf[x] = input[c].path => symbols[x] = "dead"
=============================================================================
