------------------------------ MODULE LinkStore ------------------------------
(***************************************************************************)
(* The tables of the Link Layer database (link/schema.sql) and the         *)
(* functions of link/store.py as operators from database to database.      *)
(*                                                                         *)
(* A database is a record.  symbols is a sequence because symbol_id is an  *)
(* AUTOINCREMENT key and no statement of the program ever deletes a symbol *)
(* row: the id of a row is its position.  Anchors are deleted, so an       *)
(* anchor row carries its id and lastAnchor is the AUTOINCREMENT counter.  *)
(* NULL in a name column is the empty name path NoName.                    *)
(***************************************************************************)
EXTENDS Integers, Sequences, FiniteSets

CONSTANTS
  Path,     \* relative paths of source files
  Segment,  \* the segments a Serena name path is made of
  Drawer,   \* MemPalace drawer ids
  Chunk     \* ranges of lines in source files

NoName   == <<>>
NamePath == Seq(Segment) \ {NoName}
Identity == [path : Path, name : NamePath]

MoveSource == {"engram-rename", "engram-delete"}
Source     == MoveSource \cup {"discovery", "reconcile"}

SymbolRow  == [ident : Identity, live : BOOLEAN]
HistoryRow == [sym : Nat, source : Source, old : NamePath \cup {NoName}, new : NamePath \cup {NoName}]
AnchorRow  == [id : Nat, sym : Nat, drawer : Drawer]
ChunkAnchorRow == [drawer : Drawer, chunk : Chunk]

Database ==
  [symbols : Seq(SymbolRow), history : Seq(HistoryRow),
   anchors : SUBSET AnchorRow, lastAnchor : Nat, chunks : SUBSET ChunkAnchorRow]

EmptyDb ==
  [symbols |-> <<>>, history |-> <<>>, anchors |-> {}, lastAnchor |-> 0, chunks |-> {}]

-----------------------------------------------------------------------------
(* symbols *)

\* The live row of an identity, 0 when there is none (get_symbol).
LiveRows(db, ident) ==
  {s \in DOMAIN db.symbols : db.symbols[s].live /\ db.symbols[s].ident = ident}
GetSymbol(db, ident) ==
  IF LiveRows(db, ident) = {} THEN 0 ELSE CHOOSE s \in LiveRows(db, ident) : TRUE

\* Would giving this identity to row s break idx_symbols_current_identity?
FaultyCollides(db, ident, s) == FALSE
Collides(db, ident, s) == LiveRows(db, ident) \ {s} # {}

AppendHistory(db, s, source, old, new) ==
  [db EXCEPT !.history = Append(@, [sym |-> s, source |-> source, old |-> old, new |-> new])]

NewSymbol(db) == Len(db.symbols) + 1
InsertSymbol(db, ident) ==
  [db EXCEPT !.symbols = Append(@, [ident |-> ident, live |-> TRUE])]
DiscoverSymbol(db, s, ident) == AppendHistory(db, s, "discovery", NoName, ident.name)

\* upsert_symbol run inside one transaction: no other connection sees its halves.
UpsertSymbol(db, ident) ==
  IF GetSymbol(db, ident) # 0 THEN db
  ELSE DiscoverSymbol(InsertSymbol(db, ident), NewSymbol(db), ident)

\* rename_symbol as the interceptor calls it: new_path is None, so the path stays.
FaultyRenameSymbol(db, s, new) == [db EXCEPT !.symbols[s].ident.name = new]
RenameSymbol(db, s, new) ==
  AppendHistory([db EXCEPT !.symbols[s].ident.name = new],
                s, "engram-rename", db.symbols[s].ident.name, new)

FaultyTombstoneSymbol(db, s) ==
  [db EXCEPT !.symbols[s].live = FALSE, !.anchors = {a \in @ : a.sym # s}]
\* tombstone_symbol: nothing happens to a row that is already tombstoned.
TombstoneSymbol(db, s) ==
  IF ~db.symbols[s].live THEN db
  ELSE AppendHistory([db EXCEPT !.symbols[s].live = FALSE],
                     s, "engram-delete", db.symbols[s].ident.name, NoName)

-----------------------------------------------------------------------------
(* anchors_symbol_memory *)

HasAnchor(db, s, d) == \E a \in db.anchors : a.sym = s /\ a.drawer = d

InsertAnchor(db, s, d) ==
  [db EXCEPT !.anchors = @ \cup {[id |-> db.lastAnchor + 1, sym |-> s, drawer |-> d]},
             !.lastAnchor = @ + 1]

DeleteAnchor(db, id) == [db EXCEPT !.anchors = {a \in @ : a.id # id}]

-----------------------------------------------------------------------------
(* anchors_memory_chunk: idx_amc_identity makes a row the pair it stands for. *)

HasChunkAnchor(db, d, c) == [drawer |-> d, chunk |-> c] \in db.chunks
InsertChunkAnchor(db, d, c) == [db EXCEPT !.chunks = @ \cup {[drawer |-> d, chunk |-> c]}]

-----------------------------------------------------------------------------
(* What the schema and the ledger promise of a database. *)

\* idx_symbols_current_identity: one live row per (relative_path, name_path).
UniqueLive(db) ==
  \A s, t \in DOMAIN db.symbols :
    (db.symbols[s].live /\ db.symbols[t].live /\ db.symbols[s].ident = db.symbols[t].ident)
      => s = t

\* idx_asm_identity and the primary key of anchors_symbol_memory.
UniqueAnchors(db) ==
  \A a, b \in db.anchors : (a.id = b.id \/ (a.sym = b.sym /\ a.drawer = b.drawer)) => a = b

\* Positions j < k of two successive rename or delete rows of one symbol.
IsMove(db, k)       == db.history[k].source \in MoveSource
NextMove(db, j, k)  ==
  /\ j < k
  /\ IsMove(db, j) /\ IsMove(db, k)
  /\ db.history[j].sym = db.history[k].sym
  /\ \A m \in (j + 1)..(k - 1) : ~(IsMove(db, m) /\ db.history[m].sym = db.history[j].sym)
LastMove(db, k) ==
  /\ IsMove(db, k)
  /\ \A m \in (k + 1)..Len(db.history) : ~(IsMove(db, m) /\ db.history[m].sym = db.history[k].sym)

FirstMove(db, k) ==
  /\ IsMove(db, k)
  /\ \A m \in 1..(k - 1) : ~(IsMove(db, m) /\ db.history[m].sym = db.history[k].sym)

\* Following the rows of a symbol from its discovery over its renames and its deletion
\* ends at the identity the symbols table holds now.
LedgerFollows(db) ==
  /\ \A d, k \in DOMAIN db.history :
       (db.history[d].source = "discovery" /\ FirstMove(db, k) /\ db.history[d].sym = db.history[k].sym)
         => db.history[d].new = db.history[k].old
  /\ \A j, k \in DOMAIN db.history :
       NextMove(db, j, k) => /\ db.history[j].source = "engram-rename"
                             /\ db.history[j].new = db.history[k].old
  /\ \A k \in DOMAIN db.history :
       LastMove(db, k) =>
         LET row == db.history[k]
             now == db.symbols[row.sym]
         IN IF row.source = "engram-rename"
            THEN now.live /\ now.ident.name = row.new
            ELSE ~now.live /\ now.ident.name = row.old
  /\ \A d \in DOMAIN db.history :
       (/\ db.history[d].source = "discovery"
        /\ \A k \in DOMAIN db.history : IsMove(db, k) => db.history[k].sym # db.history[d].sym)
         => /\ db.symbols[db.history[d].sym].live
            /\ db.symbols[db.history[d].sym].ident.name = db.history[d].new
  /\ \A s \in DOMAIN db.symbols :
       ~db.symbols[s].live => \E k \in DOMAIN db.history : /\ db.history[k].sym = s
                                                           /\ db.history[k].source = "engram-delete"
=============================================================================
