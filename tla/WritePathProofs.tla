--------------------------- MODULE WritePathProofs ---------------------------
(***************************************************************************)
(* Theorems about WritePath for every set of servers, requests and inputs, *)
(* every fault and every initial database the schema accepts: first what   *)
(* the store functions preserve, then the actions.                         *)
(***************************************************************************)
EXTENDS WritePath, SequenceTheorems, TLAPS

-----------------------------------------------------------------------------
(* The store functions: each one maps a sound database to a sound database. *)

\* A database the schema accepts, with the AUTOINCREMENT counter ahead of every id.
Sound(d) ==
  /\ d \in Database
  /\ UniqueLive(d)
  /\ UniqueAnchors(d)
  /\ \A a \in d.anchors : a.id \in 1..d.lastAnchor

\* An empty file satisfies the schema.
LEMMA EmptySound == Sound(EmptyDb)
BY DEF Sound, EmptyDb, Database, UniqueLive, UniqueAnchors

\* get_symbol returns the id of a live row of that identity, or nothing when there is none.
LEMMA GetSymbolResult ==
  ASSUME NEW d \in Database, NEW ident \in Identity
  PROVE  /\ GetSymbol(d, ident) \in 0..Len(d.symbols)
         /\ GetSymbol(d, ident) # 0 => GetSymbol(d, ident) \in LiveRows(d, ident)
         /\ GetSymbol(d, ident) = 0 => LiveRows(d, ident) = {}
<1>1. LiveRows(d, ident) \subseteq 1..Len(d.symbols)
  BY DEF LiveRows, Database
<1>2. Len(d.symbols) \in Nat
  BY DEF Database
<1>3. CASE LiveRows(d, ident) = {}
  BY <1>2, <1>3 DEF GetSymbol
<1>4. CASE LiveRows(d, ident) # {}
  <2>1. GetSymbol(d, ident) \in LiveRows(d, ident)
    BY <1>4 DEF GetSymbol
  <2> QED BY <1>1, <1>2, <1>4, <2>1
<1> QED BY <1>3, <1>4

\* append_history only adds a row to the ledger.
LEMMA AppendHistorySound ==
  ASSUME NEW d, Sound(d), NEW s \in Nat, NEW source \in Source,
         NEW old \in NamePath \cup {NoName}, NEW new \in NamePath \cup {NoName}
  PROVE  /\ Sound(AppendHistory(d, s, source, old, new))
         /\ AppendHistory(d, s, source, old, new).symbols = d.symbols
<1> DEFINE row == [sym |-> s, source |-> source, old |-> old, new |-> new]
           after == AppendHistory(d, s, source, old, new)
<1>1. row \in HistoryRow
  BY DEF HistoryRow
<1>2. Append(d.history, row) \in Seq(HistoryRow)
  BY <1>1, AppendProperties DEF Sound, Database
<1>3. /\ after \in Database
      /\ after.symbols = d.symbols /\ after.anchors = d.anchors
      /\ after.lastAnchor = d.lastAnchor
  BY <1>2 DEF AppendHistory, Sound, Database
<1> QED BY <1>3 DEF Sound, UniqueLive, UniqueAnchors

\* INSERT INTO symbols of an identity that has no live row keeps identities unique.
LEMMA InsertSymbolSound ==
  ASSUME NEW d, Sound(d), NEW ident \in Identity, LiveRows(d, ident) = {}
  PROVE  /\ Sound(InsertSymbol(d, ident))
         /\ NewSymbol(d) \in Nat
         /\ NewSymbol(d) \in LiveRows(InsertSymbol(d, ident), ident)
<1> DEFINE row == [ident |-> ident, live |-> TRUE]
           after == InsertSymbol(d, ident)
           n == Len(d.symbols)
<1>1. row \in SymbolRow /\ d.symbols \in Seq(SymbolRow) /\ n \in Nat
  BY DEF SymbolRow, Sound, Database
<1>2. /\ after.symbols = Append(d.symbols, row)
      /\ after.history = d.history /\ after.anchors = d.anchors
      /\ after.lastAnchor = d.lastAnchor
      /\ after \in Database
  BY <1>1, AppendProperties DEF InsertSymbol, Sound, Database
<1>a. /\ Append(d.symbols, row) \in Seq(SymbolRow)
      /\ Len(Append(d.symbols, row)) = n + 1
      /\ \A i \in 1..n : Append(d.symbols, row)[i] = d.symbols[i]
      /\ Append(d.symbols, row)[n + 1] = row
  <2> HIDE DEF row
  <2> QED BY <1>1, AppendProperties
<1>3. /\ after.symbols \in Seq(SymbolRow)
      /\ DOMAIN after.symbols = 1..(n + 1)
      /\ after.symbols[n + 1] = row
      /\ \A i \in 1..n : after.symbols[i] = d.symbols[i]
  <2> HIDE DEF row, after
  <2> QED BY <1>2, <1>a, LenProperties
<1>4. UniqueLive(after)
  <2> SUFFICES ASSUME NEW s \in 1..(n + 1), NEW t \in 1..(n + 1), s < t,
                      after.symbols[s].live, after.symbols[t].live,
                      after.symbols[s].ident = after.symbols[t].ident
               PROVE  FALSE
    BY <1>1, <1>3 DEF UniqueLive
  <2>1. s \in 1..n /\ s \in DOMAIN d.symbols /\ after.symbols[s] = d.symbols[s]
    BY <1>1, <1>3
  <2>2. CASE t = n + 1
    BY <1>3, <2>1, <2>2 DEF LiveRows
  <2>3. CASE t \in 1..n
    <3>1. t \in DOMAIN d.symbols /\ after.symbols[t] = d.symbols[t]
      BY <1>1, <1>3, <2>3
    <3> QED BY <2>1, <3>1, s # t DEF Sound, UniqueLive
  <2> QED BY <1>1, <2>2, <2>3
<1>5. n + 1 \in LiveRows(after, ident)
  BY <1>1, <1>3 DEF LiveRows
<1> QED BY <1>1, <1>2, <1>4, <1>5 DEF Sound, UniqueAnchors, NewSymbol

\* upsert_symbol returns with a live row of the identity in place.
LEMMA UpsertSymbolSound ==
  ASSUME NEW d, Sound(d), NEW ident \in Identity
  PROVE  /\ Sound(UpsertSymbol(d, ident))
         /\ GetSymbol(UpsertSymbol(d, ident), ident) \in LiveRows(UpsertSymbol(d, ident), ident)
<1>0. d \in Database
  BY DEF Sound
<1>1. CASE GetSymbol(d, ident) # 0
  BY <1>0, <1>1, GetSymbolResult DEF UpsertSymbol
<1>2. CASE GetSymbol(d, ident) = 0
  <2> DEFINE mid == InsertSymbol(d, ident)
             after == DiscoverSymbol(mid, NewSymbol(d), ident)
  <2>1. LiveRows(d, ident) = {}
    BY <1>0, <1>2, GetSymbolResult
  <2>2. Sound(mid) /\ NewSymbol(d) \in Nat /\ NewSymbol(d) \in LiveRows(mid, ident)
    BY <2>1, InsertSymbolSound
  <2>3. "discovery" \in Source /\ NoName \in NamePath \cup {NoName}
        /\ ident.name \in NamePath \cup {NoName}
    BY DEF Source, Identity
  <2>4. Sound(after) /\ after.symbols = mid.symbols
    BY <2>2, <2>3, AppendHistorySound DEF DiscoverSymbol
  <2>5. LiveRows(after, ident) = LiveRows(mid, ident)
    BY <2>4 DEF LiveRows
  <2>6. GetSymbol(after, ident) \in LiveRows(after, ident)
    BY <2>2, <2>4, <2>5, GetSymbolResult DEF Sound
  <2>7. UpsertSymbol(d, ident) = after
    BY <1>2 DEF UpsertSymbol
  <2> QED BY <2>4, <2>6, <2>7
<1> QED BY <1>1, <1>2

\* rename_symbol keeps identities unique when the index accepts the new one.
LEMMA RenameSymbolSound ==
  ASSUME NEW d, Sound(d), NEW ident \in Identity, NEW s \in LiveRows(d, ident),
         NEW new \in NamePath, ~Collides(d, [ident EXCEPT !.name = new], s)
  PROVE  /\ Sound(RenameSymbol(d, s, new))
         /\ Len(RenameSymbol(d, s, new).symbols) = Len(d.symbols)
<1> DEFINE row == [d.symbols[s] EXCEPT !.ident.name = new]
           mid == [d EXCEPT !.symbols[s].ident.name = new]
<1>1. /\ d.symbols \in Seq(SymbolRow) /\ s \in 1..Len(d.symbols) /\ s \in Nat
      /\ d.symbols[s] \in SymbolRow
      /\ d.symbols[s].live /\ d.symbols[s].ident = ident
  BY DEF Sound, Database, LiveRows
<1>2. row \in SymbolRow /\ row.live = d.symbols[s].live /\ row.ident = [ident EXCEPT !.name = new]
  BY <1>1 DEF SymbolRow, Identity
<1>3. mid = [d EXCEPT !.symbols = [d.symbols EXCEPT ![s] = row]]
  BY <1>1 DEF Sound, Database
<1>4. /\ mid.symbols = [d.symbols EXCEPT ![s] = row]
      /\ mid.symbols \in Seq(SymbolRow)
      /\ Len(mid.symbols) = Len(d.symbols)
      /\ mid.anchors = d.anchors /\ mid.lastAnchor = d.lastAnchor
      /\ mid \in Database
  <2>1. /\ [d.symbols EXCEPT ![s] = row] \in Seq(SymbolRow)
        /\ Len([d.symbols EXCEPT ![s] = row]) = Len(d.symbols)
    <3> HIDE DEF row
    <3> QED BY <1>1, <1>2, ExceptSeq
  <2> HIDE DEF row, mid
  <2> QED BY <1>3, <2>1 DEF Sound, Database
<1>5. UniqueLive(mid)
  <2> SUFFICES ASSUME NEW t \in 1..Len(d.symbols), NEW u \in 1..Len(d.symbols), t # u,
                      mid.symbols[t].live, mid.symbols[u].live,
                      mid.symbols[t].ident = mid.symbols[u].ident
               PROVE  FALSE
    BY <1>1, <1>4 DEF UniqueLive
  <2>1. \A v \in 1..Len(d.symbols) : v # s => mid.symbols[v] = d.symbols[v]
    BY <1>1, <1>4
  <2>2. mid.symbols[s] = row
    BY <1>1, <1>4
  <2>3. \A v \in 1..Len(d.symbols) :
          (v # s /\ d.symbols[v].live) => d.symbols[v].ident # row.ident
    BY <1>1, <1>2 DEF Collides, LiveRows
  <2>4. CASE t # s /\ u # s
    BY <1>1, <2>1, <2>4 DEF Sound, UniqueLive
  <2>5. CASE t = s \/ u = s
    BY <2>1, <2>2, <2>3, <2>5
  <2> QED BY <2>4, <2>5
<1>6. Sound(mid)
  BY <1>4, <1>5 DEF Sound, UniqueAnchors
<1>7. ident.name \in NamePath \cup {NoName} /\ new \in NamePath \cup {NoName}
      /\ "engram-rename" \in Source
  BY DEF Identity, Source, MoveSource
<1>8. RenameSymbol(d, s, new) = AppendHistory(mid, s, "engram-rename", ident.name, new)
  BY <1>1 DEF RenameSymbol
<1>9. /\ Sound(AppendHistory(mid, s, "engram-rename", ident.name, new))
      /\ AppendHistory(mid, s, "engram-rename", ident.name, new).symbols = mid.symbols
  <2> DEFINE old == ident.name
  <2>1. /\ s \in Nat /\ "engram-rename" \in Source
        /\ old \in NamePath \cup {NoName} /\ new \in NamePath \cup {NoName}
    BY <1>1, <1>7
  <2> HIDE DEF mid, row, old
  <2>2. /\ Sound(AppendHistory(mid, s, "engram-rename", old, new))
        /\ AppendHistory(mid, s, "engram-rename", old, new).symbols = mid.symbols
    BY <1>6, <2>1, AppendHistorySound
  <2> QED BY <2>2 DEF old
<1> HIDE DEF mid
<1> QED BY <1>4, <1>8, <1>9

\* tombstone_symbol takes an identity out of the index and never puts one in.
LEMMA TombstoneSymbolSound ==
  ASSUME NEW d, Sound(d), NEW s \in DOMAIN d.symbols
  PROVE  Sound(TombstoneSymbol(d, s))
<1> DEFINE row == [d.symbols[s] EXCEPT !.live = FALSE]
           mid == [d EXCEPT !.symbols[s].live = FALSE]
<1>1. /\ d.symbols \in Seq(SymbolRow) /\ s \in 1..Len(d.symbols) /\ s \in Nat
      /\ d.symbols[s] \in SymbolRow
  BY DEF Sound, Database
<1>2. row \in SymbolRow /\ row.live = FALSE
  BY <1>1 DEF SymbolRow
<1>3. mid = [d EXCEPT !.symbols = [d.symbols EXCEPT ![s] = row]]
  BY <1>1 DEF Sound, Database
<1>4. /\ mid.symbols = [d.symbols EXCEPT ![s] = row]
      /\ mid.symbols \in Seq(SymbolRow)
      /\ Len(mid.symbols) = Len(d.symbols)
      /\ mid.anchors = d.anchors /\ mid.lastAnchor = d.lastAnchor
      /\ mid \in Database
  <2>1. /\ [d.symbols EXCEPT ![s] = row] \in Seq(SymbolRow)
        /\ Len([d.symbols EXCEPT ![s] = row]) = Len(d.symbols)
    <3> HIDE DEF row
    <3> QED BY <1>1, <1>2, ExceptSeq
  <2> HIDE DEF row, mid
  <2> QED BY <1>3, <2>1 DEF Sound, Database
<1>5. \A t \in 1..Len(d.symbols) : mid.symbols[t].live => t # s /\ mid.symbols[t] = d.symbols[t]
  BY <1>1, <1>2, <1>4
<1>6. UniqueLive(mid)
  BY <1>1, <1>4, <1>5 DEF Sound, UniqueLive
<1>7. Sound(mid)
  BY <1>4, <1>6 DEF Sound, UniqueAnchors
<1>8. /\ d.symbols[s].ident.name \in NamePath \cup {NoName}
      /\ NoName \in NamePath \cup {NoName} /\ "engram-delete" \in Source
  BY <1>1 DEF SymbolRow, Identity, Source, MoveSource
<1>9. Sound(AppendHistory(mid, s, "engram-delete", d.symbols[s].ident.name, NoName))
  BY <1>1, <1>7, <1>8, AppendHistorySound
<1> QED BY <1>9 DEF TombstoneSymbol

\* INSERT INTO anchors_symbol_memory of a pair that is not anchored yet.
LEMMA InsertAnchorSound ==
  ASSUME NEW d, Sound(d), NEW s \in Nat, NEW m \in Drawer, ~HasAnchor(d, s, m)
  PROVE  Sound(InsertAnchor(d, s, m))
<1> DEFINE row == [id |-> d.lastAnchor + 1, sym |-> s, drawer |-> m]
           after == InsertAnchor(d, s, m)
<1>1. d \in Database /\ d.lastAnchor \in Nat /\ row \in AnchorRow
  BY DEF Sound, Database, AnchorRow
<1>2. /\ after.symbols = d.symbols
      /\ after.anchors = d.anchors \cup {row}
      /\ after.lastAnchor = d.lastAnchor + 1
      /\ after \in Database
  <2>1. after = [d EXCEPT !.anchors = d.anchors \cup {row}, !.lastAnchor = d.lastAnchor + 1]
    BY DEF InsertAnchor
  <2>2. d.anchors \cup {row} \in SUBSET AnchorRow
    BY <1>1 DEF Database
  <2> DEFINE rows == d.anchors \cup {row}
  <2>3. rows \in SUBSET AnchorRow /\ after = [d EXCEPT !.anchors = rows, !.lastAnchor = d.lastAnchor + 1]
    BY <2>1, <2>2
  <2>4. d \in Database /\ d.lastAnchor + 1 \in Nat
    BY <1>1
  <2> HIDE DEF rows, after
  <2>5. /\ after.symbols = d.symbols /\ after.anchors = rows
        /\ after.lastAnchor = d.lastAnchor + 1 /\ after \in Database
    BY <2>3, <2>4 DEF Database
  <2> QED BY <2>5 DEF rows
<1>3. \A a \in after.anchors : a.id \in 1..after.lastAnchor
  BY <1>1, <1>2 DEF Sound
<1>4. \A a \in d.anchors : a.id # row.id /\ ~(a.sym = row.sym /\ a.drawer = row.drawer)
  BY <1>1 DEF Sound, HasAnchor
<1>5. UniqueAnchors(after)
  BY <1>2, <1>4 DEF Sound, UniqueAnchors
<1> QED BY <1>2, <1>3, <1>5 DEF Sound, UniqueLive

\* DELETE FROM anchors_symbol_memory.
LEMMA DeleteAnchorSound ==
  ASSUME NEW d, Sound(d), NEW id
  PROVE  Sound(DeleteAnchor(d, id))
<1> DEFINE after == DeleteAnchor(d, id)
<1>1. /\ after.symbols = d.symbols
      /\ after.anchors \subseteq d.anchors
      /\ after.lastAnchor = d.lastAnchor
      /\ after \in Database
  BY DEF DeleteAnchor, Sound, Database
<1> QED BY <1>1 DEF Sound, UniqueLive, UniqueAnchors

\* INSERT INTO anchors_memory_chunk touches no other table.
LEMMA InsertChunkAnchorSound ==
  ASSUME NEW d, Sound(d), NEW m \in Drawer, NEW c \in Chunk
  PROVE  Sound(InsertChunkAnchor(d, m, c))
<1> DEFINE row == [drawer |-> m, chunk |-> c]
           rows == d.chunks \cup {row}
           after == InsertChunkAnchor(d, m, c)
<1>1. d \in Database /\ rows \in SUBSET ChunkAnchorRow
  BY DEF Sound, Database, ChunkAnchorRow
<1>2. after = [d EXCEPT !.chunks = rows]
  BY DEF InsertChunkAnchor
<1> HIDE DEF rows, after
<1>3. /\ after \in Database /\ after.symbols = d.symbols
      /\ after.anchors = d.anchors /\ after.lastAnchor = d.lastAnchor
  BY <1>1, <1>2 DEF Database
<1>4. Sound(after)
  BY <1>3 DEF Sound, UniqueLive, UniqueAnchors
<1> QED BY <1>4 DEF after

-----------------------------------------------------------------------------
(* The inductive invariant. *)

USE DEF Pc, AwaitPc, SyncPc, WritePc, DonePc

IInv ==
  /\ TypeOK
  /\ \A r \in Request : Stage(r)
  /\ LockDiscipline
  /\ Sound(db) /\ Sound(wdb)

-----------------------------------------------------------------------------
(* The values requests carry. *)

\* Which arguments each kind of call has.
LEMMA InputFields ==
  ASSUME NEW i \in Input
  PROVE  /\ i.op \in {"rename", "delete", "anchor", "mem_add", "anchor_chunk", "reconcile"}
         /\ i.op \in {"rename", "delete", "anchor", "mem_add"} => i.ident \in Identity
         /\ i.op = "rename" => i.leaf \in Segment
         /\ i.op \in {"anchor", "mem_add", "anchor_chunk"} => i.drawer \in Drawer
         /\ i.op = "anchor_chunk" => i.chunk \in Chunk
BY DEF Input

\* Swapping the last segment of a name path gives a name path.
LEMMA PreviewType ==
  ASSUME NEW name \in NamePath, NEW leaf \in Segment
  PROVE  RenamePreview(name, leaf) \in NamePath
<1>1. name \in Seq(Segment) /\ Len(name) \in Nat
  BY DEF NamePath
<1>2. \A k \in 1..(Len(name) - 1) : name[k] \in Segment
  BY <1>1, ElementOfSeq
<1>3. SubSeq(name, 1, Len(name) - 1) \in Seq(Segment)
  BY <1>1, <1>2, SubSeqProperties
<1> DEFINE parent == SubSeq(name, 1, Len(name) - 1)
<1> HIDE DEF parent
<1>4. parent \in Seq(Segment)
  BY <1>3 DEF parent
<1>5. Append(parent, leaf) \in Seq(Segment) /\ Append(parent, leaf) # <<>>
  BY <1>4, AppendProperties
<1> QED BY <1>5 DEF RenamePreview, NamePath, NoName, parent

\* The identity a rename asks for.
LEMMA RenamedType ==
  ASSUME NEW i \in Input, i.op = "rename"
  PROVE  /\ Renamed(i) = [i.ident EXCEPT !.name = Renamed(i).name]
         /\ Renamed(i).name \in NamePath
         /\ Renamed(i) \in Identity
<1>1. i.ident \in Identity /\ i.ident.name \in NamePath /\ i.leaf \in Segment
  BY InputFields DEF Identity
<1>2. RenamePreview(i.ident.name, i.leaf) \in NamePath
  BY <1>1, PreviewType
<1> DEFINE new == RenamePreview(i.ident.name, i.leaf)
<1>3. Renamed(i) = [i.ident EXCEPT !.name = new] /\ new \in NamePath
  BY <1>2 DEF Renamed
<1> HIDE DEF new
<1> QED BY <1>1, <1>3 DEF Identity

\* A rename in Serena takes symbols to symbols.
LEMMA MovedType ==
  ASSUME NEW i \in Input, i.op = "rename", NEW c \in Identity
  PROVE  Moved(c, i) \in Identity
<1>1. CASE ~(c.path = i.ident.path /\ IsPrefixOf(i.ident.name, c.name))
  BY <1>1 DEF Moved
<1>2. CASE c.path = i.ident.path /\ IsPrefixOf(i.ident.name, c.name)
  <2> DEFINE n == Len(i.ident.name)
             rest == SubSeq(c.name, n + 1, Len(c.name))
             new == Renamed(i).name
  <2>1. c.name \in Seq(Segment) /\ i.ident.name \in Seq(Segment)
    BY InputFields DEF Identity, NamePath
  <2>2. n \in Nat /\ Len(c.name) \in Nat
    BY <2>1, LenProperties
  <2>3. \A k \in (n + 1)..Len(c.name) : c.name[k] \in Segment
    BY <2>1, <2>2, ElementOfSeq
  <2>4. rest \in Seq(Segment)
    BY <2>2, <2>3, SubSeqProperties
  <2>5. new \in Seq(Segment) /\ new # <<>>
    BY RenamedType DEF NamePath, NoName
  <2>6. Moved(c, i) = [c EXCEPT !.name = new \o rest]
    BY <1>2 DEF Moved
  <2> HIDE DEF rest, new
  <2>7. new \o rest \in Seq(Segment) /\ Len(new \o rest) = Len(new) + Len(rest)
    BY <2>4, <2>5, ConcatProperties
  <2>8. Len(new) \in Nat \ {0} /\ Len(rest) \in Nat /\ Len(<<>>) = 0
    BY <2>4, <2>5, EmptySeq, LenProperties
  <2>9. new \o rest \in NamePath
    BY <2>7, <2>8 DEF NamePath, NoName
  <2> QED BY <2>6, <2>9 DEF Identity
<1> QED BY <1>1, <1>2

-----------------------------------------------------------------------------
(* Initial states and the two shapes of step. *)

\* IInv holds of the database an earlier session left, with nothing in flight.
LEMMA InitIInv == Init => IInv
<1> SUFFICES ASSUME Init PROVE IInv
  OBVIOUS
<1>1. Sound(db) /\ Sound(wdb)
  BY InitAssumption, EmptySound DEF Init, Sound
<1>2. TypeOK
  BY <1>1, InitAssumption DEF Init, TypeOK, Sound
<1>3. \A r \in Request : Stage(r)
  BY DEF Init, Stage
<1>4. LockDiscipline
  BY NoOneAssumption DEF Init, LockDiscipline
<1> QED BY <1>1, <1>2, <1>3, <1>4 DEF IInv

\* A step of one request that neither takes nor returns the write lock.
LEMMA LockKept ==
  ASSUME IInv, NEW r \in Request, NEW l \in Pc, pc[r] # "serena", l # "serena", Goto(r, l),
         UNCHANGED <<wdb, writer>>,
         \A q \in Request : q # r => sym'[q] = sym[q]
  PROVE  LockDiscipline'
BY DEF IInv, LockDiscipline, Goto, TypeOK

\* A step of the upstreams leaves everything of Engram alone.
LEMMA OutsideKept ==
  ASSUME IInv, UNCHANGED <<store, pc, local, told>>,
         code' \subseteq Identity,
         drawers' \subseteq Drawer, dangled' \in [Request -> SUBSET AnchorRow],
         remote' \in [Request -> {"none", "asked", "done", "refused"}],
         \A r \in Request : remote'[r] # "none" => remote[r] # "none"
  PROVE  IInv'
<1>1. TypeOK'
  BY DEF IInv, TypeOK, store, local, told
<1>2. \A r \in Request : Stage(r)'
  BY DEF IInv, Stage, local
<1>3. LockDiscipline'
  BY DEF IInv, LockDiscipline, store, local
<1>4. Sound(db)' /\ Sound(wdb)'
  BY DEF IInv, Sound, store
<1> QED BY <1>1, <1>2, <1>3, <1>4 DEF IInv

-----------------------------------------------------------------------------
(* Each action preserves IInv. *)

\* A handler call that starts reaches the first label of its own operation.
LEMMA AcceptStep ==
  ASSUME IInv, NEW r \in Request, Accept(r) PROVE IInv'
<1>1. PICK s \in Server, i \in Menu :
        /\ home' = [home EXCEPT ![r] = s]
        /\ input' = [input EXCEPT ![r] = i]
        /\ Goto(r, FirstPc(i.op))
        /\ remote' = [remote EXCEPT ![r] = IF i.op = "mem_add" THEN "asked" ELSE "none"]
  BY DEF Accept
<1>2. i \in Input /\ i.op \in {"rename", "delete", "anchor", "mem_add", "anchor_chunk", "reconcile"}
  BY MenuAssumption, InputFields
<1>3. /\ FirstPc(i.op) \in {"begin", "lookup", "add", "scan"}
      /\ FirstPc(i.op) = "begin" => i.op \in {"rename", "delete"}
      /\ FirstPc(i.op) = "lookup" => i.op \in {"anchor", "anchor_chunk"}
      /\ FirstPc(i.op) = "add" => i.op \in {"anchor", "mem_add"}
      /\ FirstPc(i.op) = "scan" => i.op = "reconcile"
  BY <1>2 DEF FirstPc
<1>4. TypeOK'
  BY <1>1, <1>2, <1>3 DEF Accept, IInv, TypeOK, Goto, store, world, told
<1>5. \A q \in Request : Stage(q)'
  BY <1>1, <1>2, <1>3 DEF Accept, IInv, TypeOK, Stage, Goto
<1>6. LockDiscipline'
  BY <1>1, <1>3, LockKept DEF Accept, store
<1>7. Sound(db)' /\ Sound(wdb)'
  BY DEF Accept, IInv, Sound, store
<1> QED BY <1>4, <1>5, <1>6, <1>7 DEF IInv

\* A request that gives up on the lock never held it.
LEMMA LockTimeoutStep ==
  ASSUME IInv, NEW r \in Request, LockTimeout(r) PROVE IInv'
<1>1. TypeOK'
  BY DEF LockTimeout, IInv, TypeOK, Turn, Goto, store, local, world, told
<1>2. \A q \in Request : Stage(q)'
  BY DEF LockTimeout, IInv, TypeOK, Stage, Turn, Goto, local
<1>3. LockDiscipline'
  BY DEF LockTimeout, IInv, LockDiscipline, TypeOK, Turn, Goto, store, local
<1>4. Sound(db)' /\ Sound(wdb)'
  BY DEF LockTimeout, IInv, Sound, store
<1> QED BY <1>1, <1>2, <1>3, <1>4 DEF IInv

\* The answer of drawer_lookup only moves the label.
LEMMA DrawerLookupStep ==
  ASSUME IInv, NEW r \in Request, DrawerLookup(r) PROVE IInv'
<1>0. /\ Found(r) \in {"resolve", "ok", "chunk_insert"}
      /\ Found(r) = "resolve" => input[r].op = "anchor"
      /\ Found(r) = "chunk_insert" => input[r].op = "anchor_chunk"
  BY DEF DrawerLookup, Turn, Found, IInv, Stage
<1>1. TypeOK'
  BY <1>0 DEF DrawerLookup, IInv, TypeOK, Turn, Goto, store, local, world, told
<1>2. \A q \in Request : Stage(q)'
  BY <1>0 DEF DrawerLookup, IInv, TypeOK, Stage, Turn, Goto, local
<1>3. LockDiscipline'
  BY <1>0 DEF DrawerLookup, IInv, LockDiscipline, TypeOK, Turn, Goto, store, local
<1>4. Sound(db)' /\ Sound(wdb)'
  BY DEF DrawerLookup, IInv, Sound, store
<1> QED BY <1>1, <1>2, <1>3, <1>4 DEF IInv

\* Refreshing last_seen_at changes no row the model keeps.
LEMMA TouchStep ==
  ASSUME IInv, NEW r \in Request, Touch(r) PROVE IInv'
<1>1. TypeOK'
  BY DEF Touch, IInv, TypeOK, Turn, Goto, store, local, world, told
<1>2. \A q \in Request : Stage(q)'
  BY DEF Touch, IInv, TypeOK, Stage, Turn, Goto, local
<1>3. LockDiscipline'
  BY DEF Touch, IInv, LockDiscipline, TypeOK, Turn, Goto, store, local
<1>4. Sound(db)' /\ Sound(wdb)'
  BY DEF Touch, IInv, Sound, store
<1> QED BY <1>1, <1>2, <1>3, <1>4 DEF IInv

\* Looking the anchor up only moves the label.
LEMMA AnchorSelectStep ==
  ASSUME IInv, NEW r \in Request, AnchorSelect(r) PROVE IInv'
<1>1. TypeOK'
  BY DEF AnchorSelect, IInv, TypeOK, Turn, Goto, store, local, world, told
<1>2. \A q \in Request : Stage(q)'
  BY DEF AnchorSelect, IInv, TypeOK, Stage, Turn, Goto, local
<1>3. LockDiscipline'
  BY DEF AnchorSelect, IInv, LockDiscipline, TypeOK, Turn, Goto, store, local
<1>4. Sound(db)' /\ Sound(wdb)'
  BY DEF AnchorSelect, IInv, Sound, store
<1> QED BY <1>1, <1>2, <1>3, <1>4 DEF IInv

\* A dry reconcile leaves the database alone.
LEMMA DryPurgeStep ==
  ASSUME IInv, NEW r \in Request, DryPurge(r) PROVE IInv'
<1>1. TypeOK'
  BY DEF DryPurge, IInv, TypeOK, Turn, Goto, store, local, world, told
<1>2. \A q \in Request : Stage(q)'
  BY DEF DryPurge, IInv, TypeOK, Stage, Turn, Goto, local
<1>3. LockDiscipline'
  BY DEF DryPurge, IInv, LockDiscipline, TypeOK, Turn, Goto, store, local
<1>4. Sound(db)' /\ Sound(wdb)'
  BY DEF DryPurge, IInv, Sound, store
<1> QED BY <1>1, <1>2, <1>3, <1>4 DEF IInv

\* kg_add adds one well-formed fact.
LEMMA KgAddStep ==
  ASSUME IInv, NEW r \in Request, KgAdd(r) PROVE IInv'
<1>0. /\ input[r] \in Input /\ input[r].op = "rename"
      /\ input[r].ident.name \in NamePath /\ Renamed(input[r]).name \in NamePath
  BY InputFields, RenamedType DEF KgAdd, KgTurn, IInv, Stage, Identity
<1>a. [rel |-> "renamed_to", of |-> input[r].ident.name, to |-> Renamed(input[r]).name] \in Fact
  BY <1>0 DEF Fact
<1>1. TypeOK'
  BY <1>a, <1>0 DEF KgAdd, IInv, TypeOK, Turn, Goto, store, local, world, told, KgTurn
<1>2. \A q \in Request : Stage(q)'
  BY <1>a, <1>0 DEF KgAdd, IInv, TypeOK, Stage, Turn, Goto, local, KgTurn
<1>3. LockDiscipline'
  BY <1>a, <1>0 DEF KgAdd, IInv, LockDiscipline, TypeOK, Turn, Goto, store, local, KgTurn
<1>4. Sound(db)' /\ Sound(wdb)'
  BY DEF KgAdd, IInv, Sound, store
<1> QED BY <1>1, <1>2, <1>3, <1>4 DEF IInv

\* kg_invalidate adds one well-formed fact.
LEMMA KgEndStep ==
  ASSUME IInv, NEW r \in Request, KgEnd(r) PROVE IInv'
<1>0. /\ input[r] \in Input /\ input[r].op \in {"rename", "delete"}
      /\ input[r].ident.name \in NamePath
  BY InputFields DEF KgEnd, Turn, IInv, Stage, Identity
<1>a. [rel |-> "ended", of |-> input[r].ident.name] \in Fact
  BY <1>0 DEF Fact
<1>1. TypeOK'
  BY <1>a, <1>0 DEF KgEnd, IInv, TypeOK, Turn, Goto, store, local, world, told
<1>2. \A q \in Request : Stage(q)'
  BY <1>a, <1>0 DEF KgEnd, IInv, TypeOK, Stage, Turn, Goto, local
<1>3. LockDiscipline'
  BY <1>a, <1>0 DEF KgEnd, IInv, LockDiscipline, TypeOK, Turn, Goto, store, local
<1>4. Sound(db)' /\ Sound(wdb)'
  BY DEF KgEnd, IInv, Sound, store
<1> QED BY <1>1, <1>2, <1>3, <1>4 DEF IInv

\* The payload published on the bus has the shape of its event.
LEMMA PublishStep ==
  ASSUME IInv, NEW r \in Request, Publish(r) PROVE IInv'
<1>0. /\ input[r] \in Input /\ input[r].op \in {"rename", "delete"}
      /\ input[r].ident.name \in NamePath /\ sym[r] \in Nat
      /\ input[r].op = "rename" => Renamed(input[r]).name \in NamePath
  BY InputFields, RenamedType DEF Publish, Turn, IInv, TypeOK, Stage, Identity
<1>a. Announcement(r) \in Event
  BY <1>0 DEF Announcement, Event
<1>1. TypeOK'
  BY <1>a, <1>0 DEF Publish, IInv, TypeOK, Turn, Goto, store, local, world, told
<1>2. \A q \in Request : Stage(q)'
  BY <1>a, <1>0 DEF Publish, IInv, TypeOK, Stage, Turn, Goto, local
<1>3. LockDiscipline'
  BY <1>a, <1>0 DEF Publish, IInv, LockDiscipline, TypeOK, Turn, Goto, store, local
<1>4. Sound(db)' /\ Sound(wdb)'
  BY DEF Publish, IInv, Sound, store
<1> QED BY <1>1, <1>2, <1>3, <1>4 DEF IInv

\* After symbol_lookup the request holds the id of a row, or 0.
LEMMA ResolveStep ==
  ASSUME IInv, NEW r \in Request, Resolve(r) PROVE IInv'
<1>0. GetSymbol(db, input[r].ident) \in Nat /\ input[r].op \in {"anchor", "mem_add"}
  BY InputFields, GetSymbolResult DEF Resolve, Turn, IInv, TypeOK, Stage
<1>1. TypeOK'
  BY <1>0 DEF Resolve, IInv, TypeOK, Turn, Goto, store, local, world, told, SelectSymbol
<1>2. \A q \in Request : Stage(q)'
  BY <1>0 DEF Resolve, IInv, TypeOK, Stage, Turn, Goto, local, SelectSymbol
<1>3. LockDiscipline'
  BY <1>0 DEF Resolve, IInv, LockDiscipline, TypeOK, Turn, Goto, store, local, SelectSymbol
<1>4. Sound(db)' /\ Sound(wdb)'
  BY DEF Resolve, IInv, Sound, store
<1> QED BY <1>1, <1>2, <1>3, <1>4 DEF IInv

\* After mempalace_add_drawer the request holds the id of a row, or 0.
LEMMA MemAddReplyStep ==
  ASSUME IInv, NEW r \in Request, MemAddReply(r) PROVE IInv'
<1>0. GetSymbol(db, input[r].ident) \in Nat /\ input[r].op \in {"anchor", "mem_add"}
  BY InputFields, GetSymbolResult DEF MemAddReply, Turn, IInv, TypeOK, Stage
<1>1. TypeOK'
  BY <1>0 DEF MemAddReply, IInv, TypeOK, Turn, Goto, store, local, world, told, SelectSymbol
<1>2. ASSUME NEW q \in Request PROVE Stage(q)'
  <2>1. CASE q = r
    BY <1>0, <2>1 DEF MemAddReply, IInv, TypeOK, Stage, Turn, Goto, local, SelectSymbol
  <2>2. CASE q # r
    BY <2>2 DEF MemAddReply, IInv, TypeOK, Stage, Turn, Goto, local, SelectSymbol
  <2> QED BY <2>1, <2>2
<1>3. LockDiscipline'
  <2>1. PICK l \in Pc : Goto(r, l) /\ l # "serena"
    BY DEF MemAddReply, SelectSymbol
  <2>2. pc[r] # "serena" /\ UNCHANGED <<wdb, writer>>
    BY DEF MemAddReply, Turn, store
  <2>3. \A q \in Request : q # r => sym'[q] = sym[q]
    BY <1>0 DEF MemAddReply, SelectSymbol, IInv, TypeOK
  <2> QED BY <2>1, <2>2, <2>3, LockKept
<1>4. Sound(db)' /\ Sound(wdb)'
  BY DEF MemAddReply, IInv, Sound, store
<1> QED BY <1>1, <1>2, <1>3, <1>4 DEF IInv

\* The rows to check are the rows of the anchor table.
LEMMA ScanStep ==
  ASSUME IInv, NEW r \in Request, Scan(r) PROVE IInv'
<1>0. db.anchors \subseteq AnchorRow
  BY DEF IInv, Sound, Database
<1>1. TypeOK'
  BY <1>0 DEF Scan, IInv, TypeOK, Turn, Goto, store, local, world, told
<1>2. \A q \in Request : Stage(q)'
  BY <1>0 DEF Scan, IInv, TypeOK, Stage, Turn, Goto, local
<1>3. LockDiscipline'
  BY <1>0 DEF Scan, IInv, LockDiscipline, TypeOK, Turn, Goto, store, local
<1>4. Sound(db)' /\ Sound(wdb)'
  BY DEF Scan, IInv, Sound, store
<1> QED BY <1>1, <1>2, <1>3, <1>4 DEF IInv

\* Rows move from todo to stale one by one.
LEMMA CheckDrawerStep ==
  ASSUME IInv, NEW r \in Request, CheckDrawer(r) PROVE IInv'
<1>1. TypeOK'
  BY DEF CheckDrawer, IInv, TypeOK, Turn, Goto, store, local, world, told
<1>2. \A q \in Request : Stage(q)'
  BY DEF CheckDrawer, IInv, TypeOK, Stage, Turn, Goto, local
<1>3. LockDiscipline'
  BY DEF CheckDrawer, IInv, LockDiscipline, TypeOK, Turn, Goto, store, local
<1>4. Sound(db)' /\ Sound(wdb)'
  BY DEF CheckDrawer, IInv, Sound, store
<1> QED BY <1>1, <1>2, <1>3, <1>4 DEF IInv

\* The rename written inside the transaction leaves a sound database, thanks to the
\* unique index, or is refused before Serena is asked.
LEMMA RenameBeginStep ==
  ASSUME IInv, NEW r \in Request, RenameBegin(r) PROVE IInv'
<1> DEFINE i == input[r]
           base == UpsertSymbol(db, i.ident)
           s == GetSymbol(base, i.ident)
           new == Renamed(i)
<1>1. i \in Input /\ i.op = "rename" /\ i.ident \in Identity /\ writer = NoOne
  BY InputFields DEF RenameBegin, Turn, LockFree, IInv, Stage
<1>2. Sound(base) /\ s \in LiveRows(base, i.ident)
  BY <1>1, UpsertSymbolSound DEF IInv
<1>3. s \in Nat /\ s \in 1..Len(base.symbols)
  BY <1>2 DEF Sound, Database, LiveRows
<1>4. new = [i.ident EXCEPT !.name = new.name] /\ new.name \in NamePath
  BY <1>1, RenamedType
<1>5. CASE ~Collides(base, new, s)
  <2> DEFINE pending == RenameSymbol(base, s, new.name)
  <2>1. Sound(pending) /\ Len(pending.symbols) = Len(base.symbols)
    <3> DEFINE name == new.name
    <3>1. ~Collides(base, [i.ident EXCEPT !.name = name], s) /\ name \in NamePath
      BY <1>4, <1>5
    <3> HIDE DEF base, s, name
    <3>2. Sound(RenameSymbol(base, s, name)) /\ Len(RenameSymbol(base, s, name).symbols) = Len(base.symbols)
      BY <1>1, <1>2, <3>1, RenameSymbolSound
    <3> QED BY <3>2 DEF name
  <2>2. /\ wdb' = pending /\ writer' = r /\ sym' = [sym EXCEPT ![r] = s]
        /\ remote' = [remote EXCEPT ![r] = "asked"] /\ Goto(r, "serena")
        /\ UNCHANGED <<db, home, input, todo, stale, world, told>>
        /\ pc[r] = "begin"
    BY <1>5 DEF RenameBegin, Turn
  <2> HIDE DEF base, s, new, pending
  <2>3. TypeOK'
    BY <1>3, <2>1, <2>2 DEF IInv, TypeOK, Goto, world, told, Sound
  <2>4. \A q \in Request : Stage(q)'
    BY <1>1, <2>2 DEF IInv, TypeOK, Stage, Goto
  <2>5. LockDiscipline'
    BY <1>1, <1>3, <2>1, <2>2, NoOneAssumption DEF IInv, TypeOK, LockDiscipline, Goto
  <2>6. Sound(db)' /\ Sound(wdb)'
    BY <2>1, <2>2 DEF IInv, Sound
  <2> QED BY <2>3, <2>4, <2>5, <2>6 DEF IInv
<1>6. CASE Collides(base, new, s)
  <2>1. /\ Goto(r, "failed") /\ pc[r] = "begin"
        /\ UNCHANGED <<store, local, remote, world, told>>
    BY <1>6 DEF RenameBegin, Turn, store, local
  <2>2. TypeOK' /\ (\A q \in Request : Stage(q)')
    BY <2>1 DEF IInv, TypeOK, Stage, Goto, store, local, world, told
  <2>3. LockDiscipline'
    BY <2>1, LockKept DEF store, local
  <2>4. Sound(db)' /\ Sound(wdb)'
    BY <2>1 DEF IInv, Sound, store
  <2> QED BY <2>2, <2>3, <2>4 DEF IInv
<1> QED BY <1>5, <1>6

\* safe_delete takes the lock and writes nothing before Serena answers.
LEMMA DeleteBeginStep ==
  ASSUME IInv, NEW r \in Request, DeleteBegin(r) PROVE IInv'
<1>0. /\ writer = NoOne /\ pc[r] = "begin" /\ input[r].op = "delete"
      /\ input[r] \in Input /\ db \in Database
  BY DEF DeleteBegin, Turn, LockFree, IInv, TypeOK, Stage
<1>1. /\ writer = NoOne /\ pc[r] = "begin" /\ input[r].op = "delete"
      /\ GetSymbol(db, input[r].ident) \in 0..Len(db.symbols)
      /\ Len(db.symbols) \in Nat
  BY <1>0, InputFields, GetSymbolResult DEF Database
<1>2. TypeOK'
  BY <1>1 DEF DeleteBegin, IInv, TypeOK, Goto, world, told
<1>3. \A q \in Request : Stage(q)'
  BY <1>1 DEF DeleteBegin, IInv, TypeOK, Stage, Goto
<1>4. LockDiscipline'
  BY <1>1, NoOneAssumption DEF DeleteBegin, IInv, TypeOK, LockDiscipline, Goto
<1>5. Sound(db)' /\ Sound(wdb)'
  BY DEF DeleteBegin, IInv, Sound
<1> QED BY <1>2, <1>3, <1>4, <1>5 DEF IInv

\* The holder of the lock leaves the transaction, with or without a commit.
LEMMA LockReturned ==
  ASSUME IInv, NEW r \in Request, NEW l \in Pc \ {"serena", "new"}, pc[r] = "serena", Goto(r, l),
         Release, UNCHANGED <<local, remote, world, told>>, Sound(db'),
         l \in {"kg_end", "publish"} => input[r].op \in {"rename", "delete"},
         l = "kg_add" => input[r].op = "rename",
         l \in {"kg_add", "kg_end", "publish", "ok", "failed", "lost"}
  PROVE  IInv'
<1>1. TypeOK'
  BY EmptySound DEF IInv, TypeOK, Goto, Release, Sound, local, world, told
<1>2. \A q \in Request : Stage(q)'
  BY DEF IInv, TypeOK, Stage, Goto, local
<1>3. LockDiscipline'
  BY NoOneAssumption DEF IInv, TypeOK, LockDiscipline, Goto, Release, local
<1>4. Sound(db)' /\ Sound(wdb)'
  BY EmptySound DEF Release, Sound
<1> QED BY <1>1, <1>2, <1>3, <1>4 DEF IInv

\* COMMIT publishes the sound database of the transaction.
LEMMA RenameCommitStep ==
  ASSUME IInv, NEW r \in Request, RenameCommit(r) PROVE IInv'
<1>1. Sound(db')
  BY DEF RenameCommit, IInv
<1>2. /\ pc[r] = "serena" /\ input[r].op = "rename" /\ Release
      /\ UNCHANGED <<local, remote, world, told>>
      /\ Goto(r, "publish") \/ Goto(r, "kg_add")
  BY DEF RenameCommit, Turn
<1> QED BY <1>1, <1>2, LockReturned

\* safe_delete tombstones and commits in one step.
LEMMA DeleteCommitStep ==
  ASSUME IInv, NEW r \in Request, DeleteCommit(r) PROVE IInv'
<1>1. /\ pc[r] = "serena" /\ input[r].op = "delete" /\ Release
      /\ UNCHANGED <<local, remote, world, told>>
      /\ Goto(r, "ok") \/ Goto(r, "kg_end")
  BY DEF DeleteCommit, Turn
<1>2. sym[r] # 0 => sym[r] \in DOMAIN wdb.symbols
  <2>1. wdb.symbols \in Seq(SymbolRow) /\ sym[r] \in 0..Len(wdb.symbols)
    BY <1>1 DEF IInv, LockDiscipline, Sound, Database
  <2> QED BY <2>1
<1>3. Sound(db')
  BY <1>2, TombstoneSymbolSound DEF DeleteCommit, IInv
<1> QED BY <1>1, <1>3, LockReturned

\* A refusal gives the lock back and keeps the committed database.
LEMMA RollbackStep ==
  ASSUME IInv, NEW r \in Request, Rollback(r) PROVE IInv'
<1>1. /\ pc[r] = "serena" /\ Release /\ Goto(r, "failed")
      /\ UNCHANGED <<db, local, remote, world, told>>
  BY DEF Rollback, Turn
<1>2. Sound(db')
  BY <1>1 DEF IInv, Sound
<1> QED BY <1>1, <1>2, LockReturned

\* A step of one request that writes in autocommit mode, while nobody holds the lock.
LEMMA Autocommit ==
  ASSUME IInv, NEW r \in Request, NEW l \in Pc, pc[r] \notin {"serena", "new"}, l \notin {"serena", "new"},
         Goto(r, l), Sound(db'),
         UNCHANGED <<wdb, writer, home, input, remote, world, told>>,
         sym' \in [Request -> Nat], \A q \in Request : q # r => sym'[q] = sym[q],
         todo' \in [Request -> SUBSET AnchorRow], stale' \in [Request -> SUBSET AnchorRow],
         l \in {"discover", "anchor_select"} => input[r].op \in {"anchor", "mem_add"},
         l \in {"purge", "trace"} => input[r].op = "reconcile",
         l \in {"discover", "anchor_select", "purge", "trace", "ok", "failed"}
  PROVE  IInv'
<1>1. TypeOK'
  BY DEF IInv, TypeOK, Goto, Sound, world, told
<1>2. \A q \in Request : Stage(q)'
  BY DEF IInv, TypeOK, Stage, Goto
<1>3. LockDiscipline'
  BY LockKept
<1>4. Sound(wdb)'
  BY DEF IInv, Sound
<1> QED BY <1>1, <1>2, <1>3, <1>4 DEF IInv

\* INSERT INTO symbols keeps identities unique: a colliding insert is refused.
LEMMA InsertSymbolRowStep ==
  ASSUME IInv, NEW r \in Request, InsertSymbolRow(r) PROVE IInv'
<1>1. /\ pc[r] = "insert" /\ input[r] \in Input /\ input[r].op \in {"anchor", "mem_add"}
      /\ input[r].ident \in Identity /\ Sound(db) /\ db \in Database
      /\ UNCHANGED <<wdb, writer, home, input, todo, stale, remote, world, told>>
      /\ todo' \in [Request -> SUBSET AnchorRow] /\ stale' \in [Request -> SUBSET AnchorRow]
      /\ sym \in [Request -> Nat]
  BY InputFields DEF InsertSymbolRow, IInv, TypeOK, Stage
<1>2. CASE Collides(db, input[r].ident, 0)
  <2>1. Goto(r, "failed") /\ db' = db /\ sym' = sym
    BY <1>2 DEF InsertSymbolRow
  <2>2. Sound(db')
    BY <1>1, <2>1
  <2> QED BY <1>1, <2>1, <2>2, Autocommit
<1>3. CASE ~Collides(db, input[r].ident, 0)
  <2>1. LiveRows(db, input[r].ident) = {}
    <3>1. 0 \notin LiveRows(db, input[r].ident)
      BY <1>1 DEF LiveRows, Database
    <3> QED BY <1>3, <3>1 DEF Collides
  <2>2. /\ Goto(r, "discover") /\ db' = InsertSymbol(db, input[r].ident)
        /\ sym' = [sym EXCEPT ![r] = NewSymbol(db)]
    BY <1>3 DEF InsertSymbolRow
  <2>3. Sound(db') /\ NewSymbol(db) \in Nat
    BY <1>1, <2>1, <2>2, InsertSymbolSound
  <2>4. sym' \in [Request -> Nat] /\ \A q \in Request : q # r => sym'[q] = sym[q]
    BY <1>1, <2>2, <2>3
  <2> QED BY <1>1, <2>2, <2>3, <2>4, Autocommit
<1> QED BY <1>2, <1>3

\* The discovery row names a row that exists.
LEMMA DiscoverStep ==
  ASSUME IInv, NEW r \in Request, Discover(r) PROVE IInv'
<1>1. /\ pc[r] = "discover" /\ input[r] \in Input /\ input[r].op \in {"anchor", "mem_add"}
      /\ input[r].ident.name \in NamePath \cup {NoName} /\ Sound(db) /\ sym[r] \in Nat
      /\ NoName \in NamePath \cup {NoName} /\ "discovery" \in Source
  BY InputFields DEF Discover, IInv, TypeOK, Stage, Identity, Source
<1>2. db' = AppendHistory(db, sym[r], "discovery", NoName, input[r].ident.name)
  BY DEF Discover, DiscoverSymbol
<1>3. Sound(db')
  BY <1>1, <1>2, AppendHistorySound
<1>4. Goto(r, "anchor_select") /\ UNCHANGED <<wdb, writer, local, remote, world, told>>
  BY DEF Discover
<1> QED BY <1>1, <1>3, <1>4, Autocommit DEF IInv, TypeOK, local

\* INSERT INTO anchors_symbol_memory keeps anchors unique.
LEMMA AnchorInsertStep ==
  ASSUME IInv, NEW r \in Request, AnchorInsert(r) PROVE IInv'
<1>1. /\ pc[r] = "anchor_insert" /\ input[r].drawer \in Drawer /\ Sound(db) /\ sym[r] \in Nat
      /\ UNCHANGED <<wdb, writer, local, remote, world, told>>
      /\ Goto(r, "failed") \/ Goto(r, "ok")
  BY InputFields DEF AnchorInsert, IInv, TypeOK, Stage
<1>2. Sound(db')
  BY <1>1, InsertAnchorSound DEF AnchorInsert
<1> QED BY <1>1, <1>2, Autocommit DEF IInv, TypeOK, local

\* INSERT INTO anchors_memory_chunk touches no other table.
LEMMA ChunkInsertStep ==
  ASSUME IInv, NEW r \in Request, ChunkInsert(r) PROVE IInv'
<1>1. /\ pc[r] = "chunk_insert" /\ Sound(db)
      /\ input[r].drawer \in Drawer /\ input[r].chunk \in Chunk
      /\ UNCHANGED <<wdb, writer, local, remote, world, told>>
      /\ Goto(r, "failed") \/ Goto(r, "ok")
  BY InputFields DEF ChunkInsert, IInv, TypeOK, Stage
<1>2. Sound(db')
  BY <1>1, InsertChunkAnchorSound DEF ChunkInsert
<1> QED BY <1>1, <1>2, Autocommit DEF IInv, TypeOK, local

\* Deleting an anchor row keeps the database sound.
LEMMA PurgeStep ==
  ASSUME IInv, NEW r \in Request, Purge(r) PROVE IInv'
<1>1. PICK a \in stale[r] : /\ db' = DeleteAnchor(db, a.id)
                            /\ stale' = [stale EXCEPT ![r] = @ \ {a}]
                            /\ sym' = [sym EXCEPT ![r] = a.sym]
  BY DEF Purge
<1>2. /\ pc[r] = "purge" /\ input[r].op = "reconcile" /\ a \in AnchorRow /\ a.sym \in Nat
      /\ UNCHANGED <<wdb, writer, home, input, todo, remote, world, told>>
      /\ Goto(r, "trace")
  BY DEF Purge, IInv, TypeOK, Stage, AnchorRow
<1>3. Sound(db')
  BY <1>1, DeleteAnchorSound DEF IInv
<1>4. /\ sym' \in [Request -> Nat] /\ \A q \in Request : q # r => sym'[q] = sym[q]
      /\ todo' \in [Request -> SUBSET AnchorRow] /\ stale' \in [Request -> SUBSET AnchorRow]
  BY <1>1, <1>2 DEF IInv, TypeOK
<1> QED BY <1>2, <1>3, <1>4, Autocommit

\* The reconcile row of the ledger is no rename or delete row.
LEMMA TraceStep ==
  ASSUME IInv, NEW r \in Request, Trace(r) PROVE IInv'
<1>1. /\ pc[r] = "trace" /\ input[r].op = "reconcile" /\ Sound(db) /\ sym[r] \in Nat
      /\ NoName \in NamePath \cup {NoName} /\ "reconcile" \in Source
  BY DEF Trace, IInv, TypeOK, Stage, Source
<1>2. Sound(db')
  BY <1>1, AppendHistorySound DEF Trace
<1>3. /\ UNCHANGED <<wdb, writer, local, remote, world, told>>
      /\ Goto(r, "ok") \/ Goto(r, "purge")
  BY DEF Trace
<1> QED BY <1>1, <1>2, <1>3, Autocommit DEF IInv, TypeOK, local

\* Serena and MemPalace act without touching the database.
LEMMA UpstreamStep ==
  ASSUME IInv, NEW r \in Request, Upstream(r) PROVE IInv'
<1>1. CASE SerenaActs(r)
  <2>1. /\ input[r] \in Input /\ code \subseteq Identity
        /\ remote' = [remote EXCEPT ![r] = "done"] /\ remote[r] = "asked"
        /\ UNCHANGED <<store, pc, local, drawers, dangled, told>>
    BY <1>1 DEF SerenaActs, IInv, TypeOK, Stage
  <2>2. code' \subseteq Identity
    BY <1>1, <2>1, MovedType DEF SerenaActs
  <2> QED BY <2>1, <2>2, OutsideKept DEF IInv, TypeOK
<1>2. CASE MemPalaceStores(r)
  BY <1>2, InputFields, OutsideKept DEF MemPalaceStores, IInv, TypeOK, Stage
<1>3. CASE Refuse(r)
  BY <1>3, OutsideKept DEF Refuse, IInv, TypeOK, world
<1> QED BY <1>1, <1>2, <1>3 DEF Upstream

\* A drawer that goes away or comes back touches nothing of Engram.
LEMMA DrawerStep ==
  ASSUME IInv, NEW d \in Drawer, DeleteDrawer(d) \/ StoreDrawer(d) PROVE IInv'
<1>1. /\ todo \in [Request -> SUBSET AnchorRow] /\ dangled \in [Request -> SUBSET AnchorRow]
      /\ drawers \subseteq Drawer
  BY DEF IInv, TypeOK
<1>2. drawers' \subseteq Drawer /\ dangled' \in [Request -> SUBSET AnchorRow]
  BY <1>1 DEF DeleteDrawer, StoreDrawer
<1> QED BY <1>2, OutsideKept DEF DeleteDrawer, StoreDrawer, IInv, TypeOK

\* Requests rs end and give the lock back, as on a cancellation or a crash.
LEMMA EndedKept ==
  ASSUME IInv, NEW rs \in SUBSET Request, \A r \in rs : pc[r] # "new", ReleaseIfHeldBy(rs),
         pc' = [r \in Request |-> IF r \in rs THEN "lost" ELSE pc[r]],
         UNCHANGED <<db, local, remote, world, told>>
  PROVE  IInv'
<1>1. TypeOK'
  BY EmptySound DEF IInv, TypeOK, ReleaseIfHeldBy, Sound, local, world, told
<1>2. \A q \in Request : Stage(q)'
  BY DEF IInv, TypeOK, Stage, local
<1>3. LockDiscipline'
  BY NoOneAssumption DEF IInv, TypeOK, LockDiscipline, ReleaseIfHeldBy, local
<1>4. Sound(db)' /\ Sound(wdb)'
  BY EmptySound DEF IInv, ReleaseIfHeldBy, Sound
<1> QED BY <1>1, <1>2, <1>3, <1>4 DEF IInv

\* A cancelled request gives the lock back with its uncommitted rows.
LEMMA CancelStep ==
  ASSUME IInv, NEW r \in Request, Cancel(r) PROVE IInv'
<1>1. /\ pc[r] # "new" /\ ReleaseIfHeldBy({r})
      /\ UNCHANGED <<db, local, remote, world, told>>
  BY DEF Cancel
<1>2. pc' = [q \in Request |-> IF q \in {r} THEN "lost" ELSE pc[q]]
  BY DEF Cancel, Goto, IInv, TypeOK
<1> QED BY <1>1, <1>2, EndedKept

\* A process that dies gives the lock back with its uncommitted rows.
LEMMA CrashStep ==
  ASSUME IInv, NEW s \in Server, Crash(s) PROVE IInv'
<1>1. \A r \in InFlight(s) : pc[r] # "new"
  BY NoOneAssumption DEF InFlight, IInv, TypeOK, Stage
<1> QED BY <1>1, EndedKept DEF Crash, InFlight

-----------------------------------------------------------------------------
(* The theorems. *)

\* Every step of a handler preserves IInv.
LEMMA HandleStep ==
  ASSUME IInv, NEW r \in Request, Handle(r) PROVE IInv'
BY RenameBeginStep, DeleteBeginStep, RenameCommitStep, DeleteCommitStep, RollbackStep,
   KgAddStep, KgEndStep, PublishStep, DrawerLookupStep, ResolveStep, MemAddReplyStep,
   InsertSymbolRowStep, DiscoverStep, TouchStep, AnchorSelectStep, AnchorInsertStep,
   ChunkInsertStep,
   ScanStep, CheckDrawerStep, PurgeStep, TraceStep, DryPurgeStep
   DEF Handle

\* IInv is inductive.
LEMMA NextIInv == IInv /\ [Next]_vars => IInv'
<1> SUFFICES ASSUME IInv, [Next]_vars PROVE IInv'
  OBVIOUS
<1>1. ASSUME NEW r \in Request, Accept(r) PROVE IInv'
  BY <1>1, AcceptStep
<1>2. ASSUME NEW r \in Request, Handle(r) PROVE IInv'
  BY <1>2, HandleStep
<1>3. ASSUME NEW r \in Request, LockTimeout(r) PROVE IInv'
  BY <1>3, LockTimeoutStep
<1>4. ASSUME NEW r \in Request, Upstream(r) PROVE IInv'
  BY <1>4, UpstreamStep
<1>5. ASSUME NEW r \in Request, Cancel(r) PROVE IInv'
  BY <1>5, CancelStep
<1>6. ASSUME NEW d \in Drawer, DeleteDrawer(d) \/ StoreDrawer(d) PROVE IInv'
  BY <1>6, DrawerStep
<1>7. ASSUME NEW s \in Server, Crash(s) PROVE IInv'
  BY <1>7, CrashStep
<1>8. CASE UNCHANGED vars
  BY <1>8, OutsideKept DEF vars, IInv, TypeOK, world
<1> QED BY <1>1, <1>2, <1>3, <1>4, <1>5, <1>6, <1>7, <1>8 DEF Next

\* The inductive invariant holds in every reachable state: typing, soundness of the
\* committed and the uncommitted database, the stages of the handlers, the lock discipline.
THEOREM Invariance == Spec => []IInv
BY InitIInv, NextIInv, PTL DEF Spec

\* Every variable keeps its type in every instance.
THEOREM TypeCorrect == Spec => []TypeOK
<1>1. IInv => TypeOK
  BY DEF IInv
<1> QED BY <1>1, Invariance, PTL

\* The write lock is held exactly from BEGIN IMMEDIATE to Serena's reply, by one request,
\* and only its holder has uncommitted rows.
THEOREM LockDiscipline_Holds == Spec => []LockDiscipline
<1>1. IInv => LockDiscipline
  BY DEF IInv
<1> QED BY <1>1, Invariance, PTL

\* An identity names at most one live symbol and a pair of symbol and drawer at most one
\* anchor, whatever processes, crashes and cancellations do.
THEOREM UniqueIdentity == Spec => []UniqueLiveIdentity
<1>1. IInv => UniqueLiveIdentity
  BY DEF IInv, Sound, UniqueLiveIdentity
<1> QED BY <1>1, Invariance, PTL
=============================================================================
