--------------------------- MODULE LinkLayerProofs ---------------------------
(***************************************************************************)
(* WritePath implements LinkLayer, for every set of servers, requests and  *)
(* inputs, every fault and every initial database the schema accepts.      *)
(*                                                                         *)
(* IInv of WritePathProofs does not say what a commit will publish.  What  *)
(* is missing is Uncommitted: from BEGIN IMMEDIATE to the reply, the open  *)
(* transaction holds the committed database plus the one operation of its  *)
(* request, on the row it found, because nobody else can write meanwhile;  *)
(* and RowBound: the row an anchoring found is there when it writes.       *)
(***************************************************************************)
EXTENDS WritePathProofs

USE DEF Pc, AwaitPc, SyncPc, WritePc, DonePc

\* Labels at which a request counts on the row it found or inserted.
RowPc == {"discover", "touch", "anchor_select", "anchor_insert"}

RowBound == \A r \in Request : pc[r] \in RowPc => sym[r] \in DOMAIN db.symbols

Uncommitted(r) ==
  IF input[r].op = "rename"
  THEN LET base == UpsertSymbol(db, input[r].ident)
       IN /\ sym[r] = GetSymbol(base, input[r].ident)
          /\ ~Collides(base, Renamed(input[r]), sym[r])
          /\ wdb = RenameSymbol(base, sym[r], Renamed(input[r]).name)
  ELSE wdb = db /\ sym[r] = GetSymbol(db, input[r].ident)

Pending == \A r \in Request : pc[r] = "serena" => Uncommitted(r)

Strong == IInv /\ RowBound /\ Pending

\* A step of the abstract specification, or one its readers do not notice.
Seen == [LL!Next]_LL!vars

-----------------------------------------------------------------------------
(* The store functions as operations of LinkLayer. *)

\* A step that leaves the committed database alone is not noticed.
LEMMA Unnoticed == ASSUME UNCHANGED db PROVE Seen
BY DEF Seen, LL!vars

\* Unequal rows of the unique index, in the words of LinkLayer.
LEMMA FreeIdentity ==
  ASSUME NEW ident, NEW s, ~Collides(db, ident, s)
  PROVE  LL!Free(ident, s)
BY DEF LL!Free, Collides, LiveRows

\* INSERT INTO symbols is the discovery of a symbol.
LEMMA InsertIsDiscover ==
  ASSUME Sound(db), NEW ident \in Identity, ~Collides(db, ident, 0),
         db'.symbols = Append(db.symbols, [ident |-> ident, live |-> TRUE]),
         db'.anchors = db.anchors, db'.chunks = db.chunks
  PROVE  Seen /\ Len(db'.symbols) = Len(db.symbols) + 1
<1> DEFINE row == [ident |-> ident, live |-> TRUE]
           n == Len(db.symbols)
<1>1. row \in SymbolRow /\ db.symbols \in Seq(SymbolRow) /\ n \in Nat
  BY DEF SymbolRow, Sound, Database
<1>2. /\ Len(Append(db.symbols, row)) = n + 1
      /\ Append(db.symbols, row)[n + 1] = row
      /\ Append(db.symbols, row) \in Seq(SymbolRow)
  <2> HIDE DEF row
  <2> QED BY <1>1, AppendProperties
<1>3. n + 1 \in DOMAIN db'.symbols /\ db'.symbols[n + 1].ident = ident
  BY <1>1, <1>2
<1>4. ident \in LL!Given' \cap LL!Identity
  BY <1>3 DEF LL!Given, LL!Identity, Identity
<1>5. LL!Discover(ident)
  BY FreeIdentity DEF LL!Discover
<1> QED BY <1>2, <1>4, <1>5 DEF Seen, LL!Next

\* UPDATE symbols SET name_path of a live row is a renaming.
LEMMA UpdateIsRename ==
  ASSUME Sound(db), NEW s \in DOMAIN db.symbols, db.symbols[s].live,
         NEW ident \in Identity, ident.path = db.symbols[s].ident.path, ~Collides(db, ident, s),
         db'.symbols = [db.symbols EXCEPT ![s].ident = ident],
         db'.anchors = db.anchors, db'.chunks = db.chunks
  PROVE  Seen
<1>1. db.symbols \in Seq(SymbolRow)
  BY DEF Sound, Database
<1>2. s \in DOMAIN db'.symbols /\ db'.symbols[s].ident = ident
  BY <1>1 DEF SymbolRow
<1>3. ident \in LL!Given' \cap LL!Identity
  BY <1>2 DEF LL!Given, LL!Identity, Identity
<1>4. LL!Rename(s, ident)
  BY FreeIdentity DEF LL!Rename
<1> QED BY <1>3, <1>4 DEF Seen, LL!Next

\* DELETE of an anchor id removes at most one pair of symbol and drawer.
LEMMA DeleteIsDetach ==
  ASSUME Sound(db), NEW id, db' = DeleteAnchor(db, id)
  PROVE  Seen
<1> DEFINE pair(a) == [sym |-> a.sym, drawer |-> a.drawer]
           pairs == {pair(a) : a \in db.anchors}
<1>1. /\ db'.anchors = {a \in db.anchors : a.id # id}
      /\ db'.symbols = db.symbols /\ db'.chunks = db.chunks
  BY DEF DeleteAnchor, Sound, Database
<1>2. CASE \A a \in db.anchors : a.id # id
  <2>1. db'.anchors = db.anchors
    BY <1>1, <1>2
  <2> QED BY <1>1, <2>1 DEF Seen, LL!vars
<1>3. CASE \E a \in db.anchors : a.id = id
  <2>1. PICK b \in db.anchors : b.id = id
    BY <1>3
  <2>2. \A a \in db.anchors : a.id # id <=> a # b
    BY <2>1 DEF Sound, UniqueAnchors
  <2>3. \A a \in db.anchors : pair(a) = pair(b) => a = b
    BY <2>1 DEF Sound, UniqueAnchors
  <2>4. {pair(a) : a \in db'.anchors} = pairs \ {pair(b)}
    BY <1>1, <2>2, <2>3
  <2>5. LL!Detach(pair(b))
    BY <1>1, <2>4 DEF LL!Detach
  <2> QED BY <2>1, <2>5 DEF Seen, LL!Next
<1> QED BY <1>2, <1>3

\* Changing the row just appended is appending the changed row.
LEMMA ReplaceLast ==
  ASSUME NEW S, NEW q \in Seq(S), NEW a \in S, NEW b \in S
  PROVE  [Append(q, a) EXCEPT ![Len(q) + 1] = b] = Append(q, b)
<1> DEFINE n == Len(q)
           qa == Append(q, a)
           qb == Append(q, b)
<1>1. n \in Nat
  BY LenProperties
<1>2. /\ qa \in Seq(S) /\ Len(qa) = n + 1 /\ \A t \in 1..n : qa[t] = q[t]
      /\ qb \in Seq(S) /\ Len(qb) = n + 1 /\ \A t \in 1..n : qb[t] = q[t]
      /\ qb[n + 1] = b
  BY AppendProperties
<1> HIDE DEF n, qa, qb
<1> DEFINE qc == [qa EXCEPT ![n + 1] = b]
<1>3. /\ qc \in Seq(S) /\ Len(qc) = n + 1
      /\ \A t \in 1..(n + 1) : qc[t] = IF t = n + 1 THEN b ELSE qa[t]
  BY <1>1, <1>2, ExceptSeq
<1> HIDE DEF qc
<1>4. \A t \in 1..(n + 1) : qc[t] = qb[t]
  BY <1>1, <1>2, <1>3
<1>5. qc = qb
  BY <1>2, <1>3, <1>4, SeqEqual
<1> QED BY <1>5 DEF qc, qa, qb, n

\* Giving a row another identity changes nothing else of it.
LEMMA RowReplaced ==
  ASSUME NEW row \in SymbolRow, NEW ident \in Identity
  PROVE  [row EXCEPT !.ident = ident] = [ident |-> ident, live |-> row.live]
BY DEF SymbolRow

\* The row an upsert returns: the live row that was there, or a new one at the end.
LEMMA UpsertRow ==
  ASSUME NEW d, Sound(d), NEW ident \in Identity
  PROVE  LET base == UpsertSymbol(d, ident)
             s    == GetSymbol(base, ident)
         IN \/ base = d /\ s \in LiveRows(d, ident)
            \/ /\ LiveRows(d, ident) = {}
               /\ s = Len(d.symbols) + 1
               /\ base.symbols = Append(d.symbols, [ident |-> ident, live |-> TRUE])
               /\ base.history = Append(d.history, [sym |-> s, source |-> "discovery",
                                                    old |-> NoName, new |-> ident.name])
               /\ base.anchors = d.anchors /\ base.chunks = d.chunks
<1> DEFINE base == UpsertSymbol(d, ident)
           s == GetSymbol(base, ident)
           n == Len(d.symbols)
<1>1. d \in Database /\ Sound(base) /\ base \in Database /\ s \in LiveRows(base, ident)
  BY UpsertSymbolSound DEF Sound
<1>2. CASE GetSymbol(d, ident) # 0
  BY <1>1, <1>2 DEF UpsertSymbol
<1>3. CASE GetSymbol(d, ident) = 0
  <2> DEFINE row == [ident |-> ident, live |-> TRUE]
             found == [sym |-> n + 1, source |-> "discovery", old |-> NoName, new |-> ident.name]
  <2>1. LiveRows(d, ident) = {}
    BY <1>1, <1>3, GetSymbolResult
  <2>2. /\ base.symbols = Append(d.symbols, row)
        /\ base.history = Append(d.history, found)
        /\ base.anchors = d.anchors /\ base.chunks = d.chunks
    BY <1>1, <1>3 DEF UpsertSymbol, DiscoverSymbol, InsertSymbol, AppendHistory, NewSymbol, Database
  <2>3. d.symbols \in Seq(SymbolRow) /\ row \in SymbolRow /\ n \in Nat
    BY <1>1 DEF Database, SymbolRow
  <2>4. /\ DOMAIN base.symbols = 1..(n + 1)
        /\ \A t \in 1..n : base.symbols[t] = d.symbols[t]
    <3> HIDE DEF row, base
    <3> QED BY <2>2, <2>3, AppendProperties, LenProperties
  <2>5. s \in 1..(n + 1) /\ base.symbols[s].live /\ base.symbols[s].ident = ident
    BY <1>1, <2>4 DEF LiveRows
  <2>6. s \notin 1..n
    <3>1. \A t \in 1..n : ~(d.symbols[t].live /\ d.symbols[t].ident = ident)
      BY <2>1, <2>3 DEF LiveRows
    <3> QED BY <2>4, <2>5, <3>1
  <2>7. s = n + 1
    BY <2>3, <2>5, <2>6
  <2> QED BY <2>1, <2>2, <2>7
<1> QED BY <1>2, <1>3

\* A symbol table in which row s has this name.
RowRenamed(rows, s, name) == [rows EXCEPT ![s].ident.name = name]

\* The tables after rename_symbol.
LEMMA RenameSymbolFields ==
  ASSUME NEW d \in Database, NEW s, NEW name
  PROVE  /\ RenameSymbol(d, s, name).symbols = RowRenamed(d.symbols, s, name)
         /\ RenameSymbol(d, s, name).anchors = d.anchors
         /\ RenameSymbol(d, s, name).chunks = d.chunks
<1> DEFINE rows == RowRenamed(d.symbols, s, name)
           mid == [d EXCEPT !.symbols = rows]
<1>1. mid = [d EXCEPT !.symbols[s].ident.name = name]
  BY Zenon DEF RowRenamed
<1> HIDE DEF rows
<1>2. /\ mid.symbols = rows /\ mid.anchors = d.anchors /\ mid.chunks = d.chunks
      /\ DOMAIN mid = DOMAIN d /\ "history" \in DOMAIN d
  BY DEF Database
<1> HIDE DEF mid
<1>3. PICK old : RenameSymbol(d, s, name) = AppendHistory(mid, s, "engram-rename", old, name)
  BY <1>1, Zenon DEF RenameSymbol
<1>4. /\ AppendHistory(mid, s, "engram-rename", old, name).symbols = mid.symbols
      /\ AppendHistory(mid, s, "engram-rename", old, name).anchors = mid.anchors
      /\ AppendHistory(mid, s, "engram-rename", old, name).chunks = mid.chunks
  BY <1>2 DEF AppendHistory
<1> QED BY <1>2, <1>3, <1>4 DEF rows

\* What is committed when Serena confirms a rename.
LEMMA RenameCommitSeen ==
  ASSUME Strong, NEW r \in Request, RenameCommit(r) PROVE Seen
<1> DEFINE i == input[r]
           base == UpsertSymbol(db, i.ident)
           s == sym[r]
           new == Renamed(i)
           n == Len(db.symbols)
<1>1. /\ i \in Input /\ i.op = "rename" /\ i.ident \in Identity
      /\ Sound(db) /\ db \in Database
      /\ s = GetSymbol(base, i.ident) /\ ~Collides(base, new, s)
      /\ db' = RenameSymbol(base, s, new.name)
  BY InputFields DEF RenameCommit, Turn, Strong, Pending, Uncommitted, IInv, Stage, Sound
<1>2. new = [i.ident EXCEPT !.name = new.name] /\ new \in Identity /\ new.path = i.ident.path
  BY <1>1, RenamedType DEF Identity
<1>3. Sound(base) /\ base \in Database /\ s \in LiveRows(base, i.ident)
  BY <1>1, UpsertSymbolSound DEF Sound
<1>4. s \in DOMAIN base.symbols /\ base.symbols[s].live /\ base.symbols[s].ident = i.ident
  BY <1>3 DEF LiveRows
<1>6. /\ db'.symbols = RowRenamed(base.symbols, s, new.name)
      /\ db'.anchors = base.anchors /\ db'.chunks = base.chunks
  <2> HIDE DEF base, s, new
  <2> QED BY <1>1, <1>3, RenameSymbolFields
<1>7. db'.symbols = [base.symbols EXCEPT ![s].ident = new]
  <2>1. [base.symbols[s].ident EXCEPT !.name = new.name] = new
    BY <1>2, <1>4
  <2> HIDE DEF base, s, new
  <2> QED BY <1>6, <2>1, Zenon DEF RowRenamed
<1> HIDE DEF base, s, new
<1>8. CASE base = db /\ s \in LiveRows(db, i.ident)
  BY <1>1, <1>2, <1>4, <1>6, <1>7, <1>8, UpdateIsRename
<1>9. CASE /\ LiveRows(db, i.ident) = {}
           /\ s = n + 1
           /\ base.symbols = Append(db.symbols, [ident |-> i.ident, live |-> TRUE])
           /\ base.anchors = db.anchors /\ base.chunks = db.chunks
  <2> DEFINE row == [ident |-> i.ident, live |-> TRUE]
             moved == [ident |-> new, live |-> TRUE]
  <2>1. row \in SymbolRow /\ moved \in SymbolRow /\ db.symbols \in Seq(SymbolRow) /\ n \in Nat
    BY <1>1, <1>2 DEF SymbolRow, Database
  <2>2. /\ Len(Append(db.symbols, row)) = n + 1 /\ Append(db.symbols, row) \in Seq(SymbolRow)
        /\ \A t \in 1..n : Append(db.symbols, row)[t] = db.symbols[t]
        /\ Append(db.symbols, row)[n + 1] = row
        /\ Len(Append(db.symbols, moved)) = n + 1 /\ Append(db.symbols, moved) \in Seq(SymbolRow)
        /\ \A t \in 1..n : Append(db.symbols, moved)[t] = db.symbols[t]
        /\ Append(db.symbols, moved)[n + 1] = moved
    <3> HIDE DEF row, moved
    <3> QED BY <2>1, AppendProperties
  <2>3. db'.symbols = [Append(db.symbols, row) EXCEPT ![n + 1] = moved]
    <3> HIDE DEF row, moved
    <3>1. [row EXCEPT !.ident = new] = moved
      BY <1>2, <2>1, RowReplaced DEF row, moved
    <3> QED BY <1>7, <1>9, <2>2, <3>1 DEF row
  <2>4. [Append(db.symbols, row) EXCEPT ![n + 1] = moved] = Append(db.symbols, moved)
    <3> HIDE DEF row, moved
    <3> DEFINE q == db.symbols
    <3>1. q \in Seq(SymbolRow)
      BY <2>1
    <3> HIDE DEF q
    <3>2. [Append(q, row) EXCEPT ![Len(q) + 1] = moved] = Append(q, moved)
      BY <2>1, <3>1, ReplaceLast
    <3> QED BY <3>2 DEF q
  <2>5. ~Collides(db, new, 0)
    <3>1. \A t \in 1..n : t \in DOMAIN base.symbols /\ base.symbols[t] = db.symbols[t] /\ t # n + 1
      BY <1>9, <2>1, <2>2, LenProperties
    <3>2. LiveRows(db, new) \subseteq LiveRows(base, new) \ {s}
      BY <1>9, <2>1, <3>1 DEF LiveRows
    <3> QED BY <1>1, <3>2 DEF Collides
  <2> QED BY <1>1, <1>2, <1>6, <1>9, <2>3, <2>4, <2>5, InsertIsDiscover
<1> QED BY <1>1, <1>8, <1>9, UpsertRow DEF base, s

\* What is committed when Serena confirms a deletion.
LEMMA DeleteCommitSeen ==
  ASSUME Strong, NEW r \in Request, DeleteCommit(r) PROVE Seen
<1>1. /\ wdb = db /\ Sound(db) /\ db \in Database /\ sym[r] \in 0..Len(db.symbols)
  BY DEF DeleteCommit, Turn, Strong, Pending, Uncommitted, IInv, LockDiscipline, Sound
<1>2. CASE sym[r] = 0 \/ ~db.symbols[sym[r]].live
  BY <1>1, <1>2, Unnoticed DEF DeleteCommit, TombstoneSymbol
<1>3. CASE sym[r] # 0 /\ db.symbols[sym[r]].live
  <2>1. sym[r] \in DOMAIN db.symbols /\ db.symbols \in Seq(SymbolRow)
    BY <1>1, <1>3 DEF Database
  <2>2. /\ db'.symbols = [db.symbols EXCEPT ![sym[r]].live = FALSE]
        /\ db'.anchors = db.anchors /\ db'.chunks = db.chunks
    BY <1>1, <1>3, <2>1 DEF DeleteCommit, TombstoneSymbol, AppendHistory, Database
  <2>3. LL!Tombstone(sym[r])
    BY <1>3, <2>2 DEF LL!Tombstone
  <2> QED BY <2>1, <2>3 DEF Seen, LL!Next
<1> QED BY <1>2, <1>3

-----------------------------------------------------------------------------
(* Databases only grow. *)

\* What LedgerAppendOnly says of a step from database d to database e.
Extends(d, e) ==
  /\ IsPrefixOf(d.history, e.history)
  /\ Len(d.symbols) <= Len(e.symbols)
  /\ \A s \in DOMAIN d.symbols : ~d.symbols[s].live => e.symbols[s] = d.symbols[s]

\* A prefix is known by its elements.
LEMMA PrefixByElements ==
  ASSUME NEW S, NEW p \in Seq(S), NEW q \in Seq(S), Len(p) <= Len(q),
         \A k \in 1..Len(p) : q[k] = p[k]
  PROVE  IsPrefixOf(p, q)
<1> DEFINE n == Len(p)
           cut == SubSeq(q, 1, n)
<1>1. n \in Nat /\ n <= Len(q) /\ Len(q) \in Nat
  BY LenProperties
<1>2. \A k \in 1..n : q[k] \in S
  BY <1>1, ElementOfSeq
<1>3. /\ cut \in Seq(S)
      /\ Len(cut) = IF 1 <= n THEN n - 1 + 1 ELSE 0
      /\ \A k \in 1..(n - 1 + 1) : cut[k] = q[1 + k - 1]
  <2> HIDE DEF n
  <2> QED BY <1>1, <1>2, SubSeqProperties
<1> HIDE DEF n, cut
<1>4. Len(cut) = n
  BY <1>1, <1>3
<1>5. \A k \in 1..n : cut[k] = p[k]
  BY <1>1, <1>3 DEF n
<1>6. cut = p
  BY <1>3, <1>4, <1>5, SeqEqual DEF n
<1> QED BY <1>1, <1>6 DEF IsPrefixOf, cut, n

\* A ledger is a prefix of itself, and of itself with a row more.
LEMMA LedgerPrefix ==
  ASSUME NEW S, NEW p \in Seq(S), NEW q \in Seq(S), NEW a \in S, NEW b \in S,
         q \in {p, Append(p, a)}
  PROVE  IsPrefixOf(p, q) /\ IsPrefixOf(p, Append(q, b))
<1>1. /\ Len(p) \in Nat /\ Len(Append(p, a)) = Len(p) + 1
      /\ \A k \in 1..Len(p) : Append(p, a)[k] = p[k]
  BY AppendProperties, LenProperties
<1>2. Len(q) \in Nat /\ Len(p) <= Len(q) /\ \A k \in 1..Len(p) : q[k] = p[k]
  BY <1>1
<1>3. /\ Append(q, b) \in Seq(S) /\ Len(Append(q, b)) = Len(q) + 1
      /\ \A k \in 1..Len(q) : Append(q, b)[k] = q[k]
  BY AppendProperties
<1>4. Len(p) <= Len(Append(q, b)) /\ \A k \in 1..Len(p) : Append(q, b)[k] = p[k]
  BY <1>1, <1>2, <1>3
<1> QED BY <1>2, <1>3, <1>4, PrefixByElements

\* A database extends itself, and a database with its symbols and its ledger.
LEMMA ExtendsSame ==
  ASSUME NEW d \in Database, NEW e, e.symbols = d.symbols, e.history = d.history
  PROVE  Extends(d, e)
<1>1. d.history \in Seq(HistoryRow) /\ d.symbols \in Seq(SymbolRow) /\ Len(d.symbols) \in Nat
  BY DEF Database
<1>2. IsPrefixOf(d.history, d.history)
  BY <1>1, LenProperties, PrefixByElements
<1> QED BY <1>1, <1>2 DEF Extends

\* append_history extends the database.
LEMMA AppendHistoryExtends ==
  ASSUME NEW d \in Database, NEW s \in Nat, NEW source \in Source,
         NEW old \in NamePath \cup {NoName}, NEW new \in NamePath \cup {NoName}
  PROVE  Extends(d, AppendHistory(d, s, source, old, new))
<1> DEFINE row == [sym |-> s, source |-> source, old |-> old, new |-> new]
           after == AppendHistory(d, s, source, old, new)
<1>1. d.history \in Seq(HistoryRow) /\ row \in HistoryRow /\ Len(d.symbols) \in Nat
  BY DEF Database, HistoryRow
<1>2. after.history = Append(d.history, row) /\ after.symbols = d.symbols
  BY DEF AppendHistory, Database
<1>3. IsPrefixOf(d.history, Append(d.history, row))
  <2> HIDE DEF row
  <2> QED BY <1>1, LedgerPrefix
<1> QED BY <1>1, <1>2, <1>3 DEF Extends

\* INSERT INTO symbols extends the database.
LEMMA InsertSymbolExtends ==
  ASSUME NEW d \in Database, NEW ident \in Identity
  PROVE  Extends(d, InsertSymbol(d, ident))
<1> DEFINE row == [ident |-> ident, live |-> TRUE]
           after == InsertSymbol(d, ident)
           n == Len(d.symbols)
<1>1. d.symbols \in Seq(SymbolRow) /\ row \in SymbolRow /\ n \in Nat /\ d.history \in Seq(HistoryRow)
  BY DEF Database, SymbolRow
<1>2. after.history = d.history /\ after.symbols = Append(d.symbols, row)
  BY DEF InsertSymbol, Database
<1>3. Len(Append(d.symbols, row)) = n + 1 /\ \A t \in 1..n : Append(d.symbols, row)[t] = d.symbols[t]
  <2> HIDE DEF row
  <2> QED BY <1>1, AppendProperties
<1>4. IsPrefixOf(d.history, d.history)
  BY <1>1, LenProperties, PrefixByElements
<1> QED BY <1>1, <1>2, <1>3, <1>4 DEF Extends

\* tombstone_symbol extends the database: the row it changes was live.
LEMMA TombstoneExtends ==
  ASSUME NEW d \in Database, NEW s \in DOMAIN d.symbols
  PROVE  Extends(d, TombstoneSymbol(d, s))
<1> DEFINE mid == [d EXCEPT !.symbols[s].live = FALSE]
           after == TombstoneSymbol(d, s)
           row == [sym |-> s, source |-> "engram-delete", old |-> d.symbols[s].ident.name, new |-> NoName]
<1>1. /\ d.symbols \in Seq(SymbolRow) /\ d.symbols[s] \in SymbolRow /\ s \in Nat
      /\ Len(d.symbols) \in Nat /\ d.history \in Seq(HistoryRow)
  BY DEF Database
<1>2. CASE ~d.symbols[s].live
  BY <1>2, ExtendsSame DEF TombstoneSymbol
<1>3. CASE d.symbols[s].live
  <2>1. row \in HistoryRow
    BY <1>1 DEF HistoryRow, SymbolRow, Identity, Source, MoveSource
  <2>2. /\ after.history = Append(d.history, row)
        /\ after.symbols = [d.symbols EXCEPT ![s].live = FALSE]
    BY <1>3 DEF TombstoneSymbol, AppendHistory, Database
  <2>3. IsPrefixOf(d.history, Append(d.history, row))
    <3> HIDE DEF row
    <3> QED BY <1>1, <2>1, LedgerPrefix
  <2>4. Len([d.symbols EXCEPT ![s].live = FALSE]) = Len(d.symbols)
    <3> DEFINE dead == [d.symbols[s] EXCEPT !.live = FALSE]
    <3>1. dead \in SymbolRow
      BY <1>1 DEF SymbolRow
    <3>2. [d.symbols EXCEPT ![s].live = FALSE] = [d.symbols EXCEPT ![s] = dead]
      OBVIOUS
    <3> HIDE DEF dead
    <3> QED BY <1>1, <3>1, <3>2, ExceptSeq
  <2>5. \A t \in DOMAIN d.symbols : ~d.symbols[t].live => after.symbols[t] = d.symbols[t]
    BY <1>3, <2>2
  <2> HIDE DEF after, row
  <2>6. IsPrefixOf(d.history, after.history) /\ Len(after.symbols) = Len(d.symbols)
    BY <2>2, <2>3, <2>4
  <2>7. Extends(d, after)
    BY <1>1, <2>5, <2>6 DEF Extends
  <2> QED BY <2>7 DEF after
<1> QED BY <1>2, <1>3

\* A rename extends the database, also when it discovers the symbol first.
LEMMA RenameExtends ==
  ASSUME NEW d, Sound(d), NEW ident \in Identity, NEW name \in NamePath
  PROVE  LET base == UpsertSymbol(d, ident)
         IN  Extends(d, RenameSymbol(base, GetSymbol(base, ident), name))
<1> DEFINE base == UpsertSymbol(d, ident)
           s == GetSymbol(base, ident)
           n == Len(d.symbols)
           after == RenameSymbol(base, s, name)
           row == [sym |-> s, source |-> "engram-rename", old |-> base.symbols[s].ident.name,
                   new |-> name]
           found == [sym |-> s, source |-> "discovery", old |-> NoName, new |-> ident.name]
<1>1. /\ d \in Database /\ base \in Database /\ s \in LiveRows(base, ident)
      /\ d.symbols \in Seq(SymbolRow) /\ base.symbols \in Seq(SymbolRow) /\ n \in Nat
      /\ d.history \in Seq(HistoryRow) /\ base.history \in Seq(HistoryRow)
  BY UpsertSymbolSound DEF Sound, Database
<1>2. /\ s \in DOMAIN base.symbols /\ s \in Nat /\ base.symbols[s] \in SymbolRow
      /\ base.symbols[s].live
  BY <1>1 DEF LiveRows
<1>3. row \in HistoryRow /\ found \in HistoryRow
  BY <1>2 DEF HistoryRow, SymbolRow, Identity, Source, MoveSource
<1>4. \/ base = d
      \/ /\ s = n + 1
         /\ base.symbols = Append(d.symbols, [ident |-> ident, live |-> TRUE])
         /\ base.history = Append(d.history, found)
  BY UpsertRow
<1>5. /\ after.history = Append(base.history, row)
      /\ after.symbols = [base.symbols EXCEPT ![s].ident.name = name]
  BY <1>1 DEF RenameSymbol, AppendHistory, Database
<1>6. IsPrefixOf(d.history, after.history)
  <2>1. base.history \in {d.history, Append(d.history, found)}
    BY <1>4
  <2> DEFINE old == d.history
             now == base.history
  <2>2. old \in Seq(HistoryRow) /\ now \in Seq(HistoryRow) /\ now \in {old, Append(old, found)}
    BY <1>1, <2>1
  <2> HIDE DEF row, found, old, now
  <2>3. IsPrefixOf(old, Append(now, row))
    BY <1>3, <2>2, LedgerPrefix
  <2> QED BY <1>5, <2>3 DEF old, now
<1>7. Len(after.symbols) = Len(base.symbols)
  <2> DEFINE moved == [base.symbols[s] EXCEPT !.ident.name = name]
  <2>1. moved \in SymbolRow
    BY <1>2 DEF SymbolRow, Identity
  <2>2. [base.symbols EXCEPT ![s].ident.name = name] = [base.symbols EXCEPT ![s] = moved]
    OBVIOUS
  <2> HIDE DEF moved, base, s
  <2>3. Len([base.symbols EXCEPT ![s] = moved]) = Len(base.symbols)
    BY <1>1, <1>2, <2>1, ExceptSeq
  <2> QED BY <1>5, <2>2, <2>3
<1>8. \A t \in DOMAIN base.symbols : t # s => after.symbols[t] = base.symbols[t]
  BY <1>5
<1> HIDE DEF base, s, after, row, found
<1>9. /\ n <= Len(base.symbols)
      /\ \A t \in 1..n : /\ t \in DOMAIN base.symbols /\ base.symbols[t] = d.symbols[t]
                         /\ ~d.symbols[t].live => t # s
  <2>1. CASE base = d
    BY <1>1, <1>2, <2>1
  <2>2. CASE s = n + 1 /\ base.symbols = Append(d.symbols, [ident |-> ident, live |-> TRUE])
    <3> DEFINE new == [ident |-> ident, live |-> TRUE]
    <3>1. new \in SymbolRow
      BY DEF SymbolRow
    <3> HIDE DEF new
    <3>2. /\ Len(Append(d.symbols, new)) = n + 1
          /\ \A t \in 1..n : Append(d.symbols, new)[t] = d.symbols[t]
      BY <1>1, <3>1, AppendProperties
    <3>3. base.symbols = Append(d.symbols, new)
      BY <2>2 DEF new
    <3>4. /\ Len(base.symbols) = n + 1 /\ DOMAIN base.symbols = 1..(n + 1)
          /\ \A t \in 1..n : base.symbols[t] = d.symbols[t]
      BY <1>1, <3>2, <3>3, LenProperties
    <3> QED BY <1>1, <2>2, <3>4
  <2> QED BY <1>4, <2>1, <2>2
<1>10. Extends(d, after)
  BY <1>1, <1>6, <1>7, <1>8, <1>9 DEF Extends
<1> QED BY <1>10 DEF after, base, s

-----------------------------------------------------------------------------
(* Each action preserves Strong, is seen as one operation and extends the  *)
(* database.                                                               *)

Kept == Strong' /\ Seen /\ Extends(db, db')

\* A step of one request that does not open a transaction.
LEMMA Relocated ==
  ASSUME Strong, IInv', NEW r \in Request, NEW l \in Pc \ {"serena"}, Goto(r, l),
         \A q \in Request \ {r} : input'[q] = input[q] /\ sym'[q] = sym[q],
         l \in RowPc => sym'[r] \in DOMAIN db'.symbols,
         Len(db.symbols) <= Len(db'.symbols),
         writer = NoOne \/ pc[r] = "serena" \/ UNCHANGED <<db, wdb>>
  PROVE  Strong'
<1>1. \A q \in Request \ {r} : pc'[q] = pc[q]
  BY DEF Strong, IInv, TypeOK, Goto
<1>2. pc'[r] = l
  BY DEF Strong, IInv, TypeOK, Goto
<1>3. DOMAIN db.symbols \subseteq DOMAIN db'.symbols
  BY DEF Strong, IInv, Sound, Database
<1>4. RowBound'
  BY <1>1, <1>2, <1>3 DEF Strong, RowBound
<1>5. Pending'
  <2> SUFFICES ASSUME NEW q \in Request, pc'[q] = "serena" PROVE Uncommitted(q)'
    BY DEF Pending
  <2>1. q # r /\ pc[q] = "serena" /\ writer = q
    BY <1>1, <1>2 DEF Strong, IInv, LockDiscipline
  <2>2. UNCHANGED <<db, wdb>> /\ input'[q] = input[q] /\ sym'[q] = sym[q]
    BY <2>1, NoOneAssumption DEF Strong, IInv, LockDiscipline
  <2>3. Uncommitted(q)
    BY <2>1 DEF Strong, Pending
  <2> QED BY <2>2, <2>3 DEF Uncommitted
<1> QED BY <1>4, <1>5 DEF Strong

\* A step of one request that leaves the committed database alone.
LEMMA Quiet ==
  ASSUME Strong, IInv', NEW r \in Request, NEW l \in Pc \ {"serena"}, Goto(r, l),
         \A q \in Request \ {r} : input'[q] = input[q] /\ sym'[q] = sym[q],
         l \in RowPc => sym'[r] \in DOMAIN db.symbols,
         UNCHANGED db, pc[r] = "serena" \/ UNCHANGED wdb
  PROVE  Kept
<1>1. db \in Database /\ Len(db.symbols) \in Nat
  BY DEF Strong, IInv, Sound, Database
<1>2. Strong'
  BY <1>1, Relocated
<1> QED BY <1>1, <1>2, Unnoticed, ExtendsSame DEF Kept

\* The steps that only move one request from label to label.
LEMMA LabelSteps ==
  ASSUME Strong, IInv', NEW r \in Request,
         \/ Accept(r) \/ LockTimeout(r) \/ Rollback(r) \/ KgAdd(r) \/ KgEnd(r) \/ Publish(r)
         \/ DrawerLookup(r) \/ Scan(r) \/ CheckDrawer(r) \/ DryPurge(r)
  PROVE  Kept
<1>1. CASE Accept(r)
  <2>1. PICK i \in Menu : input' = [input EXCEPT ![r] = i] /\ Goto(r, FirstPc(i.op))
    BY <1>1 DEF Accept
  <2>2. FirstPc(i.op) \in {"begin", "lookup", "add", "scan"}
    BY MenuAssumption, InputFields DEF FirstPc
  <2>3. UNCHANGED <<db, wdb, sym>>
    BY <1>1 DEF Accept, store
  <2> QED BY <2>1, <2>2, <2>3, Quiet DEF RowPc, Strong, IInv, TypeOK
<1>2. CASE Rollback(r)
  BY <1>2, Quiet DEF Rollback, Turn, RowPc, local
<1>3. CASE LockTimeout(r)
  BY <1>3, Quiet DEF LockTimeout, RowPc, local, store
<1>4. CASE KgAdd(r)
  <2>1. PICK l \in {"kg_end", "publish"} : Goto(r, l)
    BY <1>4 DEF KgAdd
  <2>2. UNCHANGED <<db, wdb, input, sym>>
    BY <1>4 DEF KgAdd, local, store
  <2>3. l \in Pc \ {"serena"} /\ l \notin RowPc
    BY <2>1 DEF RowPc
  <2> QED BY <2>1, <2>2, <2>3, Quiet
<1>5. CASE KgEnd(r)
  <2>1. PICK l \in {"publish"} : Goto(r, l)
    BY <1>5 DEF KgEnd
  <2>2. UNCHANGED <<db, wdb, input, sym>>
    BY <1>5 DEF KgEnd, local, store
  <2>3. l \in Pc \ {"serena"} /\ l \notin RowPc
    BY <2>1 DEF RowPc
  <2> QED BY <2>1, <2>2, <2>3, Quiet
<1>6. CASE Publish(r)
  <2>1. PICK l \in {"ok"} : Goto(r, l)
    BY <1>6 DEF Publish
  <2>2. UNCHANGED <<db, wdb, input, sym>>
    BY <1>6 DEF Publish, local, store
  <2>3. l \in Pc \ {"serena"} /\ l \notin RowPc
    BY <2>1 DEF RowPc
  <2> QED BY <2>1, <2>2, <2>3, Quiet
<1>7. CASE DrawerLookup(r)
  <2>1. PICK l \in {"resolve", "ok", "chunk_insert", "failed"} : Goto(r, l)
    BY <1>7 DEF DrawerLookup, Found
  <2>2. UNCHANGED <<db, wdb, input, sym>>
    BY <1>7 DEF DrawerLookup, local, store
  <2>3. l \in Pc \ {"serena"} /\ l \notin RowPc
    BY <2>1 DEF RowPc
  <2> QED BY <2>1, <2>2, <2>3, Quiet
<1>8. CASE Scan(r)
  <2>1. PICK l \in {"ok", "check"} : Goto(r, l)
    BY <1>8 DEF Scan
  <2>2. UNCHANGED <<db, wdb, input, sym>>
    BY <1>8 DEF Scan, local, store
  <2>3. l \in Pc \ {"serena"} /\ l \notin RowPc
    BY <2>1 DEF RowPc
  <2> QED BY <2>1, <2>2, <2>3, Quiet
<1>9. CASE CheckDrawer(r)
  <2>1. PICK l \in {"ok", "check", "purge"} : Goto(r, l)
    BY <1>9 DEF CheckDrawer
  <2>2. UNCHANGED <<db, wdb, input, sym>>
    BY <1>9 DEF CheckDrawer, local, store
  <2>3. l \in Pc \ {"serena"} /\ l \notin RowPc
    BY <2>1 DEF RowPc
  <2> QED BY <2>1, <2>2, <2>3, Quiet
<1>10. CASE DryPurge(r)
  <2>1. PICK l \in {"ok", "failed"} : Goto(r, l)
    BY <1>10 DEF DryPurge
  <2>2. UNCHANGED <<db, wdb, input, sym>>
    BY <1>10 DEF DryPurge, local, store
  <2>3. l \in Pc \ {"serena"} /\ l \notin RowPc
    BY <2>1 DEF RowPc
  <2> QED BY <2>1, <2>2, <2>3, Quiet
<1> QED BY <1>1, <1>2, <1>3, <1>4, <1>5, <1>6, <1>7, <1>8, <1>9, <1>10

\* The row an anchoring finds is there.
LEMMA SelectStep ==
  ASSUME Strong, IInv', NEW r \in Request, Resolve(r) \/ MemAddReply(r) PROVE Kept
<1>1. /\ input[r] \in Input /\ input[r].op \in {"anchor", "mem_add"} /\ db \in Database
      /\ sym \in [Request -> Nat] /\ UNCHANGED <<db, wdb, input>>
  BY DEF Resolve, MemAddReply, Turn, Strong, IInv, TypeOK, Stage, store
<1>2. CASE SelectSymbol(r)
  <2> DEFINE s == GetSymbol(db, input[r].ident)
             l == IF s = 0 THEN "insert" ELSE "touch"
  <2>1. s \in 0..Len(db.symbols) /\ Len(db.symbols) \in Nat /\ DOMAIN db.symbols = 1..Len(db.symbols)
    BY <1>1, InputFields, GetSymbolResult DEF Database
  <2>2. sym' = [sym EXCEPT ![r] = s] /\ Goto(r, l)
    BY <1>2 DEF SelectSymbol
  <2>3. /\ l \in Pc \ {"serena"}
        /\ l \in RowPc => s \in DOMAIN db.symbols
    BY <2>1 DEF RowPc
  <2> HIDE DEF s, l
  <2> QED BY <1>1, <2>2, <2>3, Quiet
<1>3. CASE Goto(r, "failed") /\ UNCHANGED sym
  BY <1>1, <1>3, Quiet DEF RowPc
<1> QED BY <1>2, <1>3 DEF Resolve, MemAddReply

\* The row an anchoring found stays.
LEMMA RowSteps ==
  ASSUME Strong, IInv', NEW r \in Request, Touch(r) \/ AnchorSelect(r) PROVE Kept
<1>1. PICK l \in {"anchor_select", "ok", "anchor_insert"} : Goto(r, l)
  BY DEF Touch, AnchorSelect
<1>2. UNCHANGED <<db, wdb, input, sym>> /\ pc[r] \in RowPc
  BY DEF Touch, AnchorSelect, RowPc, local, store
<1>3. sym'[r] \in DOMAIN db.symbols
  BY <1>2 DEF Strong, RowBound
<1> QED BY <1>1, <1>2, <1>3, Quiet

\* A transaction opens on the committed database and holds one operation.
LEMMA BeginStep ==
  ASSUME Strong, IInv', NEW r \in Request, RenameBegin(r) \/ DeleteBegin(r) PROVE Kept
<1>1. UNCHANGED db /\ db \in Database /\ writer = NoOne
  BY DEF RenameBegin, DeleteBegin, LockFree, Strong, IInv, Sound
<1>2. CASE Goto(r, "failed") /\ UNCHANGED <<wdb, input, sym>>
  BY <1>1, <1>2, Quiet DEF RowPc
<1>3. ASSUME Goto(r, "serena"), UNCHANGED input, Uncommitted(r)',
             \A q \in Request \ {r} : sym'[q] = sym[q]
      PROVE  Kept
  <2>1. \A q \in Request \ {r} : pc'[q] = pc[q] /\ pc[q] # "serena"
    BY <1>1, <1>3, NoOneAssumption DEF Strong, IInv, TypeOK, LockDiscipline, Goto
  <2>2. pc'[r] = "serena"
    BY <1>3 DEF Strong, IInv, TypeOK, Goto
  <2>3. RowBound' /\ Pending'
    BY <1>1, <1>3, <2>1, <2>2 DEF Strong, RowBound, RowPc, Pending
  <2> QED BY <1>1, <2>3, Unnoticed, ExtendsSame DEF Kept, Strong
<1>4. CASE RenameBegin(r)
  <2> DEFINE base == UpsertSymbol(db, input[r].ident)
             s == GetSymbol(base, input[r].ident)
             new == Renamed(input[r])
  <2>1. CASE Collides(base, new, s)
    BY <1>2, <1>4, <2>1 DEF RenameBegin
  <2>2. CASE ~Collides(base, new, s)
    <3>1. /\ wdb' = RenameSymbol(base, s, new.name) /\ sym' = [sym EXCEPT ![r] = s]
          /\ UNCHANGED <<db, input>> /\ Goto(r, "serena") /\ sym \in [Request -> Nat]
          /\ input[r].op = "rename"
      BY <1>4, <2>2 DEF RenameBegin, Strong, IInv, TypeOK
    <3>2. sym'[r] = s
      BY <3>1
    <3>3. Uncommitted(r)'
      BY <2>2, <3>1, <3>2 DEF Uncommitted
    <3> HIDE DEF base, s, new
    <3> QED BY <1>3, <3>1, <3>3
  <2> QED BY <2>1, <2>2
<1>5. CASE DeleteBegin(r)
  <2>1. /\ wdb' = db /\ UNCHANGED <<db, input>> /\ Goto(r, "serena") /\ input[r].op = "delete"
        /\ \A q \in Request \ {r} : sym'[q] = sym[q]
        /\ sym'[r] = GetSymbol(db, input[r].ident)
    BY <1>5 DEF DeleteBegin, Strong, IInv, TypeOK
  <2>2. Uncommitted(r)'
    BY <2>1 DEF Uncommitted
  <2> QED BY <1>3, <2>1, <2>2
<1> QED BY <1>4, <1>5

\* A commit publishes the one operation of its request.
LEMMA CommitStep ==
  ASSUME Strong, IInv', NEW r \in Request, RenameCommit(r) \/ DeleteCommit(r) PROVE Kept
<1>1. /\ pc[r] = "serena" /\ UNCHANGED <<input, sym>> /\ Sound(db) /\ db \in Database
      /\ input[r] \in Input /\ sym[r] \in 0..Len(wdb.symbols) /\ Uncommitted(r)
  BY DEF RenameCommit, DeleteCommit, Turn, local, Strong, IInv, Stage, LockDiscipline, Pending, Sound
<1>2. PICK l \in {"publish", "kg_add", "ok", "kg_end"} : Goto(r, l)
  BY DEF RenameCommit, DeleteCommit
<1>3. Extends(db, db')
  <2>1. CASE RenameCommit(r)
    <3>1. input[r].op = "rename" /\ input[r].ident \in Identity /\ Renamed(input[r]).name \in NamePath
      BY <1>1, <2>1, InputFields, RenamedType DEF RenameCommit
    <3>2. LET base == UpsertSymbol(db, input[r].ident)
          IN  db' = RenameSymbol(base, GetSymbol(base, input[r].ident), Renamed(input[r]).name)
      BY <1>1, <2>1, <3>1 DEF RenameCommit, Uncommitted
    <3> QED BY <1>1, <3>1, <3>2, RenameExtends
  <2>2. CASE DeleteCommit(r)
    <3>1. wdb = db
      BY <1>1, <2>2 DEF DeleteCommit, Uncommitted
    <3>2. CASE sym[r] = 0
      BY <1>1, <2>2, <3>1, <3>2, ExtendsSame DEF DeleteCommit
    <3>3. CASE sym[r] # 0
      <4>1. sym[r] \in DOMAIN db.symbols
        BY <1>1, <3>1, <3>3 DEF Database
      <4> QED BY <1>1, <2>2, <3>1, <3>3, <4>1, TombstoneExtends DEF DeleteCommit
    <3> QED BY <3>2, <3>3
  <2> QED BY <2>1, <2>2
<1>4. l \in Pc \ {"serena"} /\ l \notin RowPc /\ Len(db.symbols) <= Len(db'.symbols)
  BY <1>3 DEF RowPc, Extends
<1>5. Strong'
  BY <1>1, <1>2, <1>4, Relocated
<1> QED BY <1>3, <1>5, RenameCommitSeen, DeleteCommitSeen DEF Kept

\* An autocommit statement of one request.
LEMMA Statement ==
  ASSUME Strong, IInv', NEW r \in Request, NEW l \in Pc \ {"serena"}, Goto(r, l),
         UNCHANGED input, \A q \in Request \ {r} : sym'[q] = sym[q],
         l \in RowPc => sym'[r] \in DOMAIN db'.symbols,
         writer = NoOne, Seen, Extends(db, db')
  PROVE  Kept
<1>1. Len(db.symbols) <= Len(db'.symbols)
  BY DEF Extends
<1>2. Strong'
  BY <1>1, Relocated
<1> QED BY <1>2 DEF Kept

\* INSERT INTO symbols.
LEMMA InsertStep ==
  ASSUME Strong, IInv', NEW r \in Request, InsertSymbolRow(r) PROVE Kept
<1>1. /\ input[r].ident \in Identity /\ Sound(db) /\ db \in Database
      /\ sym \in [Request -> Nat] /\ UNCHANGED <<wdb, input>> /\ writer = NoOne
  BY InputFields DEF InsertSymbolRow, Writable, Strong, IInv, TypeOK, Stage, Sound
<1>2. CASE Collides(db, input[r].ident, 0)
  <2>1. Goto(r, "failed") /\ UNCHANGED <<db, sym>>
    BY <1>2 DEF InsertSymbolRow
  <2> QED BY <1>1, <2>1, Quiet DEF RowPc
<1>3. CASE ~Collides(db, input[r].ident, 0)
  <2> DEFINE ident == input[r].ident
  <2>1. /\ Goto(r, "discover") /\ db' = InsertSymbol(db, ident)
        /\ sym' = [sym EXCEPT ![r] = Len(db.symbols) + 1]
    BY <1>3 DEF InsertSymbolRow, NewSymbol
  <2>2. /\ db'.symbols = Append(db.symbols, [ident |-> ident, live |-> TRUE])
        /\ db'.anchors = db.anchors /\ db'.chunks = db.chunks
    BY <1>1, <2>1 DEF InsertSymbol, Database
  <2>3. Seen /\ Len(db'.symbols) = Len(db.symbols) + 1
    BY <1>1, <1>3, <2>2, InsertIsDiscover
  <2>4. Extends(db, db')
    BY <1>1, <2>1, InsertSymbolExtends
  <2>5. sym'[r] = Len(db.symbols) + 1 /\ \A q \in Request \ {r} : sym'[q] = sym[q]
    BY <1>1, <2>1
  <2>6. sym'[r] \in DOMAIN db'.symbols
    <3>1. db'.symbols \in Seq(SymbolRow) /\ Len(db.symbols) \in Nat
      BY <1>1 DEF IInv, Sound, Database
    <3> QED BY <2>3, <2>5, <3>1, LenProperties
  <2> QED BY <1>1, <2>1, <2>3, <2>4, <2>5, <2>6, Statement
<1> QED BY <1>2, <1>3

\* The rows the ledger gets outside a transaction.
LEMMA LedgerStep ==
  ASSUME Strong, IInv', NEW r \in Request, Discover(r) \/ Trace(r) PROVE Kept
<1>1. /\ input[r] \in Input /\ db \in Database /\ sym[r] \in Nat /\ writer = NoOne
      /\ UNCHANGED <<wdb, input, sym>>
  BY DEF Discover, Trace, Writable, Strong, IInv, TypeOK, Stage, Sound, local
<1>2. PICK l \in {"anchor_select", "ok", "purge"} : Goto(r, l)
  BY DEF Discover, Trace
<1>3. \E source \in Source, old \in NamePath \cup {NoName}, new \in NamePath \cup {NoName} :
        db' = AppendHistory(db, sym[r], source, old, new)
  <2>1. CASE Discover(r)
    <3>1. input[r].ident.name \in NamePath
      BY <2>1, InputFields DEF Discover, Strong, IInv, Stage, Identity
    <3> QED BY <2>1, <3>1 DEF Discover, DiscoverSymbol, Source
  <2>2. CASE Trace(r)
    BY <2>2 DEF Trace, Source
  <2> QED BY <2>1, <2>2
<1>4. Extends(db, db')
  BY <1>1, <1>3, AppendHistoryExtends
<1>5. db'.symbols = db.symbols /\ db'.anchors = db.anchors /\ db'.chunks = db.chunks
  BY <1>1, <1>3 DEF AppendHistory, Database
<1>6. Seen
  BY <1>5 DEF Seen, LL!vars
<1>7. l \in RowPc => sym'[r] \in DOMAIN db'.symbols
  BY <1>1, <1>2, <1>5 DEF Discover, Trace, Strong, RowBound, RowPc, Goto, IInv, TypeOK
<1> QED BY <1>1, <1>2, <1>4, <1>6, <1>7, Statement

\* INSERT INTO anchors_symbol_memory.
LEMMA AttachStep ==
  ASSUME Strong, IInv', NEW r \in Request, AnchorInsert(r) PROVE Kept
<1> DEFINE s == sym[r]
           d == input[r].drawer
<1>1. /\ d \in Drawer /\ db \in Database /\ s \in DOMAIN db.symbols /\ writer = NoOne
      /\ UNCHANGED <<wdb, input, sym>>
  BY InputFields DEF AnchorInsert, Writable, Strong, RowBound, RowPc, IInv, TypeOK, Stage, Sound, local
<1>2. CASE HasAnchor(db, s, d)
  BY <1>1, <1>2, Quiet DEF AnchorInsert, RowPc
<1>3. CASE ~HasAnchor(db, s, d)
  <2> DEFINE row == [id |-> db.lastAnchor + 1, sym |-> s, drawer |-> d]
  <2>1. db' = InsertAnchor(db, s, d) /\ Goto(r, "ok")
    BY <1>3 DEF AnchorInsert
  <2>2. /\ db'.symbols = db.symbols /\ db'.history = db.history /\ db'.chunks = db.chunks
        /\ db'.anchors = db.anchors \cup {row}
    BY <1>1, <2>1 DEF InsertAnchor, Database
  <2>3. {[sym |-> a.sym, drawer |-> a.drawer] : a \in db'.anchors}
          = {[sym |-> a.sym, drawer |-> a.drawer] : a \in db.anchors} \cup {[sym |-> s, drawer |-> d]}
    <3>1. row.sym = s /\ row.drawer = d
      OBVIOUS
    <3> HIDE DEF row, s, d
    <3> QED BY <2>2, <3>1
  <2>4. \E t \in DOMAIN db.symbols : LL!Tombstone(t) \/ \E e \in Drawer : LL!Attach(t, e)
    <3>1. PICK t \in DOMAIN db.symbols, e \in Drawer : t = s /\ e = d
      BY <1>1
    <3>2. LL!Attach(t, e)
      BY <2>2, <2>3, <3>1 DEF LL!Attach
    <3> QED BY <3>2
  <2>5. LL!Next
    BY <2>4 DEF LL!Next
  <2>6. Seen
    BY <2>5 DEF Seen
  <2> QED BY <1>1, <2>1, <2>2, <2>6, Statement, ExtendsSame DEF RowPc
<1> QED BY <1>2, <1>3

\* INSERT INTO anchors_memory_chunk.
LEMMA ChunkStep ==
  ASSUME Strong, IInv', NEW r \in Request, ChunkInsert(r) PROVE Kept
<1> DEFINE d == input[r].drawer
           c == input[r].chunk
<1>1. /\ d \in Drawer /\ c \in Chunk /\ db \in Database /\ writer = NoOne
      /\ UNCHANGED <<wdb, input, sym>>
  BY InputFields DEF ChunkInsert, Writable, Strong, IInv, TypeOK, Stage, Sound, local
<1>2. CASE HasChunkAnchor(db, d, c)
  BY <1>1, <1>2, Quiet DEF ChunkInsert, RowPc
<1>3. CASE ~HasChunkAnchor(db, d, c)
  <2>1. db' = InsertChunkAnchor(db, d, c) /\ Goto(r, "ok")
    BY <1>3 DEF ChunkInsert
  <2>2. /\ db'.symbols = db.symbols /\ db'.history = db.history /\ db'.anchors = db.anchors
        /\ db'.chunks = db.chunks \cup {[drawer |-> d, chunk |-> c]}
    BY <1>1, <2>1 DEF InsertChunkAnchor, Database
  <2>3. LL!AttachChunk(d, c)
    BY <2>2 DEF LL!AttachChunk
  <2>4. Seen
    BY <1>1, <2>3 DEF Seen, LL!Next
  <2> QED BY <1>1, <2>1, <2>2, <2>4, Statement, ExtendsSame DEF RowPc
<1> QED BY <1>2, <1>3

\* DELETE FROM anchors_symbol_memory.
LEMMA DetachStep ==
  ASSUME Strong, IInv', NEW r \in Request, Purge(r) PROVE Kept
<1>1. PICK a \in stale[r] : db' = DeleteAnchor(db, a.id) /\ sym' = [sym EXCEPT ![r] = a.sym]
  BY DEF Purge
<1>2. /\ Goto(r, "trace") /\ UNCHANGED <<wdb, input>> /\ writer = NoOne
      /\ Sound(db) /\ db \in Database /\ sym \in [Request -> Nat]
  BY DEF Purge, Writable, Strong, IInv, TypeOK, Sound
<1>3. db'.symbols = db.symbols /\ db'.history = db.history
  BY <1>1, <1>2 DEF DeleteAnchor, Database
<1>4. Seen
  BY <1>1, <1>2, DeleteIsDetach
<1>5. \A q \in Request \ {r} : sym'[q] = sym[q]
  BY <1>1, <1>2
<1> QED BY <1>2, <1>3, <1>4, <1>5, Statement, ExtendsSame DEF RowPc

\* Upstreams, cancellations and crashes leave the committed database alone, and a
\* transaction that survives them is the one that was open.
LEMMA OutsideStep ==
  ASSUME Strong, IInv', UNCHANGED <<db, input, sym>>,
         \A q \in Request : pc'[q] \in {pc[q], "lost"},
         writer' = writer => wdb' = wdb
  PROVE  Kept
<1>1. db \in Database
  BY DEF Strong, IInv, Sound
<1>2. RowBound'
  BY DEF Strong, RowBound, RowPc
<1>3. Pending'
  <2> SUFFICES ASSUME NEW q \in Request, pc'[q] = "serena" PROVE Uncommitted(q)'
    BY DEF Pending
  <2>1. pc[q] = "serena" /\ writer = q /\ writer' = q
    BY DEF Strong, IInv, LockDiscipline
  <2> QED BY <2>1 DEF Strong, Pending, Uncommitted
<1> QED BY <1>1, <1>2, <1>3, Unnoticed, ExtendsSame DEF Kept, Strong

-----------------------------------------------------------------------------
(* The theorems. *)

\* Every step keeps Strong, is one operation for a reader, and extends the database.
LEMMA StrongStep ==
  ASSUME Strong, [Next]_vars PROVE Kept
<1>1. IInv'
  BY NextIInv DEF Strong
<1>2. ASSUME NEW r \in Request, Accept(r) \/ Handle(r) \/ LockTimeout(r) PROVE Kept
  BY <1>1, <1>2, LabelSteps, SelectStep, RowSteps, BeginStep, CommitStep, InsertStep, LedgerStep,
     AttachStep, ChunkStep, DetachStep
     DEF Handle
<1>3. ASSUME NEW r \in Request, Upstream(r) PROVE Kept
  BY <1>1, <1>3, OutsideStep DEF Upstream, SerenaActs, MemPalaceStores, Refuse, store, local
<1>4. ASSUME NEW r \in Request, Cancel(r) PROVE Kept
  <2>1. \A q \in Request : pc'[q] \in {pc[q], "lost"}
    BY <1>4 DEF Cancel, Goto, Strong, IInv, TypeOK
  <2>2. writer' = writer => wdb' = wdb
    BY <1>4, NoOneAssumption DEF Cancel, ReleaseIfHeldBy
  <2> QED BY <1>1, <1>4, <2>1, <2>2, OutsideStep DEF Cancel, local
<1>5. ASSUME NEW s \in Server, Crash(s) PROVE Kept
  <2>1. \A q \in Request : pc'[q] \in {pc[q], "lost"}
    BY <1>5 DEF Crash
  <2>2. writer' = writer => wdb' = wdb
    BY <1>5, NoOneAssumption DEF Crash, ReleaseIfHeldBy, InFlight
  <2> QED BY <1>1, <1>5, <2>1, <2>2, OutsideStep DEF Crash, local
<1>6. ASSUME NEW d \in Drawer, DeleteDrawer(d) \/ StoreDrawer(d) PROVE Kept
  BY <1>1, <1>6, OutsideStep DEF DeleteDrawer, StoreDrawer, store, local
<1>7. CASE UNCHANGED vars
  BY <1>1, <1>7, OutsideStep DEF vars, store, local
<1> QED BY <1>2, <1>3, <1>4, <1>5, <1>6, <1>7 DEF Next

\* Initially no transaction is open and the abstract state is the given one.
LEMMA StrongInit == Init => Strong /\ LL!Init
<1> SUFFICES ASSUME Init PROVE Strong /\ LL!Init
  OBVIOUS
<1>1. RowBound /\ Pending
  BY DEF Init, RowBound, RowPc, Pending
<1>2. LL!Init
  BY DEF Init, LL!Init
<1> QED BY <1>1, <1>2, InitIInv DEF Strong

\* What is still to be committed and what an anchoring relies on, in every reachable state.
LEMMA StrongInvariance == Spec => []Strong
<1>1. Strong /\ [Next]_vars => Strong'
  BY StrongStep DEF Kept
<1> QED BY <1>1, StrongInit, PTL DEF Spec

\* The write path, with its transactions, crashes and cancellations, is the Link Layer of
\* atomic operations to whoever reads the committed tables.
THEOREM Refinement == Spec => ImplementsLinkLayer
<1>1. Strong /\ [Next]_vars => [LL!Next]_LL!vars
  BY StrongStep DEF Kept, Seen
<1> QED BY <1>1, StrongInit, StrongInvariance, PTL DEF Spec, ImplementsLinkLayer, LL!Spec

\* No commit overwrites what another connection committed: the ledger only grows, no
\* symbol row disappears and no tombstoned row changes.
THEOREM NothingOverwritten == Spec => LedgerAppendOnly
<1>1. Strong /\ [Next]_vars =>
        [/\ IsPrefixOf(db.history, db'.history)
         /\ Len(db.symbols) <= Len(db'.symbols)
         /\ \A s \in DOMAIN db.symbols : ~db.symbols[s].live => db'.symbols[s] = db.symbols[s]]_db
  BY StrongStep DEF Kept, Extends
<1> QED BY <1>1, StrongInit, StrongInvariance, PTL DEF Spec, LedgerAppendOnly
=============================================================================
