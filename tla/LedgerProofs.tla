---------------------------- MODULE LedgerProofs ----------------------------
(***************************************************************************)
(* What the tables say is what happened: symbol_history retells the life   *)
(* of every symbol, and each rename and deletion in it was performed by    *)
(* Serena and announced.                                                   *)
(*                                                                         *)
(* Strong of LinkLayerProofs says what an open transaction will publish;   *)
(* here it is related to the rows of the ledger, request by request.       *)
(***************************************************************************)
EXTENDS LinkLayerProofs, FiniteSetTheorems

USE DEF Pc, AwaitPc, SyncPc, WritePc, DonePc

-----------------------------------------------------------------------------
(* The ledger of one database. *)

\* Every row of the ledger is about a symbol that has a row.
RowsOwned(d) == \A k \in DOMAIN d.history : d.history[k].sym \in DOMAIN d.symbols

\* The ledger leads from this name to the current row of symbol s.
BornAs(d, s, name) ==
  /\ \A k \in DOMAIN d.history :
       (FirstMove(d, k) /\ d.history[k].sym = s) => d.history[k].old = name
  /\ (\A k \in DOMAIN d.history : IsMove(d, k) => d.history[k].sym # s)
       => d.symbols[s].live /\ d.symbols[s].ident.name = name

Ledger(d) == LedgerFollows(d) /\ RowsOwned(d)

\* Database e has the ledger of d and one row more.
AddsRow(d, e, row) ==
  /\ Len(d.history) \in Nat /\ Len(e.history) = Len(d.history) + 1
  /\ DOMAIN d.history = 1..Len(d.history) /\ DOMAIN e.history = 1..(Len(d.history) + 1)
  /\ \A k \in 1..Len(d.history) : e.history[k] = d.history[k]
  /\ e.history[Len(d.history) + 1] = row

\* Appending a row to the ledger, element by element.
LEMMA AppendAddsRow ==
  ASSUME NEW d \in Database, NEW e, NEW row \in HistoryRow, e.history = Append(d.history, row)
  PROVE  AddsRow(d, e, row)
<1>1. d.history \in Seq(HistoryRow)
  BY DEF Database
<1>2. /\ Append(d.history, row) \in Seq(HistoryRow)
      /\ Len(Append(d.history, row)) = Len(d.history) + 1
      /\ \A k \in 1..Len(d.history) : Append(d.history, row)[k] = d.history[k]
      /\ Append(d.history, row)[Len(d.history) + 1] = row
  BY <1>1, AppendProperties
<1>3. /\ Len(d.history) \in Nat /\ DOMAIN d.history = 1..Len(d.history)
      /\ DOMAIN Append(d.history, row) = 1..Len(Append(d.history, row))
  BY <1>1, <1>2, LenProperties
<1> QED BY <1>2, <1>3 DEF AddsRow

\* A row that is no move leaves first, last and next moves as they were.
LEMMA MovesKept ==
  ASSUME NEW d, NEW e, NEW row, AddsRow(d, e, row), row.source \notin MoveSource
  PROVE  /\ \A k \in DOMAIN e.history : IsMove(e, k) => k \in DOMAIN d.history /\ IsMove(d, k)
         /\ \A k \in DOMAIN d.history : IsMove(d, k) => k \in DOMAIN e.history /\ IsMove(e, k)
         /\ \A k \in DOMAIN e.history : FirstMove(e, k) => FirstMove(d, k)
         /\ \A k \in DOMAIN e.history : LastMove(e, k) => LastMove(d, k)
         /\ \A j, k \in DOMAIN e.history : NextMove(e, j, k) => NextMove(d, j, k)
<1> DEFINE n == Len(d.history)
<1>1. /\ n \in Nat /\ DOMAIN d.history = 1..n /\ DOMAIN e.history = 1..(n + 1)
      /\ \A k \in 1..n : e.history[k] = d.history[k]
      /\ Len(e.history) = n + 1 /\ ~IsMove(e, n + 1)
  BY DEF AddsRow, IsMove
<1> HIDE DEF n
<1>2. \A k \in 1..(n + 1) : IsMove(e, k) => k \in 1..n /\ IsMove(d, k)
  <2> SUFFICES ASSUME NEW k \in 1..(n + 1), IsMove(e, k) PROVE k \in 1..n /\ IsMove(d, k)
    OBVIOUS
  <2>1. k # n + 1
    BY <1>1
  <2>2. k \in 1..n
    BY <1>1, <2>1
  <2> QED BY <1>1, <2>2 DEF IsMove
<1>3. \A k \in 1..n : IsMove(d, k) => IsMove(e, k)
  BY <1>1 DEF IsMove
<1>4. ASSUME NEW k \in 1..(n + 1), FirstMove(e, k) PROVE FirstMove(d, k)
  <2>1. k \in 1..n /\ IsMove(d, k)
    BY <1>2, <1>4 DEF FirstMove
  <2>2. ASSUME NEW m \in 1..(k - 1), IsMove(d, m), d.history[m].sym = d.history[k].sym PROVE FALSE
    <3>1. m \in 1..n
      BY <1>1, <2>1
    <3> QED BY <1>1, <1>3, <1>4, <2>1, <2>2, <3>1 DEF FirstMove
  <2> QED BY <2>1, <2>2 DEF FirstMove
<1>5. ASSUME NEW k \in 1..(n + 1), LastMove(e, k) PROVE LastMove(d, k)
  <2>1. k \in 1..n /\ IsMove(d, k)
    BY <1>2, <1>5 DEF LastMove
  <2>2. ASSUME NEW m \in (k + 1)..n, IsMove(d, m), d.history[m].sym = d.history[k].sym PROVE FALSE
    <3>1. m \in 1..n /\ m \in (k + 1)..(n + 1)
      BY <1>1, <2>1
    <3> QED BY <1>1, <1>3, <1>5, <2>1, <2>2, <3>1 DEF LastMove
  <2> QED BY <2>1, <2>2 DEF LastMove, n
<1>6. ASSUME NEW j \in 1..(n + 1), NEW k \in 1..(n + 1), NextMove(e, j, k) PROVE NextMove(d, j, k)
  <2>0. /\ j < k /\ IsMove(e, j) /\ IsMove(e, k) /\ e.history[j].sym = e.history[k].sym
        /\ \A m \in (j + 1)..(k - 1) : IsMove(e, m) => e.history[m].sym # e.history[j].sym
    BY <1>6 DEF NextMove
  <2>1. j \in 1..n /\ k \in 1..n /\ IsMove(d, j) /\ IsMove(d, k) /\ j < k
    BY <1>2, <2>0
  <2>2. d.history[j].sym = d.history[k].sym
    BY <1>1, <2>0, <2>1
  <2>3. ASSUME NEW m \in (j + 1)..(k - 1), IsMove(d, m), d.history[m].sym = d.history[j].sym PROVE FALSE
    <3>1. m \in 1..n
      BY <1>1, <2>1
    <3>2. IsMove(e, m) /\ e.history[m] = d.history[m] /\ e.history[j] = d.history[j]
      BY <1>1, <1>3, <2>1, <2>3, <3>1
    <3> QED BY <2>0, <2>3, <3>2
  <2> QED BY <2>1, <2>2, <2>3 DEF NextMove
<1> QED BY <1>1, <1>2, <1>3, <1>4, <1>5, <1>6

\* The four things a ledger that retells the lives of the symbols says: the name each life
\* began with, that each move starts where the one before ended, what the last move left,
\* and that there is no death without a row.
LivesBegin(d) ==
  \A b \in DOMAIN d.history :
    d.history[b].source = "discovery" => BornAs(d, d.history[b].sym, d.history[b].new)
MovesConnect(d) ==
  \A j, k \in DOMAIN d.history :
    NextMove(d, j, k) => /\ d.history[j].source = "engram-rename"
                         /\ d.history[j].new = d.history[k].old
Leaves(d, row) ==
  IF row.source = "engram-rename"
  THEN d.symbols[row.sym].live /\ d.symbols[row.sym].ident.name = row.new
  ELSE ~d.symbols[row.sym].live /\ d.symbols[row.sym].ident.name = row.old
LivesEnd(d) ==
  \A k \in DOMAIN d.history : LastMove(d, k) => Leaves(d, d.history[k])
DeathsTold(d) ==
  \A s \in DOMAIN d.symbols :
    ~d.symbols[s].live => \E k \in DOMAIN d.history : /\ d.history[k].sym = s
                                                      /\ d.history[k].source = "engram-delete"

\* These four are what LedgerFollows says.
LEMMA LedgerParts ==
  ASSUME NEW d
  PROVE  LedgerFollows(d) <=> LivesBegin(d) /\ MovesConnect(d) /\ LivesEnd(d) /\ DeathsTold(d)
<1> DEFINE Begin ==
             /\ \A b, k \in DOMAIN d.history :
                  (/\ d.history[b].source = "discovery" /\ FirstMove(d, k)
                   /\ d.history[b].sym = d.history[k].sym)
                     => d.history[b].new = d.history[k].old
             /\ \A b \in DOMAIN d.history :
                  (/\ d.history[b].source = "discovery"
                   /\ \A k \in DOMAIN d.history : IsMove(d, k) => d.history[k].sym # d.history[b].sym)
                     => /\ d.symbols[d.history[b].sym].live
                        /\ d.symbols[d.history[b].sym].ident.name = d.history[b].new
           End ==
             \A k \in DOMAIN d.history :
               LastMove(d, k) =>
                 LET last == d.history[k]
                     now == d.symbols[last.sym]
                 IN IF last.source = "engram-rename"
                    THEN now.live /\ now.ident.name = last.new
                    ELSE ~now.live /\ now.ident.name = last.old
<1>1. LivesBegin(d) <=> Begin
  BY DEF LivesBegin, BornAs
<1>2. LivesEnd(d) <=> End
  BY Zenon DEF LivesEnd, Leaves
<1>3. LedgerFollows(d) <=> Begin /\ MovesConnect(d) /\ End /\ DeathsTold(d)
  BY Zenon DEF LedgerFollows, MovesConnect, DeathsTold
<1> QED BY <1>1, <1>2, <1>3

\* A row of discovery or of the reconciler fits the ledger when what it says of the birth
\* of its symbol is right.
LEMMA QuietRow ==
  ASSUME NEW d, NEW e, NEW row, AddsRow(d, e, row), row.source \notin MoveSource,
         e.symbols = d.symbols, row.sym \in DOMAIN d.symbols, Ledger(d),
         row.source = "discovery" => BornAs(d, row.sym, row.new)
  PROVE  /\ Ledger(e)
         /\ \A s, name : BornAs(d, s, name) => BornAs(e, s, name)
<1> DEFINE n == Len(d.history)
<1>1. /\ n \in Nat /\ DOMAIN d.history = 1..n /\ DOMAIN e.history = 1..(n + 1)
      /\ \A k \in 1..n : e.history[k] = d.history[k]
      /\ e.history[n + 1] = row
  BY DEF AddsRow
<1> HIDE DEF n
<1>2. \A k \in 1..(n + 1) : k \in 1..n \/ k = n + 1
  BY <1>1
<1>3. RowsOwned(e)
  BY <1>1, <1>2 DEF RowsOwned, Ledger
<1>4. ASSUME NEW s, NEW name, BornAs(d, s, name) PROVE BornAs(e, s, name)
  <2>1. ASSUME NEW k \in DOMAIN e.history, FirstMove(e, k), e.history[k].sym = s
        PROVE  e.history[k].old = name
    <3>1. FirstMove(d, k) /\ k \in DOMAIN d.history
      BY <2>1, MovesKept DEF FirstMove
    <3> QED BY <1>1, <1>4, <2>1, <3>1 DEF BornAs
  <2>2. ASSUME \A k \in DOMAIN e.history : IsMove(e, k) => e.history[k].sym # s
        PROVE  e.symbols[s].live /\ e.symbols[s].ident.name = name
    <3>1. \A k \in DOMAIN d.history : IsMove(d, k) => d.history[k].sym # s
      BY <1>1, <2>2, MovesKept
    <3> QED BY <1>4, <3>1 DEF BornAs
  <2> QED BY <2>1, <2>2 DEF BornAs
<1>5. LivesBegin(d) /\ MovesConnect(d) /\ LivesEnd(d) /\ DeathsTold(d)
  BY LedgerParts DEF Ledger
<1>6. LivesBegin(e)
  <2> SUFFICES ASSUME NEW b \in DOMAIN e.history, e.history[b].source = "discovery"
               PROVE  BornAs(e, e.history[b].sym, e.history[b].new)
    BY DEF LivesBegin
  <2>1. CASE b = n + 1
    BY <1>1, <1>4, <2>1
  <2>2. CASE b \in 1..n
    <3>1. b \in DOMAIN d.history /\ e.history[b] = d.history[b]
      BY <1>1, <2>2
    <3>2. BornAs(d, d.history[b].sym, d.history[b].new)
      BY <1>5, <3>1 DEF LivesBegin
    <3> QED BY <1>4, <3>1, <3>2
  <2> QED BY <1>1, <1>2, <2>1, <2>2
<1>7. MovesConnect(e)
  <2> SUFFICES ASSUME NEW j \in DOMAIN e.history, NEW k \in DOMAIN e.history, NextMove(e, j, k)
               PROVE  e.history[j].source = "engram-rename" /\ e.history[j].new = e.history[k].old
    BY DEF MovesConnect
  <2>1. NextMove(d, j, k) /\ j \in DOMAIN d.history /\ k \in DOMAIN d.history
    BY MovesKept DEF NextMove
  <2>2. e.history[j] = d.history[j] /\ e.history[k] = d.history[k]
    BY <1>1, <2>1
  <2> QED BY <1>5, <2>1, <2>2 DEF MovesConnect
<1>8. LivesEnd(e)
  <2> SUFFICES ASSUME NEW k \in DOMAIN e.history, LastMove(e, k) PROVE Leaves(e, e.history[k])
    BY DEF LivesEnd
  <2>1. LastMove(d, k) /\ k \in DOMAIN d.history
    BY MovesKept DEF LastMove
  <2>2. e.history[k] = d.history[k]
    BY <1>1, <2>1
  <2>3. Leaves(d, d.history[k])
    BY <1>5, <2>1 DEF LivesEnd
  <2> QED BY <2>2, <2>3 DEF Leaves
<1>9. DeathsTold(e)
  <2> SUFFICES ASSUME NEW s \in DOMAIN e.symbols, ~e.symbols[s].live
               PROVE  \E k \in DOMAIN e.history : /\ e.history[k].sym = s
                                                  /\ e.history[k].source = "engram-delete"
    BY DEF DeathsTold
  <2>1. PICK k \in DOMAIN d.history : d.history[k].sym = s /\ d.history[k].source = "engram-delete"
    BY <1>5 DEF DeathsTold
  <2>2. k \in DOMAIN e.history /\ e.history[k] = d.history[k]
    BY <1>1, <2>1
  <2> QED BY <2>1, <2>2
<1> QED BY <1>3, <1>4, <1>6, <1>7, <1>8, <1>9, LedgerParts DEF Ledger

\* A symbol row that is added to the table is born with the name it was inserted under.
LEMMA NewRow ==
  ASSUME NEW d, NEW e, NEW ident, Ledger(d), e.history = d.history,
         d.symbols \in Seq(SymbolRow),
         DOMAIN e.symbols = 1..(Len(d.symbols) + 1),
         \A s \in DOMAIN d.symbols : e.symbols[s] = d.symbols[s],
         e.symbols[Len(d.symbols) + 1] = [ident |-> ident, live |-> TRUE]
  PROVE  /\ Ledger(e)
         /\ \A s \in DOMAIN d.symbols : \A name : BornAs(d, s, name) => BornAs(e, s, name)
         /\ BornAs(e, Len(d.symbols) + 1, ident.name)
<1> DEFINE n == Len(d.symbols)
<1>1. n \in Nat /\ DOMAIN d.symbols = 1..n
  BY LenProperties
<1>2. /\ \A k : IsMove(e, k) <=> IsMove(d, k)
      /\ \A k : FirstMove(e, k) <=> FirstMove(d, k)
      /\ \A k : LastMove(e, k) <=> LastMove(d, k)
      /\ \A j, k : NextMove(e, j, k) <=> NextMove(d, j, k)
  BY DEF IsMove, FirstMove, LastMove, NextMove
<1>3. \A k \in DOMAIN e.history :
        /\ e.history[k].sym \in DOMAIN d.symbols /\ e.history[k].sym # n + 1
        /\ e.symbols[e.history[k].sym] = d.symbols[e.history[k].sym]
  BY <1>1 DEF Ledger, RowsOwned
<1>4. RowsOwned(e)
  BY <1>1, <1>3 DEF RowsOwned
<1>5. ASSUME NEW s \in DOMAIN d.symbols, NEW name, BornAs(d, s, name) PROVE BornAs(e, s, name)
  <2> DEFINE h == d.history
  <2>1. e.history = h /\ d.history = h /\ e.symbols[s] = d.symbols[s]
    OBVIOUS
  <2> HIDE DEF h
  <2>2. ASSUME NEW k \in DOMAIN h, FirstMove(e, k), h[k].sym = s PROVE h[k].old = name
    BY <1>2, <1>5, <2>1, <2>2 DEF BornAs
  <2>3. ASSUME \A k \in DOMAIN h : IsMove(e, k) => h[k].sym # s
        PROVE  e.symbols[s].live /\ e.symbols[s].ident.name = name
    BY <1>2, <1>5, <2>1, <2>3 DEF BornAs
  <2> QED BY <2>1, <2>2, <2>3 DEF BornAs
<1>6. BornAs(e, n + 1, ident.name)
  BY <1>3 DEF BornAs
<1>7. LivesBegin(d) /\ MovesConnect(d) /\ LivesEnd(d) /\ DeathsTold(d)
  BY LedgerParts DEF Ledger
<1>8. LivesBegin(e)
  <2> SUFFICES ASSUME NEW b \in DOMAIN e.history, e.history[b].source = "discovery"
               PROVE  BornAs(e, e.history[b].sym, e.history[b].new)
    BY DEF LivesBegin
  <2>1. e.history[b] = d.history[b] /\ b \in DOMAIN d.history /\ d.history[b].sym \in DOMAIN d.symbols
    BY <1>3
  <2>2. BornAs(d, d.history[b].sym, d.history[b].new)
    BY <1>7, <2>1 DEF LivesBegin
  <2> QED BY <1>5, <2>1, <2>2
<1>9. MovesConnect(e)
  BY <1>2, <1>7 DEF MovesConnect
<1>10. LivesEnd(e)
  <2> SUFFICES ASSUME NEW k \in DOMAIN e.history, LastMove(e, k) PROVE Leaves(e, e.history[k])
    BY DEF LivesEnd
  <2>1. LastMove(d, k) /\ k \in DOMAIN d.history /\ e.history[k] = d.history[k]
    BY <1>2
  <2>2. Leaves(d, d.history[k])
    BY <1>7, <2>1 DEF LivesEnd
  <2>3. e.symbols[d.history[k].sym] = d.symbols[d.history[k].sym]
    BY <1>3, <2>1
  <2> QED BY <2>1, <2>2, <2>3 DEF Leaves
<1>11. DeathsTold(e)
  <2> SUFFICES ASSUME NEW s \in DOMAIN e.symbols, ~e.symbols[s].live
               PROVE  \E k \in DOMAIN e.history : /\ e.history[k].sym = s
                                                  /\ e.history[k].source = "engram-delete"
    BY DEF DeathsTold
  <2>1. s \in DOMAIN d.symbols /\ ~d.symbols[s].live
    BY <1>1
  <2> QED BY <1>7, <2>1 DEF DeathsTold
<1> QED BY <1>4, <1>5, <1>6, <1>8, <1>9, <1>10, <1>11, LedgerParts DEF Ledger

\* A rename or delete row fits the ledger when it takes a live row from its name to what
\* the table says afterwards.
LEMMA MoveRowFits ==
  ASSUME NEW d, NEW e, NEW row, AddsRow(d, e, row), row.source \in MoveSource, Ledger(d),
         row.sym \in DOMAIN d.symbols, d.symbols[row.sym].live,
         row.old = d.symbols[row.sym].ident.name,
         DOMAIN e.symbols = DOMAIN d.symbols,
         \A t \in DOMAIN d.symbols : t # row.sym => e.symbols[t] = d.symbols[t],
         IF row.source = "engram-rename"
         THEN e.symbols[row.sym].live /\ e.symbols[row.sym].ident.name = row.new
         ELSE ~e.symbols[row.sym].live /\ e.symbols[row.sym].ident.name = row.old
  PROVE  /\ Ledger(e)
         /\ \A s \in DOMAIN d.symbols : \A name : BornAs(d, s, name) => BornAs(e, s, name)
<1> DEFINE n == Len(d.history)
           s == row.sym
<1>1. /\ n \in Nat /\ DOMAIN d.history = 1..n /\ DOMAIN e.history = 1..(n + 1)
      /\ \A k \in 1..n : e.history[k] = d.history[k] /\ k \in 1..(n + 1)
      /\ e.history[n + 1] = row /\ Len(e.history) = n + 1
      /\ \A k \in 1..(n + 1) : k \in 1..n \/ k = n + 1
  BY DEF AddsRow
<1>0. Len(d.history) = n
  OBVIOUS
<1> HIDE DEF n
<1>2. /\ IsMove(e, n + 1)
      /\ \A k \in 1..n : IsMove(e, k) <=> IsMove(d, k)
  BY <1>1 DEF IsMove
<1>3. ASSUME NEW k \in 1..n, FirstMove(e, k) PROVE FirstMove(d, k)
  <2>1. ASSUME NEW m \in 1..(k - 1), IsMove(d, m), d.history[m].sym = d.history[k].sym PROVE FALSE
    <3>1. m \in 1..n
      BY <1>1
    <3> QED BY <1>1, <1>2, <1>3, <2>1, <3>1 DEF FirstMove
  <2> QED BY <1>2, <1>3, <2>1 DEF FirstMove
<1>4. ASSUME NEW k, k = n + 1, FirstMove(e, k), NEW m \in 1..n, IsMove(d, m)
      PROVE  d.history[m].sym # s
  <2>1. m \in 1..(k - 1) /\ IsMove(e, m)
    BY <1>1, <1>2, <1>4
  <2>2. e.history[m].sym # e.history[k].sym
    BY <1>4, <2>1 DEF FirstMove
  <2> QED BY <1>1, <1>4, <2>2
<1>5. ASSUME NEW k \in 1..n, LastMove(e, k) PROVE LastMove(d, k) /\ d.history[k].sym # s
  <2>1. n + 1 \in (k + 1)..Len(e.history)
    BY <1>1
  <2>2. e.history[k].sym # s
    BY <1>1, <1>2, <1>5, <2>1 DEF LastMove
  <2>3. ASSUME NEW m \in (k + 1)..n, IsMove(d, m), d.history[m].sym = d.history[k].sym PROVE FALSE
    <3>1. m \in 1..n /\ m \in (k + 1)..Len(e.history)
      BY <1>1
    <3> QED BY <1>1, <1>2, <1>5, <2>3, <3>1 DEF LastMove
  <2> QED BY <1>0, <1>1, <1>2, <1>5, <2>2, <2>3 DEF LastMove
<1>6. ASSUME NEW j \in 1..n, NEW k \in 1..n, NextMove(e, j, k) PROVE NextMove(d, j, k)
  <2>1. ASSUME NEW m \in (j + 1)..(k - 1), IsMove(d, m), d.history[m].sym = d.history[j].sym PROVE FALSE
    <3>1. m \in 1..n
      BY <1>1
    <3> QED BY <1>1, <1>2, <1>6, <2>1, <3>1 DEF NextMove
  <2> QED BY <1>1, <1>2, <1>6, <2>1 DEF NextMove
<1>7. ASSUME NEW j \in 1..n, NextMove(e, j, n + 1) PROVE LastMove(d, j) /\ d.history[j].sym = s
  <2>1. IsMove(d, j) /\ d.history[j].sym = s
    BY <1>1, <1>2, <1>7 DEF NextMove
  <2>2. ASSUME NEW m \in (j + 1)..n, IsMove(d, m), d.history[m].sym = d.history[j].sym PROVE FALSE
    <3>1. m \in 1..n /\ m \in (j + 1)..(n + 1 - 1)
      BY <1>1
    <3> QED BY <1>1, <1>2, <1>7, <2>2, <3>1 DEF NextMove
  <2> QED BY <1>0, <2>1, <2>2 DEF LastMove
<1>8. RowsOwned(e)
  BY <1>1 DEF RowsOwned, Ledger
\* births
<1>9. ASSUME NEW t \in DOMAIN d.symbols, NEW name, BornAs(d, t, name) PROVE BornAs(e, t, name)
  <2>1. ASSUME NEW k \in DOMAIN e.history, FirstMove(e, k), e.history[k].sym = t
        PROVE  e.history[k].old = name
    <3>1. CASE k \in 1..n
      BY <1>1, <1>3, <1>9, <2>1, <3>1 DEF BornAs
    <3>2. CASE k = n + 1
      <4>1. t = s /\ \A m \in 1..n : IsMove(d, m) => d.history[m].sym # t
        BY <1>1, <1>4, <2>1, <3>2
      <4>2. d.symbols[t].ident.name = name
        BY <1>1, <1>9, <4>1 DEF BornAs
      <4> QED BY <1>1, <3>2, <4>1, <4>2
    <3> QED BY <1>1, <2>1, <3>1, <3>2
  <2>2. ASSUME \A k \in DOMAIN e.history : IsMove(e, k) => e.history[k].sym # t
        PROVE  e.symbols[t].live /\ e.symbols[t].ident.name = name
    <3>1. t # s
      BY <1>1, <1>2, <2>2
    <3>2. \A k \in 1..n : IsMove(d, k) => d.history[k].sym # t
      BY <1>1, <1>2, <2>2
    <3>3. d.symbols[t].live /\ d.symbols[t].ident.name = name
      BY <1>1, <1>9, <3>2 DEF BornAs
    <3> QED BY <3>1, <3>3
  <2> QED BY <2>1, <2>2 DEF BornAs
<1>10. LivesBegin(d) /\ MovesConnect(d) /\ LivesEnd(d) /\ DeathsTold(d)
  BY LedgerParts DEF Ledger
<1>11. ASSUME NEW k \in 1..n PROVE k \in DOMAIN d.history /\ e.history[k] = d.history[k]
  BY <1>1
<1>12. LivesBegin(e)
  <2> SUFFICES ASSUME NEW b \in DOMAIN e.history, e.history[b].source = "discovery"
               PROVE  BornAs(e, e.history[b].sym, e.history[b].new)
    BY DEF LivesBegin
  <2>1. b \in 1..n
    BY <1>1 DEF MoveSource
  <2>2. b \in DOMAIN d.history /\ e.history[b] = d.history[b]
    BY <1>11, <2>1
  <2>3. BornAs(d, d.history[b].sym, d.history[b].new)
    BY <1>10, <2>2 DEF LivesBegin
  <2>4. d.history[b].sym \in DOMAIN d.symbols
    BY <2>2 DEF Ledger, RowsOwned
  <2> QED BY <1>9, <2>2, <2>3, <2>4
\* the chain of moves
<1>13. MovesConnect(e)
  <2> SUFFICES ASSUME NEW j \in DOMAIN e.history, NEW k \in DOMAIN e.history, NextMove(e, j, k)
               PROVE  e.history[j].source = "engram-rename" /\ e.history[j].new = e.history[k].old
    BY DEF MovesConnect
  <2>1. j \in 1..n
    BY <1>1 DEF NextMove
  <2>2. e.history[j] = d.history[j] /\ j \in DOMAIN d.history
    BY <1>11, <2>1
  <2>3. CASE k \in 1..n
    <3>1. NextMove(d, j, k)
      BY <1>6, <2>1, <2>3
    <3>2. e.history[k] = d.history[k] /\ k \in DOMAIN d.history
      BY <1>11, <2>3
    <3> QED BY <1>10, <2>2, <3>1, <3>2 DEF MovesConnect
  <2>4. CASE k = n + 1
    <3>1. LastMove(d, j) /\ d.history[j].sym = s
      BY <1>7, <2>1, <2>4
    <3>2. Leaves(d, d.history[j])
      BY <1>10, <2>2, <3>1 DEF LivesEnd
    <3>3. e.history[k] = row
      BY <1>1, <2>4
    <3> QED BY <2>2, <3>1, <3>2, <3>3 DEF Leaves
  <2> QED BY <1>1, <2>3, <2>4
<1>14. LivesEnd(e)
  <2> SUFFICES ASSUME NEW k \in DOMAIN e.history, LastMove(e, k) PROVE Leaves(e, e.history[k])
    BY DEF LivesEnd
  <2>1. CASE k = n + 1
    <3>1. e.history[k] = row
      BY <1>1, <2>1
    <3> QED BY <3>1 DEF Leaves
  <2>2. CASE k \in 1..n
    <3>1. LastMove(d, k) /\ d.history[k].sym # s
      BY <1>5, <2>2
    <3>2. k \in DOMAIN d.history /\ e.history[k] = d.history[k]
      BY <1>11, <2>2
    <3>3. d.history[k].sym \in DOMAIN d.symbols
      BY <3>2 DEF Ledger, RowsOwned
    <3>4. e.symbols[d.history[k].sym] = d.symbols[d.history[k].sym]
      BY <3>1, <3>3
    <3>5. Leaves(d, d.history[k])
      BY <1>10, <3>1, <3>2 DEF LivesEnd
    <3> QED BY <3>2, <3>4, <3>5 DEF Leaves
  <2> QED BY <1>1, <2>1, <2>2
<1>15. DeathsTold(e)
  <2> SUFFICES ASSUME NEW t \in DOMAIN e.symbols, ~e.symbols[t].live
               PROVE  \E k \in DOMAIN e.history : /\ e.history[k].sym = t
                                                  /\ e.history[k].source = "engram-delete"
    BY DEF DeathsTold
  <2>1. CASE t = s
    <3>1. row.source = "engram-delete" /\ n + 1 \in DOMAIN e.history
      BY <1>1, <2>1 DEF MoveSource
    <3> QED BY <1>1, <2>1, <3>1
  <2>2. CASE t # s
    <3>1. PICK k \in DOMAIN d.history : d.history[k].sym = t /\ d.history[k].source = "engram-delete"
      BY <1>10, <2>2 DEF DeathsTold
    <3>2. k \in DOMAIN e.history /\ e.history[k] = d.history[k]
      BY <1>1, <3>1
    <3> QED BY <3>1, <3>2
  <2> QED BY <2>1, <2>2
<1> QED BY <1>8, <1>9, <1>12, <1>13, <1>14, <1>15, LedgerParts DEF Ledger

-----------------------------------------------------------------------------
(* The store functions. *)

\* The symbol in row s is the one that had this identity, by the ledger.
Leads(d, s, ident) ==
  /\ d.symbols[s].ident.path = ident.path
  /\ \/ d.symbols[s].ident.name = ident.name
     \/ \E k \in DOMAIN d.history :
          /\ d.history[k].sym = s /\ d.history[k].source = "engram-rename"
          /\ d.history[k].old = ident.name

\* What a write does to the ledger: it keeps every row, adds exactly these moves, and all
\* that was known of the symbols stays true.
Evolves(d, e, moves) ==
  /\ Ledger(e)
  /\ DOMAIN d.symbols \subseteq DOMAIN e.symbols
  /\ \A s \in DOMAIN d.symbols : \A name : BornAs(d, s, name) => BornAs(e, s, name)
  /\ \A s \in DOMAIN d.symbols : \A ident : Leads(d, s, ident) => Leads(e, s, ident)
  /\ DOMAIN d.history \subseteq DOMAIN e.history
  /\ \A k \in DOMAIN d.history : e.history[k] = d.history[k]
  /\ \A k \in DOMAIN e.history \ DOMAIN d.history : IsMove(e, k) => e.history[k] \in moves
  /\ \A row \in moves : \E k \in DOMAIN e.history : e.history[k] = row

\* A write that leaves symbols and ledger alone.
LEMMA EvolvesSame ==
  ASSUME NEW d, NEW e, Ledger(d), e.symbols = d.symbols, e.history = d.history
  PROVE  Evolves(d, e, {})
<1>1. /\ \A k : IsMove(e, k) <=> IsMove(d, k)
      /\ \A k : FirstMove(e, k) <=> FirstMove(d, k)
      /\ \A k : LastMove(e, k) <=> LastMove(d, k)
      /\ \A j, k : NextMove(e, j, k) <=> NextMove(d, j, k)
  BY DEF IsMove, FirstMove, LastMove, NextMove
<1>2. Ledger(e)
  <2>1. LivesBegin(d) /\ MovesConnect(d) /\ LivesEnd(d) /\ DeathsTold(d)
    BY LedgerParts DEF Ledger
  <2>2. LivesBegin(e)
    BY <1>1, <2>1 DEF LivesBegin, BornAs
  <2>3. MovesConnect(e) /\ LivesEnd(e) /\ DeathsTold(e)
    BY <1>1, <2>1 DEF MovesConnect, LivesEnd, Leaves, DeathsTold
  <2> QED BY <2>2, <2>3, LedgerParts DEF Ledger, RowsOwned
<1>3. \A s, name : BornAs(d, s, name) => BornAs(e, s, name)
  BY <1>1 DEF BornAs
<1>4. \A s, ident : Leads(d, s, ident) => Leads(e, s, ident)
  BY DEF Leads
<1> QED BY <1>2, <1>3, <1>4 DEF Evolves

\* Two writes in one statement or transaction.
LEMMA EvolvesTwice ==
  ASSUME NEW d, NEW mid, NEW e, NEW moves, Evolves(d, mid, {}), Evolves(mid, e, moves)
  PROVE  Evolves(d, e, moves)
<1>1. ASSUME NEW k \in DOMAIN e.history \ DOMAIN d.history, IsMove(e, k) PROVE e.history[k] \in moves
  <2>1. CASE k \in DOMAIN mid.history
    <3>1. e.history[k] = mid.history[k]
      BY <2>1 DEF Evolves
    <3>2. IsMove(mid, k)
      BY <1>1, <3>1 DEF IsMove
    <3> QED BY <1>1, <2>1, <3>2 DEF Evolves
  <2> QED BY <1>1, <2>1 DEF Evolves
<1>2. \A s \in DOMAIN d.symbols : \A name : BornAs(d, s, name) => BornAs(e, s, name)
  BY DEF Evolves
<1>3. \A s \in DOMAIN d.symbols : \A ident : Leads(d, s, ident) => Leads(e, s, ident)
  BY DEF Evolves
<1>4. \A k \in DOMAIN d.history : k \in DOMAIN e.history /\ e.history[k] = d.history[k]
  BY DEF Evolves
<1> QED BY <1>1, <1>2, <1>3, <1>4 DEF Evolves

\* append_history of a discovery, or of a purge by the reconciler.
LEMMA AppendHistoryEvolves ==
  ASSUME NEW d \in Database, Ledger(d), NEW s \in DOMAIN d.symbols,
         NEW source \in Source \ MoveSource,
         NEW old \in NamePath \cup {NoName}, NEW new \in NamePath \cup {NoName},
         source = "discovery" => BornAs(d, s, new)
  PROVE  Evolves(d, AppendHistory(d, s, source, old, new), {})
<1> DEFINE row == [sym |-> s, source |-> source, old |-> old, new |-> new]
           e == AppendHistory(d, s, source, old, new)
<1>1. row \in HistoryRow
  BY DEF HistoryRow, Database, Source
<1>2. e.history = Append(d.history, row) /\ e.symbols = d.symbols
  BY DEF AppendHistory, Database
<1>3. AddsRow(d, e, row)
  <2> HIDE DEF row, e
  <2> QED BY <1>1, <1>2, AppendAddsRow
<1>4. row.source \notin MoveSource /\ row.sym = s /\ row.source = source /\ row.new = new
  OBVIOUS
<1> HIDE DEF row, e
<1>5. Ledger(e) /\ \A t, name : BornAs(d, t, name) => BornAs(e, t, name)
  BY <1>2, <1>3, <1>4, QuietRow
<1>6. /\ DOMAIN d.history \subseteq DOMAIN e.history
      /\ \A k \in DOMAIN d.history : e.history[k] = d.history[k]
  BY <1>3 DEF AddsRow
<1>7. \A k \in DOMAIN e.history : IsMove(e, k) => k \in DOMAIN d.history
  BY <1>3, <1>4, MovesKept
<1>8. \A t, ident : Leads(d, t, ident) => Leads(e, t, ident)
  BY <1>2, <1>6 DEF Leads
<1>9. Evolves(d, e, {})
  BY <1>2, <1>5, <1>6, <1>7, <1>8 DEF Evolves
<1> QED BY <1>9 DEF e

\* INSERT INTO symbols: the new row is born with the name it was inserted under.
LEMMA InsertSymbolEvolves ==
  ASSUME NEW d \in Database, Ledger(d), NEW ident \in Identity
  PROVE  LET e == InsertSymbol(d, ident)
             s == NewSymbol(d)
         IN  /\ Evolves(d, e, {})
             /\ s \in DOMAIN e.symbols /\ BornAs(e, s, ident.name) /\ Leads(e, s, ident)
<1> DEFINE row == [ident |-> ident, live |-> TRUE]
           e == InsertSymbol(d, ident)
           n == Len(d.symbols)
<1>1. d.symbols \in Seq(SymbolRow) /\ row \in SymbolRow /\ n \in Nat
  BY DEF Database, SymbolRow
<1>2. e.history = d.history /\ e.symbols = Append(d.symbols, row)
  BY DEF InsertSymbol, Database
<1>3. /\ Append(d.symbols, row) \in Seq(SymbolRow)
      /\ Len(Append(d.symbols, row)) = n + 1
      /\ \A t \in 1..n : Append(d.symbols, row)[t] = d.symbols[t]
      /\ Append(d.symbols, row)[n + 1] = row
  <2> HIDE DEF row
  <2> QED BY <1>1, AppendProperties
<1>4. /\ DOMAIN d.symbols = 1..n /\ DOMAIN e.symbols = 1..(n + 1)
      /\ \A t \in DOMAIN d.symbols : t \in DOMAIN e.symbols /\ e.symbols[t] = d.symbols[t]
      /\ n + 1 \in DOMAIN e.symbols /\ e.symbols[n + 1] = [ident |-> ident, live |-> TRUE]
  <2> HIDE DEF row, e
  <2>1. DOMAIN d.symbols = 1..n /\ DOMAIN e.symbols = 1..(n + 1)
    BY <1>1, <1>2, <1>3, LenProperties
  <2>2. e.symbols[n + 1] = row
    BY <1>2, <1>3
  <2> QED BY <1>1, <1>2, <1>3, <2>1, <2>2 DEF row
<1> HIDE DEF e, row
<1>5. /\ Ledger(e) /\ BornAs(e, n + 1, ident.name)
      /\ \A t \in DOMAIN d.symbols : \A name : BornAs(d, t, name) => BornAs(e, t, name)
  BY <1>1, <1>2, <1>4, NewRow DEF n
<1>6. \A t \in DOMAIN d.symbols : \A i : Leads(d, t, i) => Leads(e, t, i)
  BY <1>2, <1>4 DEF Leads
<1>7. Leads(e, n + 1, ident)
  BY <1>4 DEF Leads
<1>8. Evolves(d, e, {})
  BY <1>2, <1>4, <1>5, <1>6 DEF Evolves
<1> QED BY <1>4, <1>5, <1>7, <1>8 DEF e, n, NewSymbol

\* upsert_symbol inside a transaction: nothing, or an insertion and its discovery.
LEMMA UpsertSymbolEvolves ==
  ASSUME NEW d, Sound(d), Ledger(d), NEW ident \in Identity
  PROVE  Evolves(d, UpsertSymbol(d, ident), {})
<1>1. d \in Database
  BY DEF Sound
<1>2. CASE GetSymbol(d, ident) # 0
  BY <1>2, EvolvesSame DEF UpsertSymbol
<1>3. CASE GetSymbol(d, ident) = 0
  <2> DEFINE mid == InsertSymbol(d, ident)
             s == NewSymbol(d)
  <2>1. Sound(mid) /\ mid \in Database
    BY <1>1, <1>3, GetSymbolResult, InsertSymbolSound DEF Sound
  <2>2. Evolves(d, mid, {}) /\ s \in DOMAIN mid.symbols /\ BornAs(mid, s, ident.name)
    BY <1>1, InsertSymbolEvolves
  <2>3. Ledger(mid)
    BY <2>2 DEF Evolves
  <2>4. "discovery" \in Source \ MoveSource /\ NoName \in NamePath \cup {NoName}
        /\ ident.name \in NamePath \cup {NoName}
    BY DEF Source, MoveSource, Identity
  <2> HIDE DEF mid, s
  <2>5. Evolves(mid, AppendHistory(mid, s, "discovery", NoName, ident.name), {})
    BY <2>1, <2>2, <2>3, <2>4, AppendHistoryEvolves
  <2>6. Evolves(d, AppendHistory(mid, s, "discovery", NoName, ident.name), {})
    BY <2>2, <2>5, EvolvesTwice
  <2> QED BY <1>3, <2>6 DEF UpsertSymbol, DiscoverSymbol, mid, s
<1> QED BY <1>2, <1>3

\* A rename or a deletion of a live row, with its row in the ledger.
LEMMA MoveEvolves ==
  ASSUME NEW d, NEW e, NEW row, AddsRow(d, e, row), row.source \in MoveSource, Ledger(d),
         row.sym \in DOMAIN d.symbols, d.symbols[row.sym].live,
         row.old = d.symbols[row.sym].ident.name,
         DOMAIN e.symbols = DOMAIN d.symbols,
         \A t \in DOMAIN d.symbols : t # row.sym => e.symbols[t] = d.symbols[t],
         e.symbols[row.sym].ident.path = d.symbols[row.sym].ident.path,
         IF row.source = "engram-rename"
         THEN e.symbols[row.sym].live /\ e.symbols[row.sym].ident.name = row.new
         ELSE ~e.symbols[row.sym].live /\ e.symbols[row.sym].ident.name = row.old
  PROVE  Evolves(d, e, {row})
<1> DEFINE n == Len(d.history)
<1>1. Ledger(e) /\ \A t \in DOMAIN d.symbols : \A name : BornAs(d, t, name) => BornAs(e, t, name)
  BY MoveRowFits
<1>2. /\ n \in Nat /\ DOMAIN d.history = 1..n /\ DOMAIN e.history = 1..(n + 1)
      /\ \A k \in 1..n : e.history[k] = d.history[k]
      /\ e.history[n + 1] = row
  BY DEF AddsRow
<1> HIDE DEF n
<1>3. /\ DOMAIN d.history \subseteq DOMAIN e.history
      /\ \A k \in DOMAIN d.history : e.history[k] = d.history[k]
      /\ \A k \in DOMAIN e.history \ DOMAIN d.history : e.history[k] = row
      /\ n + 1 \in DOMAIN e.history
  BY <1>2
<1>4. ASSUME NEW t \in DOMAIN d.symbols, NEW ident, Leads(d, t, ident) PROVE Leads(e, t, ident)
  <2>1. e.symbols[t].ident.path = ident.path
    BY <1>4 DEF Leads
  <2>2. CASE \E k \in DOMAIN d.history :
               /\ d.history[k].sym = t /\ d.history[k].source = "engram-rename"
               /\ d.history[k].old = ident.name
    BY <1>3, <2>1, <2>2 DEF Leads
  <2>3. CASE d.symbols[t].ident.name = ident.name
    <3>1. CASE t # row.sym \/ row.source # "engram-rename"
      BY <2>1, <2>3, <3>1 DEF Leads
    <3>2. CASE t = row.sym /\ row.source = "engram-rename"
      BY <1>2, <1>3, <2>1, <2>3, <3>2 DEF Leads
    <3> QED BY <3>1, <3>2
  <2> QED BY <1>4, <2>2, <2>3 DEF Leads
<1> QED BY <1>1, <1>2, <1>3, <1>4 DEF Evolves

\* rename_symbol of a live row.
LEMMA RenameSymbolEvolves ==
  ASSUME NEW d \in Database, Ledger(d), NEW ident \in Identity, NEW s \in LiveRows(d, ident),
         NEW new \in NamePath
  PROVE  Evolves(d, RenameSymbol(d, s, new),
                 {[sym |-> s, source |-> "engram-rename", old |-> ident.name, new |-> new]})
<1> DEFINE row == [sym |-> s, source |-> "engram-rename", old |-> ident.name, new |-> new]
           e == RenameSymbol(d, s, new)
<1>1. /\ d.symbols \in Seq(SymbolRow) /\ s \in DOMAIN d.symbols /\ d.symbols[s] \in SymbolRow
      /\ s \in Nat /\ d.symbols[s].live /\ d.symbols[s].ident = ident
  BY DEF LiveRows, Database
<1>2. row \in HistoryRow
  BY <1>1 DEF HistoryRow, Source, MoveSource, Identity
<1>3. e.history = Append(d.history, row) /\ e.symbols = [d.symbols EXCEPT ![s].ident.name = new]
  BY <1>1 DEF RenameSymbol, AppendHistory, Database
<1>4. AddsRow(d, e, row)
  <2> HIDE DEF row, e
  <2> QED BY <1>2, <1>3, AppendAddsRow
<1>5. /\ DOMAIN e.symbols = DOMAIN d.symbols
      /\ \A t \in DOMAIN d.symbols : t # s => e.symbols[t] = d.symbols[t]
      /\ e.symbols[s].live /\ e.symbols[s].ident.name = new
      /\ e.symbols[s].ident.path = d.symbols[s].ident.path
  BY <1>1, <1>3 DEF SymbolRow, Identity
<1>6. row.sym = s /\ row.source = "engram-rename" /\ row.old = ident.name /\ row.new = new
  OBVIOUS
<1> HIDE DEF e, row
<1>7. Evolves(d, e, {row})
  BY <1>1, <1>4, <1>5, <1>6, MoveEvolves DEF MoveSource
<1> QED BY <1>7 DEF e, row

\* tombstone_symbol of a live row.
LEMMA TombstoneSymbolEvolves ==
  ASSUME NEW d \in Database, Ledger(d), NEW ident \in Identity, NEW s \in LiveRows(d, ident)
  PROVE  Evolves(d, TombstoneSymbol(d, s),
                 {[sym |-> s, source |-> "engram-delete", old |-> ident.name, new |-> NoName]})
<1> DEFINE row == [sym |-> s, source |-> "engram-delete", old |-> ident.name, new |-> NoName]
           e == TombstoneSymbol(d, s)
<1>1. /\ d.symbols \in Seq(SymbolRow) /\ s \in DOMAIN d.symbols /\ d.symbols[s] \in SymbolRow
      /\ s \in Nat /\ d.symbols[s].live /\ d.symbols[s].ident = ident
  BY DEF LiveRows, Database
<1>2. row \in HistoryRow
  BY <1>1 DEF HistoryRow, Source, MoveSource, Identity
<1>3. e.history = Append(d.history, row) /\ e.symbols = [d.symbols EXCEPT ![s].live = FALSE]
  BY <1>1 DEF TombstoneSymbol, AppendHistory, Database
<1>4. AddsRow(d, e, row)
  <2> HIDE DEF row, e
  <2> QED BY <1>2, <1>3, AppendAddsRow
<1>5. /\ DOMAIN e.symbols = DOMAIN d.symbols
      /\ \A t \in DOMAIN d.symbols : t # s => e.symbols[t] = d.symbols[t]
      /\ ~e.symbols[s].live /\ e.symbols[s].ident = ident
  BY <1>1, <1>3 DEF SymbolRow
<1>6. row.sym = s /\ row.source = "engram-delete" /\ row.old = ident.name
  OBVIOUS
<1> HIDE DEF e, row
<1>7. Evolves(d, e, {row})
  BY <1>1, <1>4, <1>5, <1>6, MoveEvolves DEF MoveSource
<1> QED BY <1>7 DEF e, row

-----------------------------------------------------------------------------
(* What a step does to the requests. *)

\* A step of the handler of request r.
Own(r) == Accept(r) \/ Handle(r) \/ LockTimeout(r)

\* What may happen to request r in a step that is not its own: its upstream acts, its call
\* is cancelled or its process dies.
Untouched(r) ==
  /\ pc'[r] = pc[r] \/ (pc[r] \notin DonePc /\ pc'[r] = "lost")
  /\ input'[r] = input[r] /\ sym'[r] = sym[r] /\ todo'[r] = todo[r] /\ stale'[r] = stale[r]
  /\ remote'[r] = remote[r] \/ (remote[r] = "asked" /\ remote'[r] \in {"done", "refused"})

\* A handler writes its own variables only.
LEMMA OwnIsLocal ==
  ASSUME Strong, NEW q \in Request, Own(q), NEW r \in Request, r # q PROVE Untouched(r)
<1>1. /\ pc \in [Request -> Pc] /\ input \in [Request -> Input \cup {NoOne}]
      /\ sym \in [Request -> Nat] /\ todo \in [Request -> SUBSET AnchorRow]
      /\ stale \in [Request -> SUBSET AnchorRow]
      /\ remote \in [Request -> {"none", "asked", "done", "refused"}]
  BY DEF Strong, IInv, TypeOK
<1>2. CASE Accept(q) \/ LockTimeout(q) \/ RenameBegin(q) \/ DeleteBegin(q)
  BY <1>1, <1>2 DEF Untouched, Goto, Accept, LockTimeout, RenameBegin, DeleteBegin, local
<1>3. CASE RenameCommit(q) \/ DeleteCommit(q) \/ Rollback(q) \/ KgAdd(q) \/ KgEnd(q) \/ Publish(q)
  BY <1>1, <1>3 DEF Untouched, Goto, RenameCommit, DeleteCommit, Rollback, KgAdd, KgEnd, Publish,
                    local
<1>4. CASE DrawerLookup(q) \/ Resolve(q) \/ MemAddReply(q) \/ InsertSymbolRow(q)
  BY <1>1, <1>4 DEF Untouched, Goto, DrawerLookup, Resolve, MemAddReply, SelectSymbol,
                    InsertSymbolRow, local
<1>5. CASE \/ Discover(q) \/ Touch(q) \/ AnchorSelect(q) \/ AnchorInsert(q) \/ ChunkInsert(q)
  BY <1>1, <1>5 DEF Untouched, Goto, Discover, Touch, AnchorSelect, AnchorInsert, ChunkInsert, local
<1>6. CASE Scan(q) \/ CheckDrawer(q) \/ Purge(q) \/ Trace(q) \/ DryPurge(q)
  BY <1>1, <1>6 DEF Untouched, Goto, Scan, CheckDrawer, Purge, Trace, DryPurge, local
<1> QED BY <1>2, <1>3, <1>4, <1>5, <1>6 DEF Own, Handle

\* Every step is of the handler of r, or leaves it where it was but for the outside.
LEMMA Footprint ==
  ASSUME Strong, [Next]_vars, NEW r \in Request PROVE Own(r) \/ Untouched(r)
<1>1. /\ pc \in [Request -> Pc] /\ remote \in [Request -> {"none", "asked", "done", "refused"}]
      /\ home \in [Request -> Server \cup {NoOne}]
  BY DEF Strong, IInv, TypeOK
<1>2. ASSUME NEW q \in Request, Accept(q) \/ Handle(q) \/ LockTimeout(q) PROVE Own(r) \/ Untouched(r)
  BY <1>2, OwnIsLocal DEF Own
<1>3. ASSUME NEW q \in Request, Upstream(q) PROVE Untouched(r)
  BY <1>1, <1>3 DEF Upstream, SerenaActs, MemPalaceStores, Refuse, Untouched, local
<1>4. ASSUME NEW q \in Request, Cancel(q) PROVE Untouched(r)
  BY <1>1, <1>4 DEF Cancel, Turn, Goto, Untouched, local
<1>5. ASSUME NEW s \in Server, Crash(s) PROVE Untouched(r)
  BY <1>1, <1>5 DEF Crash, InFlight, Untouched, local
<1>6. ASSUME NEW d \in Drawer, DeleteDrawer(d) \/ StoreDrawer(d) PROVE Untouched(r)
  BY <1>1, <1>6 DEF DeleteDrawer, StoreDrawer, Untouched, local
<1>7. CASE UNCHANGED vars
  BY <1>7 DEF vars, local, Untouched
<1> QED BY <1>2, <1>3, <1>4, <1>5, <1>6, <1>7 DEF Next

\* The statements that write symbols or the ledger.
LEMMA WritersOnly ==
  ASSUME Strong, [Next]_vars
  PROVE  \/ \E r \in Request : \/ InsertSymbolRow(r) \/ Discover(r) \/ Trace(r)
                               \/ RenameCommit(r) \/ DeleteCommit(r)
         \/ db'.symbols = db.symbols /\ db'.history = db.history
<1>1. db \in Database
  BY DEF Strong, IInv, Sound
<1>2. ASSUME NEW r \in Request, AnchorInsert(r) \/ ChunkInsert(r) \/ Purge(r)
      PROVE  db'.symbols = db.symbols /\ db'.history = db.history
  BY <1>1, <1>2 DEF AnchorInsert, ChunkInsert, Purge, InsertAnchor, InsertChunkAnchor, DeleteAnchor,
                    Database
<1>3. ASSUME NEW r \in Request, Accept(r) \/ LockTimeout(r) \/ Upstream(r) \/ Cancel(r)
      PROVE  UNCHANGED db
  BY <1>3 DEF Accept, LockTimeout, Upstream, SerenaActs, MemPalaceStores, Refuse, Cancel, store
<1>4. ASSUME NEW r \in Request,
             \/ RenameBegin(r) \/ DeleteBegin(r) \/ Rollback(r) \/ KgAdd(r) \/ KgEnd(r) \/ Publish(r)
             \/ DrawerLookup(r) \/ Resolve(r) \/ MemAddReply(r) \/ Touch(r) \/ AnchorSelect(r)
             \/ Scan(r) \/ CheckDrawer(r) \/ DryPurge(r)
      PROVE  UNCHANGED db
  BY <1>4 DEF RenameBegin, DeleteBegin, Rollback, KgAdd, KgEnd, Publish, DrawerLookup, Resolve,
              MemAddReply, Touch, AnchorSelect, Scan, CheckDrawer, DryPurge, store
<1>5. ASSUME \/ \E d \in Drawer : DeleteDrawer(d) \/ StoreDrawer(d)
             \/ \E s \in Server : Crash(s)
             \/ UNCHANGED vars
      PROVE  UNCHANGED db
  BY <1>5 DEF DeleteDrawer, StoreDrawer, Crash, vars, store
<1> QED BY <1>2, <1>3, <1>4, <1>5 DEF Next, Handle

-----------------------------------------------------------------------------
(* The ledger of the committed database. *)

\* A request that still owes its discovery row knows what the symbol was born as.
Births == \A r \in Request : pc[r] = "discover" => BornAs(db, sym[r], input[r].ident.name)

\* Anchors, and the rows a reconciler pass holds, are about symbols that have a row.
AnchorsOwned ==
  /\ \A a \in db.anchors : a.sym \in DOMAIN db.symbols
  /\ \A r \in Request : /\ \A a \in todo[r] \cup stale[r] : a.sym \in DOMAIN db.symbols
                        /\ pc[r] = "trace" => sym[r] \in DOMAIN db.symbols

LedgerInv == Ledger(db) /\ Births /\ AnchorsOwned

\* The row in the ledger of the edit request r asks Serena for.
MoveRow(r) ==
  [sym |-> sym[r],
   source |-> IF input[r].op = "rename" THEN "engram-rename" ELSE "engram-delete",
   old |-> input[r].ident.name,
   new |-> IF input[r].op = "rename" THEN Renamed(input[r]).name ELSE NoName]

\* Steps that commit an edit.
Commits(r) == RenameCommit(r) \/ (DeleteCommit(r) /\ sym[r] # 0)

\* A commit adds the row of its request.
LEMMA CommitEvolves ==
  ASSUME Strong, Ledger(db), NEW r \in Request, Commits(r)
  PROVE  Evolves(db, db', {MoveRow(r)})
<1>1. /\ Sound(db) /\ db \in Database /\ input[r] \in Input /\ input[r].op \in {"rename", "delete"}
      /\ Uncommitted(r) /\ input[r].ident \in Identity
  BY InputFields DEF Commits, RenameCommit, DeleteCommit, Turn, Strong, IInv, Stage, Pending, Sound
<1>2. CASE RenameCommit(r)
  <2> DEFINE base == UpsertSymbol(db, input[r].ident)
             new == Renamed(input[r]).name
  <2>1. input[r].op = "rename" /\ db' = wdb
    BY <1>2 DEF RenameCommit
  <2>2. sym[r] = GetSymbol(base, input[r].ident) /\ db' = RenameSymbol(base, sym[r], new)
    BY <1>1, <2>1 DEF Uncommitted
  <2>3. new \in NamePath
    BY <1>1, <2>1, RenamedType
  <2>4. Evolves(db, base, {}) /\ base \in Database /\ sym[r] \in LiveRows(base, input[r].ident)
    BY <1>1, <2>2, UpsertSymbolEvolves, UpsertSymbolSound DEF Sound
  <2>5. Ledger(base)
    BY <2>4 DEF Evolves
  <2>6. MoveRow(r) = [sym |-> sym[r], source |-> "engram-rename", old |-> input[r].ident.name,
                      new |-> new]
    BY <2>1 DEF MoveRow
  <2> HIDE DEF base, new
  <2>7. Evolves(base, db', {MoveRow(r)})
    BY <1>1, <2>2, <2>3, <2>4, <2>5, <2>6, RenameSymbolEvolves
  <2> QED BY <2>4, <2>7, EvolvesTwice
<1>3. CASE DeleteCommit(r) /\ sym[r] # 0
  <2>1. /\ input[r].op = "delete" /\ wdb = db /\ sym[r] = GetSymbol(db, input[r].ident)
        /\ db' = TombstoneSymbol(db, sym[r])
    BY <1>1, <1>3 DEF DeleteCommit, Uncommitted
  <2>2. sym[r] \in LiveRows(db, input[r].ident)
    BY <1>1, <1>3, <2>1, GetSymbolResult
  <2>3. MoveRow(r) = [sym |-> sym[r], source |-> "engram-delete", old |-> input[r].ident.name,
                      new |-> NoName]
    BY <2>1 DEF MoveRow
  <2> QED BY <1>1, <2>1, <2>2, <2>3, TombstoneSymbolEvolves
<1> QED BY <1>2, <1>3 DEF Commits

\* A step adds no move, or one commits the move of its request.
LEMMA StepEvolves ==
  ASSUME Strong, LedgerInv, [Next]_vars
  PROVE  \/ Evolves(db, db', {})
         \/ \E r \in Request : Commits(r) /\ Evolves(db, db', {MoveRow(r)})
<1>1. db \in Database /\ Ledger(db) /\ sym \in [Request -> Nat]
  BY DEF Strong, IInv, TypeOK, Sound, LedgerInv
<1>2. ASSUME NEW r \in Request, InsertSymbolRow(r) PROVE Evolves(db, db', {})
  <2>1. input[r].ident \in Identity
    BY <1>2, InputFields DEF InsertSymbolRow, Strong, IInv, Stage
  <2>2. db' = db \/ db' = InsertSymbol(db, input[r].ident)
    BY <1>2 DEF InsertSymbolRow
  <2> QED BY <1>1, <2>1, <2>2, EvolvesSame, InsertSymbolEvolves
<1>3. ASSUME NEW r \in Request, Discover(r) PROVE Evolves(db, db', {})
  <2>1. input[r].ident.name \in NamePath
    BY <1>3, InputFields DEF Discover, Strong, IInv, Stage, Identity
  <2>2. sym[r] \in DOMAIN db.symbols /\ BornAs(db, sym[r], input[r].ident.name)
    BY <1>3 DEF Discover, Strong, RowBound, RowPc, LedgerInv, Births
  <2>3. "discovery" \in Source \ MoveSource
    BY DEF Source, MoveSource
  <2> QED BY <1>1, <1>3, <2>1, <2>2, <2>3, AppendHistoryEvolves DEF Discover, DiscoverSymbol
<1>4. ASSUME NEW r \in Request, Trace(r) PROVE Evolves(db, db', {})
  <2>1. sym[r] \in DOMAIN db.symbols
    BY <1>4 DEF Trace, LedgerInv, AnchorsOwned
  <2>2. "reconcile" \in Source \ MoveSource /\ "reconcile" # "discovery"
    BY DEF Source, MoveSource
  <2> QED BY <1>1, <1>4, <2>1, <2>2, AppendHistoryEvolves DEF Trace
<1>5. ASSUME NEW r \in Request, RenameCommit(r) \/ DeleteCommit(r)
      PROVE  Evolves(db, db', {}) \/ (Commits(r) /\ Evolves(db, db', {MoveRow(r)}))
  <2>1. CASE Commits(r)
    BY <1>1, <2>1, CommitEvolves
  <2>2. CASE ~Commits(r)
    <3>1. wdb = db /\ db' = wdb
      BY <1>5, <2>2 DEF Commits, DeleteCommit, Turn, Strong, Pending, Uncommitted
    <3> QED BY <1>1, <3>1, EvolvesSame
  <2> QED BY <2>1, <2>2
<1> QED BY <1>1, <1>2, <1>3, <1>4, <1>5, WritersOnly, EvolvesSame

\* What every step keeps of the committed database.
LEMMA StepKeeps ==
  ASSUME Strong, LedgerInv, [Next]_vars
  PROVE  /\ Ledger(db')
         /\ DOMAIN db.symbols \subseteq DOMAIN db'.symbols
         /\ \A s \in DOMAIN db.symbols : \A name : BornAs(db, s, name) => BornAs(db', s, name)
         /\ \A s \in DOMAIN db.symbols : \A ident : Leads(db, s, ident) => Leads(db', s, ident)
         /\ DOMAIN db.history \subseteq DOMAIN db'.history
         /\ \A k \in DOMAIN db.history : db'.history[k] = db.history[k]
BY StepEvolves DEF Evolves

\* The request that inserted a symbol is the one that owes the discovery row.
LEMMA BirthsStep ==
  ASSUME Strong, LedgerInv, [Next]_vars PROVE Births'
<1> SUFFICES ASSUME NEW r \in Request, pc'[r] = "discover"
             PROVE  BornAs(db', sym'[r], input'[r].ident.name)
  BY DEF Births
<1>1. pc \in [Request -> Pc] /\ sym \in [Request -> Nat] /\ db \in Database /\ Ledger(db)
  BY DEF Strong, IInv, TypeOK, Sound, LedgerInv
<1>2. CASE Untouched(r)
  <2>1. pc[r] = "discover" /\ sym'[r] = sym[r] /\ input'[r] = input[r]
    BY <1>2 DEF Untouched
  <2>2. sym[r] \in DOMAIN db.symbols /\ BornAs(db, sym[r], input[r].ident.name)
    BY <2>1 DEF Strong, RowBound, RowPc, LedgerInv, Births
  <2> QED BY <2>1, <2>2, StepKeeps
<1>3. CASE InsertSymbolRow(r)
  <2>1. input[r].ident \in Identity
    BY <1>3, InputFields DEF InsertSymbolRow, Strong, IInv, Stage
  <2>2. /\ db' = InsertSymbol(db, input[r].ident) /\ sym'[r] = NewSymbol(db)
        /\ input' = input
    BY <1>1, <1>3 DEF InsertSymbolRow, Goto
  <2> QED BY <1>1, <2>1, <2>2, InsertSymbolEvolves
<1>4. CASE Own(r) /\ ~InsertSymbolRow(r)
  <2>1. ~Handle(r) \/ pc'[r] # "discover"
    BY <1>1, <1>4
       DEF Handle, Goto, RenameBegin, DeleteBegin, RenameCommit, DeleteCommit, Rollback, KgAdd, KgEnd,
           Publish, DrawerLookup, Found, Resolve, MemAddReply, SelectSymbol, Discover, Touch,
           AnchorSelect, AnchorInsert, ChunkInsert, Scan, CheckDrawer, Purge, Trace, DryPurge
  <2>2. ~LockTimeout(r)
    BY <1>1 DEF LockTimeout, Goto
  <2>3. ~Accept(r)
    BY <1>1, MenuAssumption, InputFields DEF Accept, Goto, FirstPc
  <2> QED BY <1>4, <2>1, <2>2, <2>3 DEF Own
<1> QED BY <1>2, <1>3, <1>4, Footprint

\* A rename, with the discovery it may start with, keeps the anchors.
LEMMA RenameKeepsAnchors ==
  ASSUME NEW d, Sound(d), NEW ident \in Identity, NEW s, NEW new
  PROVE  LET e == RenameSymbol(UpsertSymbol(d, ident), s, new)
         IN  e.anchors = d.anchors /\ e.lastAnchor = d.lastAnchor /\ e.chunks = d.chunks
<1> DEFINE base == UpsertSymbol(d, ident)
<1>1. d \in Database /\ base \in Database
  BY UpsertSymbolSound DEF Sound
<1>2. base.anchors = d.anchors /\ base.lastAnchor = d.lastAnchor /\ base.chunks = d.chunks
  BY <1>1 DEF UpsertSymbol, DiscoverSymbol, InsertSymbol, AppendHistory, Database
<1> HIDE DEF base
<1>3. LET e == RenameSymbol(base, s, new)
      IN  e.anchors = d.anchors /\ e.lastAnchor = d.lastAnchor /\ e.chunks = d.chunks
  BY <1>1, <1>2 DEF RenameSymbol, AppendHistory, Database
<1> QED BY <1>3 DEF base

\* A tombstone keeps the anchors.
LEMMA TombstoneKeepsAnchors ==
  ASSUME NEW d, Sound(d), NEW s
  PROVE  LET e == TombstoneSymbol(d, s)
         IN  e.anchors = d.anchors /\ e.lastAnchor = d.lastAnchor /\ e.chunks = d.chunks
BY DEF TombstoneSymbol, AppendHistory, Sound, Database

\* The statements that write anchors.
LEMMA AnchorWritersOnly ==
  ASSUME Strong, [Next]_vars
  PROVE  \/ \E r \in Request : AnchorInsert(r) \/ ChunkInsert(r) \/ Purge(r)
         \/ /\ db'.anchors = db.anchors /\ db'.lastAnchor = db.lastAnchor
            /\ db'.chunks = db.chunks
<1>1. Sound(db) /\ db \in Database
  BY DEF Strong, IInv, Sound
<1>2. ASSUME NEW r \in Request, RenameCommit(r) \/ DeleteCommit(r)
      PROVE  /\ db'.anchors = db.anchors /\ db'.lastAnchor = db.lastAnchor
             /\ db'.chunks = db.chunks
  <2>1. input[r].ident \in Identity /\ Uncommitted(r)
    BY <1>2, InputFields DEF RenameCommit, DeleteCommit, Turn, Strong, IInv, Stage, Pending
  <2>2. CASE RenameCommit(r)
    <3>1. db' = RenameSymbol(UpsertSymbol(db, input[r].ident), sym[r], Renamed(input[r]).name)
      BY <2>1, <2>2 DEF RenameCommit, Uncommitted
    <3> QED BY <1>1, <2>1, <3>1, RenameKeepsAnchors
  <2>3. CASE DeleteCommit(r)
    <3>1. db' = db \/ db' = TombstoneSymbol(db, sym[r])
      BY <2>1, <2>3 DEF DeleteCommit, Uncommitted
    <3> QED BY <1>1, <3>1, TombstoneKeepsAnchors
  <2> QED BY <1>2, <2>2, <2>3
<1>3. ASSUME NEW r \in Request, InsertSymbolRow(r) \/ Discover(r) \/ Trace(r)
      PROVE  /\ db'.anchors = db.anchors /\ db'.lastAnchor = db.lastAnchor
             /\ db'.chunks = db.chunks
  BY <1>1, <1>3 DEF InsertSymbolRow, Discover, Trace, InsertSymbol, DiscoverSymbol, AppendHistory,
                    Database
<1>4. ASSUME NEW r \in Request, Accept(r) \/ LockTimeout(r) \/ Upstream(r) \/ Cancel(r)
      PROVE  UNCHANGED db
  BY <1>4 DEF Accept, LockTimeout, Upstream, SerenaActs, MemPalaceStores, Refuse, Cancel, store
<1>5. ASSUME NEW r \in Request,
             \/ RenameBegin(r) \/ DeleteBegin(r) \/ Rollback(r) \/ KgAdd(r) \/ KgEnd(r) \/ Publish(r)
             \/ DrawerLookup(r) \/ Resolve(r) \/ MemAddReply(r) \/ Touch(r) \/ AnchorSelect(r)
             \/ Scan(r) \/ CheckDrawer(r) \/ DryPurge(r)
      PROVE  UNCHANGED db
  BY <1>5 DEF RenameBegin, DeleteBegin, Rollback, KgAdd, KgEnd, Publish, DrawerLookup, Resolve,
              MemAddReply, Touch, AnchorSelect, Scan, CheckDrawer, DryPurge, store
<1>6. ASSUME \/ \E d \in Drawer : DeleteDrawer(d) \/ StoreDrawer(d)
             \/ \E s \in Server : Crash(s)
             \/ UNCHANGED vars
      PROVE  UNCHANGED db
  BY <1>6 DEF DeleteDrawer, StoreDrawer, Crash, vars, store
<1> QED BY <1>2, <1>3, <1>4, <1>5, <1>6 DEF Next, Handle

\* The rows a reconciler pass works on come from the anchor table or from itself.
LEMMA PassRows ==
  ASSUME Strong, NEW r \in Request, Own(r)
  PROVE  /\ todo'[r] \cup stale'[r] \subseteq todo[r] \cup stale[r] \cup db.anchors
         /\ pc'[r] = "trace" => \E a \in stale[r] : sym'[r] = a.sym
<1>1. /\ pc \in [Request -> Pc] /\ sym \in [Request -> Nat]
      /\ todo \in [Request -> SUBSET AnchorRow] /\ stale \in [Request -> SUBSET AnchorRow]
  BY DEF Strong, IInv, TypeOK
<1>2. CASE Scan(r)
  BY <1>1, <1>2 DEF Scan, Goto
<1>3. CASE CheckDrawer(r)
  BY <1>1, <1>3 DEF CheckDrawer, Goto
<1>4. CASE Purge(r)
  BY <1>1, <1>4 DEF Purge, Goto
<1>5. CASE Accept(r)
  <2>1. pc'[r] # "trace"
    BY <1>1, <1>5, MenuAssumption, InputFields DEF Accept, Goto, FirstPc
  <2> QED BY <1>5, <2>1 DEF Accept
<1>6. CASE LockTimeout(r) \/ (Handle(r) /\ ~Scan(r) /\ ~CheckDrawer(r) /\ ~Purge(r))
  <2>1. UNCHANGED <<todo, stale>>
    BY <1>6
       DEF Handle, LockTimeout, RenameBegin, DeleteBegin, RenameCommit, DeleteCommit, Rollback, KgAdd,
           KgEnd, Publish, DrawerLookup, Resolve, MemAddReply, InsertSymbolRow, Discover, Touch,
           AnchorSelect, AnchorInsert, ChunkInsert, Trace, DryPurge, local
  <2>2. pc'[r] # "trace"
    BY <1>1, <1>6
       DEF Handle, LockTimeout, Goto, RenameBegin, DeleteBegin, RenameCommit, DeleteCommit, Rollback,
           KgAdd, KgEnd, Publish, DrawerLookup, Found, Resolve, MemAddReply, SelectSymbol,
           InsertSymbolRow, Discover, Touch, AnchorSelect, AnchorInsert, ChunkInsert, Trace, DryPurge
  <2> QED BY <2>1, <2>2
<1> QED BY <1>2, <1>3, <1>4, <1>5, <1>6 DEF Own

\* No anchor, and no row a pass works on, is about a symbol without a row.
LEMMA AnchorsOwnedStep ==
  ASSUME Strong, LedgerInv, [Next]_vars PROVE AnchorsOwned'
<1>1. /\ db \in Database /\ DOMAIN db.symbols \subseteq DOMAIN db'.symbols /\ AnchorsOwned
  BY StepKeeps DEF Strong, IInv, Sound, LedgerInv
<1>2. ASSUME NEW a \in db'.anchors PROVE a.sym \in DOMAIN db'.symbols
  <2>1. ASSUME NEW r \in Request, AnchorInsert(r) PROVE a.sym \in DOMAIN db.symbols
    <3>1. sym[r] \in DOMAIN db.symbols
      BY <2>1 DEF AnchorInsert, Strong, RowBound, RowPc
    <3> DEFINE new == [id |-> db.lastAnchor + 1, sym |-> sym[r], drawer |-> input[r].drawer]
    <3>2. db'.anchors = db.anchors \/ db'.anchors = db.anchors \cup {new}
      BY <1>1, <2>1 DEF AnchorInsert, InsertAnchor, Database
    <3>3. new.sym = sym[r]
      OBVIOUS
    <3> HIDE DEF new
    <3> QED BY <1>1, <3>1, <3>2, <3>3 DEF AnchorsOwned
  <2>2. ASSUME NEW r \in Request, ChunkInsert(r) \/ Purge(r) PROVE a \in db.anchors
    BY <1>1, <2>2 DEF ChunkInsert, Purge, InsertChunkAnchor, DeleteAnchor, Database
  <2> QED BY <1>1, <2>1, <2>2, AnchorWritersOnly DEF AnchorsOwned
<1>3. ASSUME NEW r \in Request
      PROVE  /\ \A a \in todo'[r] \cup stale'[r] : a.sym \in DOMAIN db'.symbols
             /\ pc'[r] = "trace" => sym'[r] \in DOMAIN db'.symbols
  <2>1. CASE Own(r)
    <3>1. /\ todo'[r] \cup stale'[r] \subseteq todo[r] \cup stale[r] \cup db.anchors
          /\ pc'[r] = "trace" => \E a \in stale[r] : sym'[r] = a.sym
      BY <2>1, PassRows
    <3> QED BY <1>1, <3>1 DEF AnchorsOwned
  <2>2. CASE Untouched(r)
    BY <1>1, <2>2 DEF Untouched, AnchorsOwned
  <2> QED BY <2>1, <2>2, Footprint
<1> QED BY <1>2, <1>3 DEF AnchorsOwned

\* The ledger an earlier session left, with nothing in flight.
LEMMA LedgerInit == Init => LedgerInv
<1> SUFFICES ASSUME Init PROVE LedgerInv
  OBVIOUS
<1>1. Ledger(db)
  BY InitAssumption DEF Init, Ledger, RowsOwned
<1>2. Births
  BY DEF Init, Births
<1>3. AnchorsOwned
  BY InitAssumption DEF Init, AnchorsOwned
<1> QED BY <1>1, <1>2, <1>3 DEF LedgerInv

\* The ledger invariant, in every reachable state.
LEMMA LedgerInvariance == Spec => []LedgerInv
<1>1. Strong /\ LedgerInv /\ [Next]_vars => LedgerInv'
  <2> SUFFICES ASSUME Strong, LedgerInv, [Next]_vars PROVE LedgerInv'
    OBVIOUS
  <2>1. Ledger(db)'
    BY StepKeeps, Zenon DEF Ledger, LedgerFollows, RowsOwned
  <2> QED BY <2>1, BirthsStep, AnchorsOwnedStep DEF LedgerInv
<1> QED BY <1>1, LedgerInit, StrongInvariance, PTL DEF Spec

\* In every reachable state the rows of symbol_history lead from the discovery of each
\* symbol over its renames and its deletion to its row in the symbols table.
THEOREM LedgerTrue == Spec => []LedgerMatchesIdentity
<1>1. LedgerInv => LedgerMatchesIdentity
  BY DEF LedgerInv, Ledger, LedgerMatchesIdentity
<1> QED BY <1>1, LedgerInvariance, PTL

-----------------------------------------------------------------------------
(* Edits: what is in the ledger was performed by Serena, and is announced.  *)

ToldPc == {"kg_add", "kg_end", "publish"}

\* A request that is about to announce an edit has its row in the ledger.
Recorded ==
  \A r \in Request : pc[r] \in ToldPc => \E k \in DOMAIN db.history : db.history[k] = MoveRow(r)

\* Request r asked Serena for the edit in this row, was told it is done, and has announced
\* it or will, unless it is cut off.
Author(r, row) ==
  /\ remote[r] = "done" /\ input[r] \in Input /\ input[r].op \in {"rename", "delete"}
  /\ row = MoveRow(r)
  /\ pc[r] \in ToldPc \cup {"lost"} \/ (pc[r] = "ok" /\ Announcement(r) \in events)

\* Every move of this session has its author.
Authored ==
  \A k \in (Len(InitDb.history) + 1)..Len(db.history) :
    IsMove(db, k) => \E r \in Request : Author(r, db.history[k])

EditsInv == Recorded /\ Authored /\ AnnouncedOnlyIfCommitted

\* The steps into and out of the labels after a commit; a request that ended stays as it is.
LEMMA ToldSteps ==
  ASSUME Strong, NEW r \in Request, Own(r)
  PROVE  /\ pc'[r] \in ToldPc => Commits(r) \/ KgAdd(r) \/ KgEnd(r)
         /\ pc[r] \in ToldPc => KgAdd(r) \/ KgEnd(r) \/ Publish(r)
         /\ pc[r] \notin DonePc
<1>1. pc \in [Request -> Pc] /\ sym \in [Request -> Nat]
  BY DEF Strong, IInv, TypeOK
<1>2. CASE Accept(r) \/ LockTimeout(r)
  BY <1>1, <1>2, MenuAssumption, InputFields DEF Accept, LockTimeout, Goto, FirstPc, ToldPc
<1>3. CASE RenameBegin(r) \/ DeleteBegin(r) \/ Rollback(r)
  BY <1>1, <1>3 DEF RenameBegin, DeleteBegin, Rollback, Goto, Turn, ToldPc
<1>4. CASE RenameCommit(r) \/ DeleteCommit(r)
  BY <1>1, <1>4 DEF RenameCommit, DeleteCommit, Commits, Goto, Turn, ToldPc
<1>5. CASE KgAdd(r) \/ KgEnd(r) \/ Publish(r)
  BY <1>1, <1>5 DEF KgAdd, KgTurn, KgEnd, Publish, Goto, Turn, ToldPc
<1>6. CASE DrawerLookup(r) \/ Resolve(r) \/ MemAddReply(r) \/ InsertSymbolRow(r) \/ Discover(r)
  BY <1>1, <1>6 DEF DrawerLookup, Found, Resolve, MemAddReply, SelectSymbol, InsertSymbolRow,
                    Discover, Goto, Turn, ToldPc
<1>7. CASE Touch(r) \/ AnchorSelect(r) \/ AnchorInsert(r) \/ ChunkInsert(r)
  BY <1>1, <1>7 DEF Touch, AnchorSelect, AnchorInsert, ChunkInsert, Goto, Turn, ToldPc
<1>8. CASE Scan(r) \/ CheckDrawer(r) \/ Purge(r) \/ Trace(r) \/ DryPurge(r)
  BY <1>1, <1>8 DEF Scan, CheckDrawer, Purge, Trace, DryPurge, Goto, Turn, ToldPc
<1> QED BY <1>2, <1>3, <1>4, <1>5, <1>6, <1>7, <1>8 DEF Own, Handle

\* A commit puts the row of its request into the ledger and leaves its author behind.
LEMMA CommitAuthors ==
  ASSUME Strong, Ledger(db), NEW r \in Request, Commits(r)
  PROVE  /\ MoveRow(r)' = MoveRow(r)
         /\ \E k \in DOMAIN db'.history : db'.history[k] = MoveRow(r)
         /\ Author(r, MoveRow(r))'
<1>1. pc \in [Request -> Pc] /\ sym \in [Request -> Nat]
  BY DEF Strong, IInv, TypeOK
<1>2. input' = input /\ sym' = sym /\ remote' = remote /\ remote[r] = "done"
  BY DEF Commits, RenameCommit, DeleteCommit, Confirmed, local
<1>3. input[r] \in Input /\ input[r].op \in {"rename", "delete"}
  BY DEF Commits, RenameCommit, DeleteCommit, Turn, Strong, IInv, Stage
<1>4. pc'[r] \in ToldPc
  BY <1>1 DEF Commits, RenameCommit, DeleteCommit, Goto, ToldPc
<1>5. MoveRow(r)' = MoveRow(r)
  BY <1>2 DEF MoveRow
<1>6. \E k \in DOMAIN db'.history : db'.history[k] = MoveRow(r)
  BY CommitEvolves DEF Evolves
<1> QED BY <1>2, <1>3, <1>4, <1>5, <1>6 DEF Author

\* A request on its way to announcing keeps its row, as it keeps what it asked for.
LEMMA ToldKeeps ==
  ASSUME Strong, [Next]_vars, NEW r \in Request,
         pc[r] \in ToldPc \cup DonePc, ~(Own(r) /\ pc[r] \in DonePc)
  PROVE  /\ MoveRow(r)' = MoveRow(r) /\ Announcement(r)' = Announcement(r)
         /\ input'[r] = input[r]
         /\ remote[r] = "done" => remote'[r] = "done"
<1>1. CASE Untouched(r)
  BY <1>1 DEF Untouched, MoveRow, Announcement
<1>2. CASE Own(r)
  <2>1. KgAdd(r) \/ KgEnd(r) \/ Publish(r)
    BY <1>2, ToldSteps
  <2> QED BY <2>1 DEF KgAdd, KgEnd, Publish, local, MoveRow, Announcement
<1> QED BY <1>1, <1>2, Footprint

\* A call that tells of its edit has its row in the ledger and keeps it.
LEMMA RecordedStep ==
  ASSUME Strong, LedgerInv, Recorded, [Next]_vars PROVE Recorded'
<1> SUFFICES ASSUME NEW r \in Request, pc'[r] \in ToldPc
             PROVE  \E k \in DOMAIN db'.history : db'.history[k] = MoveRow(r)'
  BY DEF Recorded
<1>1. CASE Commits(r)
  BY <1>1, CommitAuthors DEF LedgerInv
<1>2. CASE ~Commits(r)
  <2>1. pc[r] \in ToldPc
    <3>1. CASE Untouched(r)
      BY <3>1 DEF Untouched, ToldPc
    <3>2. CASE Own(r)
      BY <1>2, <3>2, ToldSteps DEF KgAdd, KgTurn, KgEnd, Turn, ToldPc
    <3> QED BY <3>1, <3>2, Footprint
  <2>2. MoveRow(r)' = MoveRow(r)
    BY <2>1, ToldKeeps DEF ToldPc
  <2>3. PICK k \in DOMAIN db.history : db.history[k] = MoveRow(r)
    BY <2>1 DEF Recorded
  <2> QED BY <2>2, <2>3, StepKeeps
<1> QED BY <1>1, <1>2

\* Announcements accumulate; three statements make them, each with what the request asked.
LEMMA Tellers ==
  ASSUME [Next]_vars
  PROVE  \/ \E r \in Request : Publish(r) \/ KgAdd(r) \/ KgEnd(r)
         \/ events' = events /\ kg' = kg
<1>1. ASSUME NEW r \in Request,
             \/ Accept(r) \/ LockTimeout(r) \/ RenameBegin(r) \/ DeleteBegin(r) \/ RenameCommit(r)
             \/ DeleteCommit(r) \/ Rollback(r)
      PROVE  events' = events /\ kg' = kg
  BY <1>1 DEF Accept, LockTimeout, RenameBegin, DeleteBegin, RenameCommit, DeleteCommit, Rollback,
              told
<1>2. ASSUME NEW r \in Request,
             \/ DrawerLookup(r) \/ Resolve(r) \/ MemAddReply(r) \/ InsertSymbolRow(r) \/ Discover(r)
             \/ Touch(r) \/ AnchorSelect(r) \/ AnchorInsert(r) \/ ChunkInsert(r)
             \/ Scan(r) \/ CheckDrawer(r) \/ Purge(r) \/ Trace(r) \/ DryPurge(r)
             \/ Upstream(r) \/ Cancel(r)
      PROVE  events' = events /\ kg' = kg
  BY <1>2 DEF DrawerLookup, Resolve, MemAddReply, InsertSymbolRow, Discover, Touch, AnchorSelect,
              AnchorInsert, ChunkInsert, Scan, CheckDrawer, Purge, Trace, DryPurge, Upstream,
              SerenaActs, MemPalaceStores, Refuse, Cancel, told
<1>3. ASSUME \/ \E d \in Drawer : DeleteDrawer(d) \/ StoreDrawer(d)
             \/ \E s \in Server : Crash(s)
             \/ UNCHANGED vars
      PROVE  events' = events /\ kg' = kg
  BY <1>3 DEF DeleteDrawer, StoreDrawer, Crash, vars, told
<1> QED BY <1>1, <1>2, <1>3 DEF Next, Handle

\* Nothing that was told is taken back.
LEMMA ToldGrows == [Next]_vars => events \subseteq events'
BY Tellers DEF Publish, KgAdd, KgEnd

\* Who is the author of a row stays it.
LEMMA AuthorKept ==
  ASSUME Strong, [Next]_vars, NEW r \in Request, NEW row, Author(r, row)
  PROVE  Author(r, row)'
<1>1. pc \in [Request -> Pc]
  BY DEF Strong, IInv, TypeOK
<1>2. pc[r] \in ToldPc \cup DonePc
  BY DEF Author
<1>3. CASE Untouched(r)
  <2>1. /\ MoveRow(r)' = MoveRow(r) /\ Announcement(r)' = Announcement(r)
        /\ input'[r] = input[r] /\ remote'[r] = "done"
    BY <1>3 DEF Author, Untouched, MoveRow, Announcement
  <2>2. pc'[r] \in ToldPc \cup {"lost"} \/ (pc'[r] = "ok" /\ pc[r] = "ok")
    BY <1>3 DEF Author, Untouched
  <2> QED BY <2>1, <2>2, ToldGrows DEF Author, ToldPc
<1>4. CASE Own(r)
  <2>1. pc[r] \in ToldPc /\ (KgAdd(r) \/ KgEnd(r) \/ Publish(r))
    BY <1>2, <1>4, ToldSteps
  <2>2. /\ MoveRow(r)' = MoveRow(r) /\ Announcement(r)' = Announcement(r)
        /\ input'[r] = input[r] /\ remote'[r] = "done"
    BY <2>1, ToldKeeps DEF ToldPc, Author
  <2>3. pc'[r] \in ToldPc \/ (pc'[r] = "ok" /\ Announcement(r) \in events')
    BY <1>1, <2>1 DEF KgAdd, KgEnd, Publish, Goto, ToldPc
  <2> QED BY <2>2, <2>3 DEF Author
<1> QED BY <1>3, <1>4, Footprint

\* Every move of the session keeps its author, and a new one gets one.
LEMMA AuthoredStep ==
  ASSUME Strong, LedgerInv, Authored, [Next]_vars PROVE Authored'
<1>0. db \in Database /\ db' \in Database
  BY StrongStep DEF Kept, Strong, IInv, Sound
<1>1. Len(db.history) \in Nat /\ DOMAIN db.history = 1..Len(db.history)
      /\ Len(db'.history) \in Nat /\ DOMAIN db'.history = 1..Len(db'.history)
      /\ Len(InitDb.history) \in Nat
  BY <1>0, InitAssumption, LenProperties DEF Database
<1> SUFFICES ASSUME NEW k \in (Len(InitDb.history) + 1)..Len(db'.history), IsMove(db', k),
                    NEW row, row = db'.history[k]
             PROVE  \E r \in Request : Author(r, row)'
  BY DEF Authored, Author, MoveRow, IsMove
<1>2. CASE k \in DOMAIN db.history
  <2>1. row = db.history[k] /\ IsMove(db, k)
    BY <1>2, StepKeeps DEF IsMove
  <2>2. PICK r \in Request : Author(r, row)
    BY <1>1, <1>2, <2>1 DEF Authored
  <2> QED BY <2>2, AuthorKept
<1>3. CASE k \notin DOMAIN db.history
  <2>1. k \in DOMAIN db'.history \ DOMAIN db.history
    BY <1>1, <1>3
  <2>2. PICK r \in Request : Commits(r) /\ Evolves(db, db', {MoveRow(r)})
    BY <2>1, StepEvolves DEF Evolves
  <2>3. row = MoveRow(r)
    BY <2>1, <2>2 DEF Evolves
  <2>4. MoveRow(r)' = row /\ Author(r, MoveRow(r))'
    BY <2>2, <2>3, CommitAuthors DEF LedgerInv
  <2>5. Author(r, row)'
    BY <2>4 DEF Author
  <2> QED BY <2>5
<1> QED BY <1>2, <1>3

\* Every announcement is about a row of the ledger: the request made its commit before it.
LEMMA AnnouncedStep ==
  ASSUME Strong, LedgerInv, Recorded, AnnouncedOnlyIfCommitted, [Next]_vars
  PROVE  AnnouncedOnlyIfCommitted'
<1>1. \A k \in DOMAIN db.history : k \in DOMAIN db'.history /\ db'.history[k] = db.history[k]
  BY StepKeeps
<1>2. ASSUME NEW r \in Request, Publish(r) \/ KgAdd(r) \/ KgEnd(r)
      PROVE  /\ \E k \in DOMAIN db.history : db.history[k] = MoveRow(r)
             /\ input[r].op \in {"rename", "delete"}
  BY <1>2 DEF Publish, KgAdd, KgTurn, KgEnd, Turn, ToldPc, Recorded, Strong, IInv, Stage
<1>3. ASSUME NEW e \in events'
      PROVE  \E k \in DOMAIN db.history :
               /\ db.history[k].sym = e.sym /\ db.history[k].old = e.old
               /\ IF e.type = "symbol.renamed" THEN db.history[k].new = e.new
                  ELSE db.history[k].source = "engram-delete"
  <2>1. CASE e \in events
    BY <2>1 DEF AnnouncedOnlyIfCommitted
  <2>2. CASE e \notin events
    <3>1. PICK r \in Request : Publish(r)
      BY <1>3, <2>2, Tellers DEF KgAdd, KgEnd
    <3>2. e = Announcement(r)
      BY <1>3, <2>2, <3>1 DEF Publish
    <3>3. PICK k \in DOMAIN db.history : db.history[k] = MoveRow(r)
      BY <1>2, <3>1
    <3>4. CASE input[r].op = "rename"
      <4>1. /\ e.type = "symbol.renamed" /\ e.sym = sym[r] /\ e.old = input[r].ident.name
            /\ e.new = Renamed(input[r]).name
        BY <3>2, <3>4 DEF Announcement
      <4> QED BY <3>3, <3>4, <4>1 DEF MoveRow
    <3>5. CASE input[r].op = "delete"
      <4>1. e.type = "symbol.tombstoned" /\ e.sym = sym[r] /\ e.old = input[r].ident.name
        BY <3>2, <3>5 DEF Announcement
      <4> QED BY <3>3, <3>5, <4>1 DEF MoveRow
    <3> QED BY <1>2, <3>1, <3>4, <3>5
  <2> QED BY <2>1, <2>2
<1>4. ASSUME NEW f \in kg'
      PROVE  \E k \in DOMAIN db.history :
               /\ IsMove(db, k) /\ db.history[k].old = f.of
               /\ f.rel = "renamed_to" => db.history[k].new = f.to
  <2>1. CASE f \in kg
    BY <2>1 DEF AnnouncedOnlyIfCommitted
  <2>2. CASE f \notin kg
    <3>1. PICK r \in Request : KgAdd(r) \/ KgEnd(r)
      BY <1>4, <2>2, Tellers DEF Publish
    <3>2. PICK k \in DOMAIN db.history : db.history[k] = MoveRow(r)
      BY <1>2, <3>1
    <3>3. IsMove(db, k) /\ db.history[k].old = input[r].ident.name
      BY <1>2, <3>1, <3>2 DEF IsMove, MoveSource, MoveRow
    <3>4. CASE KgAdd(r)
      <4>1. input[r].op = "rename"
        BY <3>4 DEF KgAdd, KgTurn, Strong, IInv, Stage
      <4>2. f = [rel |-> "renamed_to", of |-> input[r].ident.name, to |-> Renamed(input[r]).name]
        BY <1>4, <2>2, <3>4 DEF KgAdd
      <4>3. db.history[k].new = Renamed(input[r]).name
        BY <3>2, <4>1 DEF MoveRow
      <4> QED BY <3>3, <4>2, <4>3
    <3>5. CASE KgEnd(r)
      <4>1. f = [rel |-> "ended", of |-> input[r].ident.name]
        BY <1>4, <2>2, <3>5 DEF KgEnd
      <4> QED BY <3>3, <4>1
    <3> QED BY <3>1, <3>4, <3>5
  <2> QED BY <2>1, <2>2
<1>5. \A e \in events' : \E k \in DOMAIN db'.history :
        /\ db'.history[k].sym = e.sym /\ db'.history[k].old = e.old
        /\ IF e.type = "symbol.renamed" THEN db'.history[k].new = e.new
           ELSE db'.history[k].source = "engram-delete"
  <2> SUFFICES ASSUME NEW e \in events'
               PROVE  \E k \in DOMAIN db'.history :
                        /\ db'.history[k].sym = e.sym /\ db'.history[k].old = e.old
                        /\ IF e.type = "symbol.renamed" THEN db'.history[k].new = e.new
                           ELSE db'.history[k].source = "engram-delete"
    OBVIOUS
  <2>1. PICK k \in DOMAIN db.history :
               /\ db.history[k].sym = e.sym /\ db.history[k].old = e.old
               /\ IF e.type = "symbol.renamed" THEN db.history[k].new = e.new
                  ELSE db.history[k].source = "engram-delete"
    BY <1>3
  <2>2. k \in DOMAIN db'.history /\ db'.history[k] = db.history[k]
    BY <1>1
  <2> QED BY <2>1, <2>2
<1>6. \A f \in kg' : \E k \in DOMAIN db'.history :
        /\ IsMove(db', k) /\ db'.history[k].old = f.of
        /\ f.rel = "renamed_to" => db'.history[k].new = f.to
  <2> SUFFICES ASSUME NEW f \in kg'
               PROVE  \E k \in DOMAIN db'.history :
                        /\ IsMove(db', k) /\ db'.history[k].old = f.of
                        /\ f.rel = "renamed_to" => db'.history[k].new = f.to
    OBVIOUS
  <2>1. PICK k \in DOMAIN db.history : /\ IsMove(db, k) /\ db.history[k].old = f.of
                                       /\ f.rel = "renamed_to" => db.history[k].new = f.to
    BY <1>4
  <2>2. k \in DOMAIN db'.history /\ db'.history[k] = db.history[k]
    BY <1>1
  <2>3. IsMove(db', k)
    BY <2>1, <2>2 DEF IsMove
  <2> QED BY <2>1, <2>2, <2>3
<1> QED BY <1>5, <1>6 DEF AnnouncedOnlyIfCommitted, IsMove

\* Nothing was announced and no row of this session written before the first request.
LEMMA EditsInit == Init => EditsInv
<1> SUFFICES ASSUME Init PROVE EditsInv
  OBVIOUS
<1>1. Recorded
  BY DEF Init, Recorded, ToldPc
<1>2. Len(InitDb.history) \in Nat /\ db = InitDb
  BY InitAssumption, LenProperties DEF Database, Init
<1>3. Authored
  BY <1>2 DEF Authored
<1>4. AnnouncedOnlyIfCommitted
  BY DEF Init, AnnouncedOnlyIfCommitted
<1> QED BY <1>1, <1>3, <1>4 DEF EditsInv

\* The announcements match the ledger, in every reachable state.
LEMMA EditsInvariance == Spec => []EditsInv
<1>1. Strong /\ LedgerInv /\ EditsInv /\ [Next]_vars => EditsInv'
  BY RecordedStep, AuthoredStep, AnnouncedStep DEF EditsInv
<1> QED BY <1>1, EditsInit, StrongInvariance, LedgerInvariance, PTL DEF Spec

\* No rename or deletion of this session is in the committed ledger unless the Serena call
\* of its request was answered with success, for exactly that symbol and name.
THEOREM OnlyApplied == Spec => []CommittedOnlyIfApplied
<1>1. EditsInv => CommittedOnlyIfApplied
  <2> SUFFICES ASSUME EditsInv, NEW k \in (Len(InitDb.history) + 1)..Len(db.history), IsMove(db, k)
               PROVE  \E r \in Request :
                        /\ remote[r] = "done" /\ sym[r] = db.history[k].sym
                        /\ input[r].op = IF db.history[k].source = "engram-rename" THEN "rename"
                                         ELSE "delete"
                        /\ input[r].ident.name = db.history[k].old
                        /\ input[r].op = "rename" => Renamed(input[r]).name = db.history[k].new
    BY DEF CommittedOnlyIfApplied
  <2>1. PICK r \in Request : Author(r, db.history[k])
    BY DEF EditsInv, Authored
  <2> QED BY <2>1 DEF Author, MoveRow
<1> QED BY <1>1, EditsInvariance, PTL

\* Every rename or deletion of this session in the ledger is published on the hook bus, or
\* its request is still on the way there, or was cut off on it.
THEOREM EveryEditAnnounced == Spec => []CommittedIsAnnounced
<1>1. EditsInv => CommittedIsAnnounced
  <2> SUFFICES ASSUME EditsInv, NEW k \in (Len(InitDb.history) + 1)..Len(db.history), IsMove(db, k)
               PROVE  \/ \E e \in events : /\ e.sym = db.history[k].sym /\ e.old = db.history[k].old
                                           /\ e.type = "symbol.renamed" => e.new = db.history[k].new
                      \/ \E r \in Request : /\ pc[r] \in {"kg_add", "kg_end", "publish", "lost"}
                                            /\ sym[r] = db.history[k].sym
                                            /\ input[r].op \in {"rename", "delete"}
                                            /\ input[r].ident.name = db.history[k].old
    BY DEF CommittedIsAnnounced
  <2>1. PICK r \in Request : Author(r, db.history[k])
    BY DEF EditsInv, Authored
  <2>2. CASE pc[r] \in ToldPc \cup {"lost"}
    BY <2>1, <2>2 DEF Author, MoveRow, ToldPc
  <2>3. CASE pc[r] = "ok" /\ Announcement(r) \in events
    BY <2>1, <2>3 DEF Author, MoveRow, Announcement
  <2> QED BY <2>1, <2>2, <2>3 DEF Author
<1> QED BY <1>1, EditsInvariance, PTL

\* The hook bus and the knowledge graph are told of committed changes only.
THEOREM OnlyCommittedAnnounced == Spec => []AnnouncedOnlyIfCommitted
<1>1. EditsInv => AnnouncedOnlyIfCommitted
  BY DEF EditsInv
<1> QED BY <1>1, EditsInvariance, PTL
=============================================================================
