---------------------------- MODULE AnchorProofs ----------------------------
(***************************************************************************)
(* What the callers were told is true: an anchoring that succeeded hangs   *)
(* on the symbol its caller named and stays until a reconciler pass misses *)
(* its drawer, a pass leaves a trace of all it removed, and an edit        *)
(* reported as failed did not happen.                                      *)
(*                                                                         *)
(* What only holds as long as a certain fault does not strike has the      *)
(* absence of this fault as a hypothesis; the runs that allow the fault    *)
(* show the property violated.                                             *)
(***************************************************************************)
EXTENDS LedgerProofs

USE DEF Pc, AwaitPc, SyncPc, WritePc, DonePc

-----------------------------------------------------------------------------
(* Anchors hang on the symbol that was named. *)

\* The row an anchoring request works on, or has answered with, is the one that had the
\* identity the caller named.
Named ==
  \A r \in Request :
    (pc[r] \in RowPc \cup {"ok"} /\ input[r].op \in {"anchor", "mem_add"}) =>
      sym[r] \in DOMAIN db.symbols /\ Leads(db, sym[r], input[r].ident)

\* How an anchoring request comes to its row, and how it goes on with it.
LEMMA RowPcSteps ==
  ASSUME Strong, NEW r \in Request, Own(r), pc'[r] \in RowPc \cup {"ok"},
         input'[r].op \in {"anchor", "mem_add"}
  PROVE  \/ (Resolve(r) \/ MemAddReply(r)) /\ pc'[r] = "touch"
         \/ InsertSymbolRow(r) /\ pc'[r] = "discover"
         \/ /\ pc[r] \in RowPc /\ input'[r] = input[r] /\ sym'[r] = sym[r]
            /\ (Discover(r) \/ Touch(r) \/ AnchorSelect(r) \/ AnchorInsert(r))
<1>1. /\ pc \in [Request -> Pc] /\ sym \in [Request -> Nat] /\ Stage(r)
  BY DEF Strong, IInv, TypeOK
<1>2. CASE Accept(r) \/ LockTimeout(r)
  <2>1. pc'[r] \notin RowPc \cup {"ok"}
    BY <1>1, <1>2, MenuAssumption, InputFields DEF Accept, LockTimeout, Goto, FirstPc, RowPc
  <2> QED BY <2>1
<1>3. CASE RenameBegin(r) \/ DeleteBegin(r) \/ Rollback(r)
  BY <1>1, <1>3 DEF RenameBegin, DeleteBegin, Rollback, Goto, Turn, RowPc
<1>4. CASE RenameCommit(r) \/ DeleteCommit(r) \/ KgAdd(r) \/ KgEnd(r) \/ Publish(r)
  BY <1>1, <1>4 DEF RenameCommit, DeleteCommit, KgAdd, KgTurn, KgEnd, Publish, Goto, Turn, RowPc,
                    Stage, local
<1>5. CASE DrawerLookup(r) \/ ChunkInsert(r)
  BY <1>1, <1>5 DEF DrawerLookup, Found, ChunkInsert, Goto, Turn, RowPc, Stage, local
<1>6. CASE Resolve(r) \/ MemAddReply(r) \/ InsertSymbolRow(r)
  BY <1>1, <1>6 DEF Resolve, MemAddReply, SelectSymbol, InsertSymbolRow, Goto, Turn, RowPc
<1>7. CASE Discover(r) \/ Touch(r) \/ AnchorSelect(r) \/ AnchorInsert(r)
  BY <1>7 DEF Discover, Touch, AnchorSelect, AnchorInsert, RowPc, local
<1>8. CASE Scan(r) \/ CheckDrawer(r) \/ Purge(r) \/ Trace(r) \/ DryPurge(r)
  BY <1>1, <1>8 DEF Scan, CheckDrawer, Purge, Trace, DryPurge, Turn, Stage, local
<1> QED BY <1>2, <1>3, <1>4, <1>5, <1>6, <1>7, <1>8 DEF Own, Handle

\* The row a call works on stays the one its identity leads to, whatever other connections commit.
LEMMA NamedStep ==
  ASSUME Strong, LedgerInv, Named, [Next]_vars PROVE Named'
<1> SUFFICES ASSUME NEW r \in Request, pc'[r] \in RowPc \cup {"ok"},
                    input'[r].op \in {"anchor", "mem_add"}
             PROVE  sym'[r] \in DOMAIN db'.symbols /\ Leads(db', sym'[r], input'[r].ident)
  BY DEF Named, Leads
<1>1. /\ db \in Database /\ pc \in [Request -> Pc] /\ sym \in [Request -> Nat] /\ Ledger(db)
  BY DEF Strong, IInv, TypeOK, Sound, LedgerInv
<1>2. CASE /\ pc[r] \in RowPc \cup {"ok"} /\ input'[r] = input[r] /\ sym'[r] = sym[r]
  <2>1. sym[r] \in DOMAIN db.symbols /\ Leads(db, sym[r], input[r].ident)
    BY <1>2 DEF Named
  <2> QED BY <1>2, <2>1, StepKeeps
<1>3. CASE Untouched(r)
  BY <1>2, <1>3 DEF Untouched, RowPc
<1>4. CASE (Resolve(r) \/ MemAddReply(r)) /\ pc'[r] = "touch"
  <2>1. /\ input' = input /\ db' = db /\ SelectSymbol(r)
        /\ input[r].ident \in Identity
    BY <1>1, <1>4, InputFields DEF Resolve, MemAddReply, Turn, Strong, IInv, Stage, store, Goto
  <2>2. sym'[r] = GetSymbol(db, input[r].ident) /\ sym'[r] # 0
    BY <1>1, <1>4, <2>1 DEF SelectSymbol, Goto
  <2>3. sym'[r] \in LiveRows(db, input[r].ident)
    BY <1>1, <2>1, <2>2, GetSymbolResult
  <2> QED BY <2>1, <2>3 DEF LiveRows, Leads
<1>5. CASE InsertSymbolRow(r) /\ pc'[r] = "discover"
  <2>1. /\ input' = input /\ db' = InsertSymbol(db, input[r].ident) /\ sym'[r] = NewSymbol(db)
        /\ input[r].ident \in Identity
    BY <1>1, <1>5, InputFields DEF InsertSymbolRow, Strong, IInv, Stage, Goto
  <2> QED BY <1>1, <2>1, InsertSymbolEvolves
<1>6. CASE Own(r)
  BY <1>2, <1>4, <1>5, <1>6, RowPcSteps
<1> QED BY <1>3, <1>6, Footprint

\* So it is in every reachable state.
LEMMA NamedInvariance == Spec => []Named
<1>1. Init => Named
  BY DEF Init, Named, RowPc
<1>2. Strong /\ LedgerInv /\ Named /\ [Next]_vars => Named'
  BY NamedStep
<1> QED BY <1>1, <1>2, StrongInvariance, LedgerInvariance, PTL DEF Spec

\* Every anchoring that succeeded hangs on the symbol its caller named, under that name or
\* under one the ledger leads to from it.
THEOREM AnchorsAsAsked == Spec => []AnchoredAsAsked
<1>1. Named => AnchoredAsAsked
  BY DEF Named, AnchoredAsAsked, Leads
<1> QED BY <1>1, NamedInvariance, PTL

-----------------------------------------------------------------------------
(* Failures are failures. *)

\* An edit that was not asked for, or was refused, stays so.
Refused ==
  \A r \in Request :
    (input[r] \in Input /\ input[r].op \in {"rename", "delete"}) =>
      /\ pc[r] = "begin" => remote[r] = "none"
      /\ pc[r] = "failed" => remote[r] \in {"none", "refused"}

\* Without lost replies a call fails only if its edit was refused or never sent.
LEMMA RefusedStep ==
  ASSUME "lost_reply" \notin Faults, Strong, Refused, [Next]_vars PROVE Refused'
<1> SUFFICES ASSUME NEW r \in Request, input'[r] \in Input, input'[r].op \in {"rename", "delete"}
             PROVE  /\ pc'[r] = "begin" => remote'[r] = "none"
                    /\ pc'[r] = "failed" => remote'[r] \in {"none", "refused"}
  BY DEF Refused
<1>1. /\ pc \in [Request -> Pc] /\ sym \in [Request -> Nat] /\ Stage(r)
      /\ remote \in [Request -> {"none", "asked", "done", "refused"}]
      /\ input \in [Request -> Input \cup {NoOne}]
  BY DEF Strong, IInv, TypeOK
<1>2. CASE Untouched(r)
  BY <1>2 DEF Untouched, Refused
<1>3. CASE Accept(r)
  BY <1>1, <1>3, MenuAssumption, InputFields DEF Accept, Goto, FirstPc
<1>4. CASE LockTimeout(r)
  BY <1>1, <1>4 DEF LockTimeout, Goto, Stage, local, Refused
<1>5. CASE RenameBegin(r) \/ DeleteBegin(r)
  BY <1>1, <1>5 DEF RenameBegin, DeleteBegin, Turn, Goto, Refused
<1>6. CASE Rollback(r)
  BY <1>1, <1>6 DEF Rollback, Denied, Turn, Goto
<1>7. CASE RenameCommit(r) \/ DeleteCommit(r) \/ KgAdd(r) \/ KgEnd(r) \/ Publish(r)
  BY <1>1, <1>7 DEF RenameCommit, DeleteCommit, KgAdd, KgEnd, Publish, Turn, Goto
<1>8. CASE \/ DrawerLookup(r) \/ Resolve(r) \/ MemAddReply(r) \/ InsertSymbolRow(r)
           \/ Discover(r) \/ Touch(r) \/ AnchorSelect(r) \/ AnchorInsert(r) \/ ChunkInsert(r)
  BY <1>1, <1>8 DEF DrawerLookup, Resolve, MemAddReply, InsertSymbolRow, Discover, Touch,
                    AnchorSelect, AnchorInsert, ChunkInsert, Turn, Stage, local
<1>9. CASE Scan(r) \/ CheckDrawer(r) \/ Purge(r) \/ Trace(r) \/ DryPurge(r)
  BY <1>1, <1>9 DEF Scan, CheckDrawer, Purge, Trace, DryPurge, Turn, Stage, local
<1> QED BY <1>2, <1>3, <1>4, <1>5, <1>6, <1>7, <1>8, <1>9, Footprint DEF Own, Handle

\* As long as no reply of Serena is lost, a rename or deletion that is reported as failed
\* was never performed.
THEOREM FailedEditsNotApplied ==
  ASSUME "lost_reply" \notin Faults PROVE Spec => []FailedMeansNotApplied
<1>1. Init => Refused
  BY DEF Init, Refused
<1>2. Strong /\ Refused /\ [Next]_vars => Refused'
  BY RefusedStep
<1>3. Strong /\ Refused => FailedMeansNotApplied
  BY DEF Strong, IInv, Stage, Refused, FailedMeansNotApplied
<1> QED BY <1>1, <1>2, <1>3, StrongInvariance, PTL DEF Spec

-----------------------------------------------------------------------------
(* Anchors stay until a pass finds their drawer missing. *)

\* Drawers go away by a deletion only, and what was missed once stays on record.
LEMMA WorldSteps ==
  ASSUME Strong, [Next]_vars
  PROVE  /\ \A d \in drawers \ drawers' : DeleteDrawer(d)
         /\ \A r \in Request : dangled[r] \subseteq dangled'[r]
<1>1. /\ dangled \in [Request -> SUBSET AnchorRow] /\ todo \in [Request -> SUBSET AnchorRow]
      /\ drawers \subseteq Drawer
  BY DEF Strong, IInv, TypeOK
<1>2. ASSUME NEW q \in Request, Accept(q) \/ Handle(q) \/ LockTimeout(q) \/ Cancel(q)
      PROVE  drawers' = drawers /\ \A r \in Request : dangled[r] \subseteq dangled'[r]
  <2>1. CASE \/ Accept(q) \/ LockTimeout(q) \/ RenameBegin(q) \/ DeleteBegin(q) \/ RenameCommit(q)
             \/ DeleteCommit(q) \/ Rollback(q) \/ KgAdd(q) \/ KgEnd(q) \/ Publish(q) \/ Cancel(q)
    BY <2>1 DEF Accept, LockTimeout, RenameBegin, DeleteBegin, RenameCommit, DeleteCommit, Rollback,
                KgAdd, KgEnd, Publish, Cancel, world
  <2>2. CASE \/ DrawerLookup(q) \/ Resolve(q) \/ MemAddReply(q) \/ InsertSymbolRow(q) \/ Discover(q)
             \/ Touch(q) \/ AnchorSelect(q) \/ AnchorInsert(q) \/ ChunkInsert(q)
             \/ CheckDrawer(q) \/ Purge(q) \/ Trace(q) \/ DryPurge(q)
    BY <2>2 DEF DrawerLookup, Resolve, MemAddReply, InsertSymbolRow, Discover, Touch, AnchorSelect,
                AnchorInsert, ChunkInsert, CheckDrawer, Purge, Trace, DryPurge, world
  <2>3. CASE Scan(q)
    BY <1>1, <2>3 DEF Scan
  <2> QED BY <1>2, <2>1, <2>2, <2>3 DEF Handle
<1>3. ASSUME NEW q \in Request, Upstream(q)
      PROVE  drawers \subseteq drawers' /\ dangled' = dangled
  BY <1>3 DEF Upstream, SerenaActs, MemPalaceStores, Refuse, world
<1>4. ASSUME NEW e \in Drawer, DeleteDrawer(e)
      PROVE  /\ \A d \in drawers \ drawers' : DeleteDrawer(d)
             /\ \A r \in Request : dangled[r] \subseteq dangled'[r]
  <2>1. drawers' = drawers \ {e}
    BY <1>4 DEF DeleteDrawer
  <2>2. \A d \in drawers \ drawers' : d = e
    BY <2>1
  <2>3. \A r \in Request : dangled[r] \subseteq dangled'[r]
    BY <1>4 DEF DeleteDrawer
  <2> QED BY <1>4, <2>2, <2>3
<1>5. ASSUME NEW e \in Drawer, StoreDrawer(e)
      PROVE  drawers \subseteq drawers' /\ dangled' = dangled
  BY <1>5 DEF StoreDrawer
<1>6. ASSUME NEW s \in Server, Crash(s)
      PROVE  drawers' = drawers /\ dangled' = dangled
  BY <1>6 DEF Crash, world
<1>7. CASE UNCHANGED vars
  BY <1>7 DEF vars, world
<1> QED BY <1>2, <1>3, <1>4, <1>5, <1>6, <1>7 DEF Next

\* What a step may do to the anchor tables.
LEMMA AnchorTables ==
  ASSUME Strong, [Next]_vars
  PROVE  /\ db.lastAnchor \in Nat /\ db'.lastAnchor \in Nat /\ db.lastAnchor <= db'.lastAnchor
         /\ \A a \in db'.anchors :
              \/ a \in db.anchors
              \/ \E r \in Request : /\ AnchorInsert(r) /\ a.id = db.lastAnchor + 1
                                    /\ a.sym = sym[r] /\ a.drawer = input[r].drawer
         /\ \A a \in db.anchors \ db'.anchors :
              \E r \in Request : Purge(r) /\ \E b \in stale[r] : a.id = b.id
         /\ db.chunks \subseteq db'.chunks
<1>1. db \in Database
  BY DEF Strong, IInv, Sound
<1>2. db.lastAnchor \in Nat
  BY <1>1 DEF Database
<1>3. ASSUME NEW r \in Request, AnchorInsert(r)
      PROVE  /\ db'.lastAnchor \in Nat /\ db.lastAnchor <= db'.lastAnchor
             /\ \A a \in db'.anchors :
                  \/ a \in db.anchors
                  \/ /\ a.id = db.lastAnchor + 1 /\ a.sym = sym[r] /\ a.drawer = input[r].drawer
             /\ db.anchors \subseteq db'.anchors /\ db.chunks \subseteq db'.chunks
  <2> DEFINE new == [id |-> db.lastAnchor + 1, sym |-> sym[r], drawer |-> input[r].drawer]
  <2>1. \/ db' = db
        \/ /\ db'.anchors = db.anchors \cup {new} /\ db'.lastAnchor = db.lastAnchor + 1
           /\ db'.chunks = db.chunks
    BY <1>1, <1>3 DEF AnchorInsert, InsertAnchor, Database
  <2>2. new.id = db.lastAnchor + 1 /\ new.sym = sym[r] /\ new.drawer = input[r].drawer
    OBVIOUS
  <2> HIDE DEF new
  <2> QED BY <1>2, <2>1, <2>2
<1>4. ASSUME NEW r \in Request, ChunkInsert(r)
      PROVE  /\ db'.lastAnchor = db.lastAnchor /\ db'.anchors = db.anchors
             /\ db.chunks \subseteq db'.chunks
  BY <1>1, <1>4 DEF ChunkInsert, InsertChunkAnchor, Database
<1>5. ASSUME NEW r \in Request, Purge(r)
      PROVE  /\ db'.lastAnchor = db.lastAnchor /\ db'.anchors \subseteq db.anchors
             /\ \A a \in db.anchors \ db'.anchors : \E b \in stale[r] : a.id = b.id
             /\ db'.chunks = db.chunks
  <2>1. PICK b \in stale[r] : db' = DeleteAnchor(db, b.id)
    BY <1>5 DEF Purge
  <2>2. /\ db'.lastAnchor = db.lastAnchor /\ db'.anchors = {a \in db.anchors : a.id # b.id}
        /\ db'.chunks = db.chunks
    BY <1>1, <2>1 DEF DeleteAnchor, Database
  <2> QED BY <2>2
<1> QED BY <1>2, <1>3, <1>4, <1>5, AnchorWritersOnly

\* A row of a pass is the one with its id or is gone, for ids are never given out twice.
Rows ==
  \A r \in Request : \A a \in todo[r] \cup stale[r] :
    /\ a.id <= db.lastAnchor
    /\ \A b \in db.anchors : a.id = b.id => a = b

\* A step keeps it: new anchors get new ids.
LEMMA RowsStep ==
  ASSUME Strong, Rows, [Next]_vars PROVE Rows'
<1>1. /\ db \in Database /\ db' \in Database /\ UniqueAnchors(db)
      /\ \A a \in db.anchors : a.id \in 1..db.lastAnchor
      /\ todo' \in [Request -> SUBSET AnchorRow] /\ stale' \in [Request -> SUBSET AnchorRow]
  BY StrongStep DEF Kept, Strong, IInv, Sound, TypeOK
<1> SUFFICES ASSUME NEW r \in Request, NEW a \in todo'[r] \cup stale'[r]
             PROVE  /\ a.id <= db'.lastAnchor
                    /\ \A b \in db'.anchors : a.id = b.id => a = b
  BY DEF Rows
<1>2. a \in todo[r] \cup stale[r] \cup db.anchors
  BY PassRows, Footprint DEF Untouched
<1>3. a.id \in Nat
  BY <1>1 DEF AnchorRow
<1>4. a.id <= db.lastAnchor /\ \A b \in db.anchors : a.id = b.id => a = b
  BY <1>1, <1>2, AnchorTables DEF Rows, UniqueAnchors
<1>5. ASSUME NEW b \in db'.anchors, a.id = b.id PROVE b \in db.anchors
  BY <1>3, <1>4, <1>5, AnchorTables
<1> QED BY <1>3, <1>4, <1>5, AnchorTables

\* As long as no lookup fails, the drawer of a row a pass found dangling was missing between
\* the scan and the lookup; and of the rows still to look up it is on record which were.
Dangling ==
  \A r \in Request :
    /\ stale[r] \subseteq dangled[r]
    /\ \A a \in todo[r] : (pc[r] = "check" /\ a.drawer \notin drawers) => a \in dangled[r]

\* A row is dangling once its drawer was looked for and not found.
LEMMA PassStale ==
  ASSUME Strong, NEW r \in Request, Own(r)
  PROVE  stale'[r] \subseteq stale[r] \cup {a \in todo[r] : pc[r] = "check" /\ Missing(a)}
<1>1. stale \in [Request -> SUBSET AnchorRow]
  BY DEF Strong, IInv, TypeOK
<1>2. CASE CheckDrawer(r)
  BY <1>1, <1>2 DEF CheckDrawer, Turn
<1>3. CASE Purge(r)
  BY <1>1, <1>3 DEF Purge
<1>4. CASE \/ Accept(r) \/ LockTimeout(r) \/ RenameBegin(r) \/ DeleteBegin(r) \/ RenameCommit(r)
           \/ DeleteCommit(r) \/ Rollback(r) \/ KgAdd(r) \/ KgEnd(r) \/ Publish(r)
  BY <1>4 DEF Accept, LockTimeout, RenameBegin, DeleteBegin, RenameCommit, DeleteCommit, Rollback,
              KgAdd, KgEnd, Publish, local
<1>5. CASE \/ DrawerLookup(r) \/ Resolve(r) \/ MemAddReply(r) \/ InsertSymbolRow(r) \/ Discover(r)
           \/ Touch(r) \/ AnchorSelect(r) \/ AnchorInsert(r) \/ ChunkInsert(r)
           \/ Scan(r) \/ Trace(r) \/ DryPurge(r)
  BY <1>5 DEF DrawerLookup, Resolve, MemAddReply, InsertSymbolRow, Discover, Touch, AnchorSelect,
              AnchorInsert, ChunkInsert, Scan, Trace, DryPurge, local
<1> QED BY <1>2, <1>3, <1>4, <1>5 DEF Own, Handle

\* How a pass comes to its rows, and how it goes on with them.
LEMMA PassChecks ==
  ASSUME Strong, NEW r \in Request, Own(r), pc'[r] = "check" PROVE Scan(r) \/ CheckDrawer(r)
<1>1. pc \in [Request -> Pc] /\ Stage(r)
  BY DEF Strong, IInv, TypeOK
<1>2. ~Accept(r) /\ ~LockTimeout(r)
  BY <1>1, MenuAssumption, InputFields DEF Accept, LockTimeout, Goto, FirstPc
<1>3. /\ ~RenameBegin(r) /\ ~DeleteBegin(r) /\ ~RenameCommit(r) /\ ~DeleteCommit(r) /\ ~Rollback(r)
      /\ ~KgAdd(r) /\ ~KgEnd(r) /\ ~Publish(r)
  BY <1>1 DEF RenameBegin, DeleteBegin, RenameCommit, DeleteCommit, Rollback, KgAdd, KgTurn, KgEnd,
              Publish, Goto, Turn
<1>4. /\ ~DrawerLookup(r) /\ ~Resolve(r) /\ ~MemAddReply(r) /\ ~InsertSymbolRow(r) /\ ~Discover(r)
      /\ ~Touch(r) /\ ~AnchorSelect(r) /\ ~AnchorInsert(r) /\ ~ChunkInsert(r)
  BY <1>1 DEF DrawerLookup, Found, Resolve, MemAddReply, SelectSymbol, InsertSymbolRow, Discover,
              Touch, AnchorSelect, AnchorInsert, ChunkInsert, Goto, Turn
<1>5. ~Purge(r) /\ ~Trace(r) /\ ~DryPurge(r)
  BY <1>1 DEF Purge, Trace, DryPurge, Goto
<1> QED BY <1>2, <1>3, <1>4, <1>5 DEF Own, Handle

\* Without failing lookups a pass takes only rows for stale whose drawer was missing.
LEMMA DanglingStep ==
  ASSUME "lookup" \notin Faults, Strong, Dangling, [Next]_vars PROVE Dangling'
<1> SUFFICES ASSUME NEW r \in Request
             PROVE  /\ stale'[r] \subseteq dangled'[r]
                    /\ \A a \in todo'[r] : (pc'[r] = "check" /\ a.drawer \notin drawers')
                                              => a \in dangled'[r]
  BY DEF Dangling
<1>1. /\ todo \in [Request -> SUBSET AnchorRow] /\ stale \in [Request -> SUBSET AnchorRow]
      /\ dangled \in [Request -> SUBSET AnchorRow] /\ dangled[r] \subseteq dangled'[r]
  BY WorldSteps DEF Strong, IInv, TypeOK
<1>2. stale'[r] \subseteq dangled'[r]
  <2>1. stale'[r] \subseteq stale[r] \cup {a \in todo[r] : pc[r] = "check" /\ Missing(a)}
    BY PassStale, Footprint DEF Untouched
  <2>2. ASSUME NEW a \in todo[r], pc[r] = "check", Missing(a) PROVE a \in dangled[r]
    BY <2>2 DEF Missing, LookupMisses, Dangling
  <2> QED BY <1>1, <2>1, <2>2 DEF Dangling
<1>3. ASSUME NEW a \in todo'[r], pc'[r] = "check", a.drawer \notin drawers'
      PROVE  a \in dangled'[r]
  <2>1. CASE Scan(r)
    BY <1>1, <1>3, <2>1 DEF Scan
  <2>2. CASE CheckDrawer(r)
    BY <1>1, <1>3, <2>2 DEF CheckDrawer, Turn, world, Dangling
  <2>3. CASE Untouched(r)
    <3>1. a \in todo[r] /\ pc[r] = "check"
      BY <1>3, <2>3 DEF Untouched
    <3>2. CASE a.drawer \notin drawers
      BY <1>1, <3>1, <3>2 DEF Dangling
    <3>3. CASE a.drawer \in drawers
      <4>1. DeleteDrawer(a.drawer)
        BY <1>3, <3>3, WorldSteps
      <4> QED BY <3>1, <4>1 DEF DeleteDrawer
    <3> QED BY <3>2, <3>3
  <2> QED BY <1>3, <2>1, <2>2, <2>3, PassChecks, Footprint
<1> QED BY <1>2, <1>3

\* What is removed from the anchor table is removed by a pass that missed its drawer.
LEMMA RemovedMissed ==
  ASSUME Strong, Rows, Dangling, [Next]_vars, NEW a \in db.anchors \ db'.anchors
  PROVE  \E r \in Request : pc[r] = "purge" /\ a \in dangled[r]
<1>1. PICK r \in Request : Purge(r) /\ \E b \in stale[r] : a.id = b.id
  BY AnchorTables
<1>2. PICK b \in stale[r] : a.id = b.id
  BY <1>1
<1>3. a \in stale[r] /\ pc[r] = "purge"
  BY <1>1, <1>2 DEF Rows, Purge
<1> QED BY <1>3 DEF Dangling

\* Some pass, going by the record rows, missed drawer d of an anchor of symbol s.
Missed(rows, s, d) == \E p \in Request : \E a \in rows[p] : a.sym = s /\ a.drawer = d

\* What an answered anchoring can rely on.
Acked ==
  \A r \in Request : pc[r] = "ok" =>
    /\ input[r].op \in {"anchor", "mem_add"} =>
         HasAnchor(db, sym[r], input[r].drawer) \/ Missed(dangled, sym[r], input[r].drawer)
    /\ input[r].op = "anchor_chunk" => HasChunkAnchor(db, input[r].drawer, input[r].chunk)

\* How an anchoring comes to its end.
LEMMA AnchorEnds ==
  ASSUME Strong, NEW r \in Request, Own(r), pc'[r] = "ok"
  PROVE  /\ input'[r].op \in {"anchor", "mem_add"} =>
              /\ input'[r] = input[r] /\ sym'[r] = sym[r]
              /\ \/ AnchorSelect(r) /\ HasAnchor(db, sym[r], input[r].drawer)
                 \/ AnchorInsert(r) /\ db' = InsertAnchor(db, sym[r], input[r].drawer)
         /\ input'[r].op = "anchor_chunk" =>
              /\ input'[r] = input[r]
              /\ \/ DrawerLookup(r) /\ HasChunkAnchor(db, input[r].drawer, input[r].chunk)
                 \/ ChunkInsert(r) /\ db' = InsertChunkAnchor(db, input[r].drawer, input[r].chunk)
<1>1. /\ pc \in [Request -> Pc] /\ sym \in [Request -> Nat] /\ Stage(r)
  BY DEF Strong, IInv, TypeOK
<1>2. ASSUME input'[r].op \in {"anchor", "mem_add"}
      PROVE  /\ input'[r] = input[r] /\ sym'[r] = sym[r]
             /\ \/ AnchorSelect(r) /\ HasAnchor(db, sym[r], input[r].drawer)
                \/ AnchorInsert(r) /\ db' = InsertAnchor(db, sym[r], input[r].drawer)
  <2>1. /\ input'[r] = input[r] /\ sym'[r] = sym[r]
        /\ Discover(r) \/ Touch(r) \/ AnchorSelect(r) \/ AnchorInsert(r)
    BY <1>2, RowPcSteps
  <2>2. ~Discover(r) /\ ~Touch(r)
    BY <1>1 DEF Discover, Touch, Goto
  <2>3. AnchorSelect(r) => HasAnchor(db, sym[r], input[r].drawer)
    BY <1>1 DEF AnchorSelect, Goto
  <2>4. AnchorInsert(r) => db' = InsertAnchor(db, sym[r], input[r].drawer)
    BY <1>1 DEF AnchorInsert, Goto
  <2> QED BY <2>1, <2>2, <2>3, <2>4
<1>3. ASSUME input'[r].op = "anchor_chunk"
      PROVE  /\ input'[r] = input[r]
             /\ \/ DrawerLookup(r) /\ HasChunkAnchor(db, input[r].drawer, input[r].chunk)
                \/ ChunkInsert(r) /\ db' = InsertChunkAnchor(db, input[r].drawer, input[r].chunk)
  <2>1. ~Accept(r) /\ ~LockTimeout(r)
    BY <1>1, MenuAssumption, InputFields DEF Accept, LockTimeout, Goto, FirstPc
  <2>2. ~RenameBegin(r) /\ ~DeleteBegin(r) /\ ~Rollback(r)
    BY <1>1 DEF RenameBegin, DeleteBegin, Rollback, Goto, Turn
  <2>3. ~RenameCommit(r) /\ ~DeleteCommit(r) /\ ~KgAdd(r) /\ ~KgEnd(r) /\ ~Publish(r)
    BY <1>1, <1>3 DEF RenameCommit, DeleteCommit, KgAdd, KgTurn, KgEnd, Publish, Goto, Turn, Stage,
                      local
  <2>4. ~Resolve(r) /\ ~MemAddReply(r) /\ ~InsertSymbolRow(r) /\ ~Discover(r) /\ ~Touch(r)
    BY <1>1 DEF Resolve, MemAddReply, SelectSymbol, InsertSymbolRow, Discover, Touch, Goto
  <2>5. ~AnchorSelect(r) /\ ~AnchorInsert(r)
    BY <1>1, <1>3 DEF AnchorSelect, AnchorInsert, Stage, local
  <2>6. ~Scan(r) /\ ~CheckDrawer(r) /\ ~Purge(r) /\ ~Trace(r) /\ ~DryPurge(r)
    BY <1>1, <1>3 DEF Scan, CheckDrawer, Purge, Trace, DryPurge, Turn, Stage, local
  <2>7. DrawerLookup(r) => /\ input'[r] = input[r]
                           /\ HasChunkAnchor(db, input[r].drawer, input[r].chunk)
    BY <1>1 DEF DrawerLookup, Found, Goto, local
  <2>8. ChunkInsert(r) => /\ input'[r] = input[r]
                          /\ db' = InsertChunkAnchor(db, input[r].drawer, input[r].chunk)
    BY <1>1 DEF ChunkInsert, Goto, local
  <2> QED BY <2>1, <2>2, <2>3, <2>4, <2>5, <2>6, <2>7, <2>8 DEF Own, Handle
<1> QED BY <1>2, <1>3

\* A step keeps what was answered, and an answer says what the tables hold.
LEMMA AckedStep ==
  ASSUME Strong, Rows, Dangling, Acked, [Next]_vars PROVE Acked'
<1> SUFFICES ASSUME NEW r \in Request, pc'[r] = "ok"
             PROVE  /\ input'[r].op \in {"anchor", "mem_add"} =>
                         \/ HasAnchor(db', sym'[r], input'[r].drawer)
                         \/ Missed(dangled', sym'[r], input'[r].drawer)
                    /\ input'[r].op = "anchor_chunk" =>
                         HasChunkAnchor(db', input'[r].drawer, input'[r].chunk)
  BY DEF Acked, HasAnchor, HasChunkAnchor
<1>1. /\ db \in Database /\ Stage(r)
      /\ pc \in [Request -> Pc] /\ sym \in [Request -> Nat]
  BY DEF Strong, IInv, Sound, TypeOK
<1>2. CASE Untouched(r)
  <2>1. pc[r] = "ok" /\ input'[r] = input[r] /\ sym'[r] = sym[r]
    BY <1>2 DEF Untouched
  <2>2. ASSUME input[r].op \in {"anchor", "mem_add"}
        PROVE  HasAnchor(db', sym[r], input[r].drawer) \/ Missed(dangled', sym'[r], input'[r].drawer)
    <3>1. CASE Missed(dangled, sym[r], input[r].drawer)
      <4>1. PICK p \in Request : \E a \in dangled[p] : a.sym = sym[r] /\ a.drawer = input[r].drawer
        BY <3>1 DEF Missed
      <4> QED BY <2>1, <4>1, WorldSteps DEF Missed
    <3>2. CASE HasAnchor(db, sym[r], input[r].drawer)
      <4>1. PICK a \in db.anchors : a.sym = sym[r] /\ a.drawer = input[r].drawer
        BY <3>2 DEF HasAnchor
      <4>2. CASE a \in db'.anchors
        BY <4>1, <4>2 DEF HasAnchor
      <4>3. CASE a \notin db'.anchors
        <5>1. PICK p \in Request : a \in dangled[p]
          BY <4>3, RemovedMissed
        <5> QED BY <2>1, <4>1, <5>1, WorldSteps DEF Missed
      <4> QED BY <4>2, <4>3
    <3> QED BY <2>1, <2>2, <3>1, <3>2 DEF Acked
  <2>3. ASSUME input[r].op = "anchor_chunk"
        PROVE  HasChunkAnchor(db', input[r].drawer, input[r].chunk)
    BY <2>1, <2>3, AnchorTables DEF Acked, HasChunkAnchor
  <2> QED BY <2>1, <2>2, <2>3
<1>3. CASE Own(r)
  <2>1. ASSUME input'[r].op \in {"anchor", "mem_add"}
        PROVE  HasAnchor(db', sym'[r], input'[r].drawer)
    <3>1. /\ input'[r] = input[r] /\ sym'[r] = sym[r]
          /\ \/ AnchorSelect(r) /\ HasAnchor(db, sym[r], input[r].drawer)
             \/ AnchorInsert(r) /\ db' = InsertAnchor(db, sym[r], input[r].drawer)
      BY <1>3, <2>1, AnchorEnds
    <3>2. CASE AnchorSelect(r) /\ HasAnchor(db, sym[r], input[r].drawer)
      BY <3>1, <3>2 DEF AnchorSelect, store
    <3>3. CASE db' = InsertAnchor(db, sym[r], input[r].drawer)
      <4> DEFINE new == [id |-> db.lastAnchor + 1, sym |-> sym[r], drawer |-> input[r].drawer]
      <4>1. db'.anchors = db.anchors \cup {new}
        BY <1>1, <3>3 DEF InsertAnchor, Database
      <4>2. new.sym = sym[r] /\ new.drawer = input[r].drawer
        OBVIOUS
      <4> HIDE DEF new
      <4> QED BY <3>1, <4>1, <4>2 DEF HasAnchor
    <3> QED BY <3>1, <3>2, <3>3
  <2>2. ASSUME input'[r].op = "anchor_chunk"
        PROVE  HasChunkAnchor(db', input'[r].drawer, input'[r].chunk)
    <3>1. /\ input'[r] = input[r]
          /\ \/ DrawerLookup(r) /\ HasChunkAnchor(db, input[r].drawer, input[r].chunk)
             \/ ChunkInsert(r) /\ db' = InsertChunkAnchor(db, input[r].drawer, input[r].chunk)
      BY <1>3, <2>2, AnchorEnds
    <3>2. CASE DrawerLookup(r) /\ HasChunkAnchor(db, input[r].drawer, input[r].chunk)
      BY <3>1, <3>2 DEF DrawerLookup, store
    <3>3. CASE db' = InsertChunkAnchor(db, input[r].drawer, input[r].chunk)
      BY <1>1, <3>1, <3>3 DEF InsertChunkAnchor, HasChunkAnchor, Database
    <3> QED BY <3>1, <3>2, <3>3
  <2> QED BY <2>1, <2>2
<1> QED BY <1>2, <1>3, Footprint

\* The anchor tables as the requests know them, in every reachable state.
AnchorsInv == Rows /\ Dangling /\ Acked

\* All of it in every reachable state.
LEMMA AnchorsInvariance ==
  ASSUME "lookup" \notin Faults PROVE Spec => []AnchorsInv
<1>1. Init => AnchorsInv
  BY DEF Init, AnchorsInv, Rows, Dangling, Acked
<1>2. Strong /\ AnchorsInv /\ [Next]_vars => AnchorsInv'
  BY RowsStep, DanglingStep, AckedStep DEF AnchorsInv
<1> QED BY <1>1, <1>2, StrongInvariance, PTL DEF Spec

\* As long as no drawer lookup fails, an anchor whose caller was told of it is there until a
\* pass misses its drawer, whatever is renamed, deleted, purged, cancelled or crashes; a
\* chunk anchor is there for good.
THEOREM AcknowledgedKept ==
  ASSUME "lookup" \notin Faults PROVE Spec => []AckedAnchorKept
<1>1. AnchorsInv => AckedAnchorKept
  BY DEF AnchorsInv, Acked, Missed, AckedAnchorKept
<1> QED BY <1>1, AnchorsInvariance, PTL

\* As long as no drawer lookup fails, a pass removes only rows it has read and whose drawer
\* was missing between that reading and the lookup, whoever stores and deletes drawers or
\* writes anchors meanwhile.
THEOREM OnlyMissedPurged ==
  ASSUME "lookup" \notin Faults PROVE Spec => PurgeOnlyMissed
<1>1. Strong /\ AnchorsInv /\ [Next]_vars
        => [\A a \in db.anchors \ db'.anchors :
              \E p \in Request : pc[p] = "purge" /\ a \in dangled[p]]_db
  BY RemovedMissed DEF AnchorsInv
<1> QED BY <1>1, AnchorsInvariance, StrongInvariance, PTL DEF Spec, PurgeOnlyMissed

-----------------------------------------------------------------------------
(* A reconciler pass leaves a trace of what it removes. *)

\* The ids given out that no anchor has any more; the rows a pass wrote; the passes that
\* removed an anchor and have not written its row, or ended without.
Gone(d)   == d.lastAnchor - Cardinality(d.anchors)
Traces(d) == {k \in DOMAIN d.history : d.history[k].source = "reconcile"}
Cut       == {r \in Request : /\ pc[r] \in {"trace", "failed", "lost"}
                              /\ input[r].op = "reconcile"}

\* Ids are unique and bounded, so there are finitely many anchors.
LEMMA FiniteAnchors ==
  ASSUME NEW d, Sound(d)
  PROVE  IsFiniteSet(d.anchors) /\ Cardinality(d.anchors) \in Nat /\ d.lastAnchor \in Nat
<1> DEFINE f == [a \in d.anchors |-> a.id]
<1>1. f \in Injection(d.anchors, 1..d.lastAnchor)
  BY DEF Injection, IsInjective, Sound, UniqueAnchors
<1>2. d.lastAnchor \in Nat
  BY DEF Sound, Database
<1>3. IsFiniteSet(1..d.lastAnchor)
  BY <1>2, FS_Interval
<1> HIDE DEF f
<1>4. IsFiniteSet(d.anchors)
  BY <1>1, <1>3, FS_Injection
<1> QED BY <1>2, <1>4, FS_CardinalityType

\* Only a deletion of the reconciler leaves an id without an anchor, and one at a time.
LEMMA GoneStep ==
  ASSUME Strong, [Next]_vars
  PROVE  /\ Gone(db') <= Gone(db) + 1
         /\ (\A r \in Request : ~Purge(r)) => Gone(db') <= Gone(db)
<1>1. /\ Sound(db) /\ Sound(db') /\ db \in Database /\ UniqueAnchors(db)
  BY StrongStep DEF Kept, Strong, IInv, Sound
<1>2. /\ IsFiniteSet(db.anchors) /\ Cardinality(db.anchors) \in Nat /\ db.lastAnchor \in Nat
      /\ IsFiniteSet(db'.anchors) /\ Cardinality(db'.anchors) \in Nat /\ db'.lastAnchor \in Nat
  BY <1>1, FiniteAnchors
<1>3. ASSUME NEW r \in Request, AnchorInsert(r) PROVE Gone(db') <= Gone(db)
  <2> DEFINE new == [id |-> db.lastAnchor + 1, sym |-> sym[r], drawer |-> input[r].drawer]
  <2>1. \/ db' = db
        \/ db'.anchors = db.anchors \cup {new} /\ db'.lastAnchor = db.lastAnchor + 1
    BY <1>1, <1>3 DEF AnchorInsert, InsertAnchor, Database
  <2>2. new.id = db.lastAnchor + 1
    OBVIOUS
  <2>3. new \notin db.anchors
    BY <1>1, <1>2, <2>2 DEF Sound
  <2> HIDE DEF new
  <2>4. Cardinality(db.anchors \cup {new}) = Cardinality(db.anchors) + 1
    BY <1>2, <2>3, FS_AddElement
  <2>5. \/ db' = db
        \/ /\ Cardinality(db'.anchors) = Cardinality(db.anchors) + 1
           /\ db'.lastAnchor = db.lastAnchor + 1
    BY <2>1, <2>4, Zenon
  <2>6. CASE db' = db
    BY <1>2, <2>6 DEF Gone
  <2> QED BY <1>2, <2>5, <2>6 DEF Gone
<1>4. ASSUME NEW r \in Request, Purge(r) PROVE Gone(db') <= Gone(db) + 1
  <2>1. PICK b \in stale[r] : db' = DeleteAnchor(db, b.id)
    BY <1>4 DEF Purge
  <2>2. db'.lastAnchor = db.lastAnchor /\ db'.anchors = {a \in db.anchors : a.id # b.id}
    BY <1>1, <2>1 DEF DeleteAnchor, Database
  <2>3. CASE \E a \in db.anchors : a.id = b.id
    <3>1. PICK a \in db.anchors : a.id = b.id
      BY <2>3
    <3>2. db'.anchors = db.anchors \ {a}
      BY <1>1, <2>2, <3>1 DEF UniqueAnchors
    <3>3. Cardinality(db.anchors \ {a}) = Cardinality(db.anchors) - 1
      BY <1>2, <3>1, FS_RemoveElement
    <3>4. Cardinality(db'.anchors) = Cardinality(db.anchors) - 1
      BY <3>2, <3>3, Zenon
    <3> QED BY <1>2, <2>2, <3>4 DEF Gone
  <2>4. CASE \A a \in db.anchors : a.id # b.id
    <3>1. Cardinality(db'.anchors) = Cardinality(db.anchors)
      BY <2>2, <2>4
    <3> QED BY <1>2, <2>2, <3>1 DEF Gone
  <2> QED BY <2>3, <2>4
<1>5. ASSUME NEW r \in Request, ChunkInsert(r) PROVE Gone(db') <= Gone(db)
  <2>1. db'.lastAnchor = db.lastAnchor /\ db'.anchors = db.anchors
    BY <1>1, <1>5 DEF ChunkInsert, InsertChunkAnchor, Database
  <2> QED BY <1>2, <2>1 DEF Gone
<1>6. Gone(db) \in Int /\ Gone(db') \in Int
  BY <1>2 DEF Gone
<1> QED BY <1>3, <1>4, <1>5, <1>6, AnchorWritersOnly DEF Gone

\* The rows of the reconciler stay, and a trace adds one.
LEMMA TracesStep ==
  ASSUME Strong, LedgerInv, [Next]_vars
  PROVE  /\ Cardinality(Traces(db)) \in Nat /\ Cardinality(Traces(db')) \in Nat
         /\ Cardinality(Traces(db)) <= Cardinality(Traces(db'))
         /\ (\E r \in Request : Trace(r))
              => Cardinality(Traces(db)) + 1 <= Cardinality(Traces(db'))
<1>1. db \in Database /\ db' \in Database
  BY StrongStep DEF Kept, Strong, IInv, Sound
<1>2. /\ Len(db.history) \in Nat /\ DOMAIN db.history = 1..Len(db.history)
      /\ Len(db'.history) \in Nat /\ DOMAIN db'.history = 1..Len(db'.history)
  BY <1>1, LenProperties DEF Database
<1>3. IsFiniteSet(DOMAIN db.history) /\ IsFiniteSet(DOMAIN db'.history)
  <2>1. \A n \in Nat : IsFiniteSet(1..n)
    BY FS_Interval
  <2> QED BY <1>2, <2>1, Zenon
<1>4. /\ Traces(db) \in SUBSET DOMAIN db.history /\ Traces(db') \in SUBSET DOMAIN db'.history
      /\ Traces(db) \in SUBSET Traces(db')
  BY StepKeeps DEF Traces
<1>5. IsFiniteSet(Traces(db)) /\ IsFiniteSet(Traces(db'))
  BY <1>3, <1>4, FS_Subset
<1>6. /\ Cardinality(Traces(db)) \in Nat /\ Cardinality(Traces(db')) \in Nat
      /\ Cardinality(Traces(db)) <= Cardinality(Traces(db'))
  BY <1>4, <1>5, FS_Subset, FS_CardinalityType
<1>7. ASSUME NEW r \in Request, Trace(r)
      PROVE  Cardinality(Traces(db)) + 1 <= Cardinality(Traces(db'))
  <2> DEFINE row == [sym |-> sym[r], source |-> "reconcile", old |-> NoName, new |-> NoName]
             n == Len(db.history) + 1
  <2>1. db'.history = Append(db.history, row)
    BY <1>1, <1>7 DEF Trace, AppendHistory, Database
  <2>2. sym[r] \in Nat
    BY DEF Strong, IInv, TypeOK
  <2>3. row \in HistoryRow /\ row.source = "reconcile"
    BY <2>2 DEF HistoryRow, Source
  <2> HIDE DEF row
  <2>4. AddsRow(db, db', row)
    BY <1>1, <2>1, <2>3, AppendAddsRow
  <2>5. n \in Traces(db') /\ n \notin Traces(db)
    BY <1>2, <2>3, <2>4 DEF AddsRow, Traces
  <2> HIDE DEF n
  <2>6. Traces(db) \cup {n} \in SUBSET Traces(db')
    BY <1>4, <2>5
  <2>7. Cardinality(Traces(db) \cup {n}) = Cardinality(Traces(db)) + 1
    BY <1>5, <2>5, FS_AddElement
  <2> QED BY <1>5, <2>6, <2>7, FS_Subset
<1> QED BY <1>6, <1>7

\* A pass that owes a row owes it until it writes it; a deletion makes one that does.
LEMMA CutStep ==
  ASSUME IsFiniteSet(Request), Strong, [Next]_vars
  PROVE  /\ Cardinality(Cut) \in Nat /\ Cardinality(Cut') \in Nat
         /\ Cardinality(Cut) <= Cardinality(Cut') + 1
         /\ (\A r \in Request : ~Trace(r)) => Cardinality(Cut) <= Cardinality(Cut')
         /\ (\E r \in Request : Purge(r)) => Cardinality(Cut) + 1 <= Cardinality(Cut')
<1>1. /\ pc \in [Request -> Pc] /\ \A r \in Request : Stage(r)
  BY DEF Strong, IInv, TypeOK
<1>2. /\ IsFiniteSet(Cut) /\ IsFiniteSet(Cut')
      /\ Cardinality(Cut) \in Nat /\ Cardinality(Cut') \in Nat
  <2>1. Cut \in SUBSET Request /\ Cut' \in SUBSET Request
    BY DEF Cut
  <2>2. IsFiniteSet(Cut) /\ IsFiniteSet(Cut')
    BY <2>1, FS_Subset
  <2> QED BY <2>2, FS_CardinalityType
<1>3. ASSUME NEW r \in Cut, ~Trace(r) PROVE r \in Cut'
  <2>1. CASE Untouched(r)
    BY <2>1 DEF Untouched, Cut
  <2>2. CASE Own(r)
    <3>1. pc[r] = "trace" /\ r \in Request
      BY <2>2, ToldSteps DEF Cut
    <3>2. LockTimeout(r)
      BY <1>3, <2>2, <3>1
         DEF Own, Handle, Accept, RenameBegin, DeleteBegin, RenameCommit, DeleteCommit, Rollback,
             KgAdd, KgTurn, KgEnd, Publish, DrawerLookup, Resolve, MemAddReply, InsertSymbolRow,
             Discover, Touch, AnchorSelect, AnchorInsert, ChunkInsert, Scan, CheckDrawer, Purge,
             DryPurge, Turn
    <3> QED BY <1>1, <3>1, <3>2 DEF LockTimeout, Goto, local, Cut
  <2> QED BY <2>1, <2>2, Footprint DEF Cut
<1>4. ASSUME NEW r \in Request, Trace(r) PROVE Cardinality(Cut) <= Cardinality(Cut') + 1
  <2>1. Cut \in SUBSET (Cut' \cup {r})
    BY <1>1, <1>4 DEF Trace, Goto, local, Cut
  <2> DEFINE C == Cut'
  <2>2. IsFiniteSet(C) /\ Cardinality(C) \in Nat
    BY <1>2
  <2> HIDE DEF C
  <2>3. /\ IsFiniteSet(C \cup {r})
        /\ Cardinality(C \cup {r}) = IF r \in C THEN Cardinality(C) ELSE Cardinality(C) + 1
    BY <2>2, FS_AddElement
  <2>4. Cardinality(C \cup {r}) <= Cardinality(C) + 1 /\ Cardinality(C \cup {r}) \in Nat
    BY <2>2, <2>3
  <2>5. Cardinality(Cut) <= Cardinality(C \cup {r})
    BY <2>1, <2>3, FS_Subset DEF C
  <2> QED BY <1>2, <2>2, <2>4, <2>5 DEF C
<1>5. ASSUME \A r \in Request : ~Trace(r) PROVE Cardinality(Cut) <= Cardinality(Cut')
  <2>1. Cut \in SUBSET Cut'
    BY <1>3, <1>5 DEF Cut
  <2> QED BY <1>2, <2>1, FS_Subset
<1>6. ASSUME NEW r \in Request, Purge(r) PROVE Cardinality(Cut) + 1 <= Cardinality(Cut')
  <2>1. pc' = [pc EXCEPT ![r] = "trace"] /\ input' = input /\ pc[r] = "purge"
    BY <1>6 DEF Purge, Goto
  <2>2. input[r].op = "reconcile"
    BY <1>1, <2>1 DEF Stage
  <2>3. r \notin Cut /\ Cut \cup {r} \in SUBSET Cut'
    BY <1>1, <2>1, <2>2 DEF Cut
  <2>4. Cardinality(Cut \cup {r}) = Cardinality(Cut) + 1
    BY <1>2, <2>3, FS_AddElement
  <2> QED BY <1>2, <2>3, <2>4, FS_Subset
<1> QED BY <1>2, <1>4, <1>5, <1>6

\* Every anchor a reconciler pass removed has its row in the ledger, except the one a pass is
\* about to record or was cut off from recording; for any finite number of requests.
THEOREM PurgesLeaveTraces ==
  ASSUME IsFiniteSet(Request) PROVE Spec => []PurgesTraced
<1> DEFINE Start == Gone(InitDb)
           Paid  == Gone(db) <= Start + Cardinality(Traces(db)) + Cardinality(Cut)
<1>1. Paid <=> PurgesTraced
  BY DEF PurgesTraced, Gone, Traces, Cut
<1>2. Sound(InitDb)
  BY InitAssumption DEF Sound
<1>3. Start \in Int
  BY <1>2, FiniteAnchors DEF Gone
<1>4. Strong => Gone(db) \in Int
  BY FiniteAnchors DEF Strong, IInv, Gone
<1>5. Init => Paid
  <2> SUFFICES ASSUME Init PROVE Paid
    OBVIOUS
  <2>1. Gone(db) = Start
    BY DEF Init
  <2>2. Cardinality(Traces(db)) \in Nat
    <3>1. Len(InitDb.history) \in Nat /\ DOMAIN InitDb.history = 1..Len(InitDb.history)
      BY <1>2, LenProperties DEF Sound, Database
    <3>2. IsFiniteSet(DOMAIN InitDb.history)
      <4>1. \A n \in Nat : IsFiniteSet(1..n)
        BY FS_Interval
      <4> QED BY <3>1, <4>1, Zenon
    <3>3. Traces(db) \in SUBSET DOMAIN InitDb.history
      BY DEF Init, Traces
    <3> QED BY <3>2, <3>3, FS_Subset, FS_CardinalityType
  <2>3. Cut = {}
    BY DEF Init, Cut
  <2>4. Cardinality(Cut) = 0
    BY <2>3, FS_EmptySet
  <2> HIDE DEF Start
  <2> QED BY <1>3, <2>1, <2>2, <2>4
<1>6. Strong /\ LedgerInv /\ Paid /\ [Next]_vars => Paid'
  <2> SUFFICES ASSUME Strong, LedgerInv, Paid, [Next]_vars PROVE Paid'
    OBVIOUS
  <2>1. Gone(db) \in Int /\ Gone(db') \in Int
    BY StrongStep, FiniteAnchors DEF Kept, Strong, IInv, Gone
  <2> DEFINE t == Cardinality(Traces(db))
             u == Cardinality(Traces(db'))
             c == Cardinality(Cut)
             e == Cardinality(Cut')
             g == Gone(db)
             h == Gone(db')
  <2>2. /\ h <= g + 1
        /\ (\A r \in Request : ~Purge(r)) => h <= g
    BY GoneStep
  <2>3. /\ t \in Nat /\ u \in Nat /\ t <= u
        /\ (\E r \in Request : Trace(r)) => t + 1 <= u
    BY TracesStep
  <2>4. /\ c \in Nat /\ e \in Nat /\ c <= e + 1
        /\ (\A r \in Request : ~Trace(r)) => c <= e
        /\ (\E r \in Request : Purge(r)) => c + 1 <= e
    BY CutStep
  <2>5. g <= Start + t + c
    OBVIOUS
  <2>6. h <= Start + u + e
    <3> HIDE DEF Start, t, u, c, e, g, h
    <3>1. g \in Int /\ h \in Int
      BY <2>1 DEF g, h
    <3>2. CASE \E r \in Request : Purge(r)
      BY <1>3, <2>2, <2>3, <2>4, <2>5, <3>1, <3>2
    <3>3. CASE ~(\E r \in Request : Purge(r)) /\ (\E r \in Request : Trace(r))
      BY <1>3, <2>2, <2>3, <2>4, <2>5, <3>1, <3>3
    <3>4. CASE ~(\E r \in Request : Purge(r)) /\ ~(\E r \in Request : Trace(r))
      BY <1>3, <2>2, <2>3, <2>4, <2>5, <3>1, <3>4
    <3> QED BY <3>2, <3>3, <3>4
  <2> QED BY <2>6 DEF Gone, Traces, Cut
<1> HIDE DEF Paid
<1> QED BY <1>1, <1>5, <1>6, StrongInvariance, LedgerInvariance, PTL DEF Spec
=============================================================================
