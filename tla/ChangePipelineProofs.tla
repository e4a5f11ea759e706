------------------------ MODULE ChangePipelineProofs ------------------------
(***************************************************************************)
(* A reported change is recorded, swept and tombstones its symbols once,   *)
(* for any number of files, symbols, changes, passes, transactions and     *)
(* crashes.  What only one server process can promise (OneServer) is kept  *)
(* apart from what holds for any number of them.                           *)
(*                                                                         *)
(* The argument: from its first statement to its last a handler shares its *)
(* loop with no other handler, no sweep and no interceptor.  With one      *)
(* server the tables therefore change under a handler only by passes of    *)
(* `engram reconcile`, which delete chunks and nothing else.               *)
(***************************************************************************)
EXTENDS ChangePipeline, SequenceTheorems, TLAPS

-----------------------------------------------------------------------------
(* Types. *)

\* The clauses of TypeOK that a step of a handler leaves alone, and those of a sweep.
HandlerTypes ==
  /\ pc \in [Change -> {"new"} \cup AwaitPc \cup SyncPc \cup DonePc]
  /\ home \in [Change -> Server \cup {NoOne}]
  /\ input \in [Change -> Input \cup {NoOne}]
  /\ todo \in [Change -> SUBSET Symbol] /\ row \in [Change -> Symbol \cup {NoOne}]
  /\ \A c \in Change :
       /\ pc[c] = "new" => home[c] = NoOne
       /\ pc[c] # "new" => home[c] \in Server /\ input[c] \in Input
       /\ pc[c] \in {"bury", "record"} => row[c] # NoOne

SweepTypes ==
  /\ wpc \in [Process -> {"idle", "select"} \cup WriteWpc]
  /\ paths \in [Process -> SUBSET Path]
  /\ drop \in [Process -> SUBSET Symbol]
  /\ cur \in [Process -> Path \cup {NoOne}]
  /\ \A p \in Process : /\ wpc[p] = "drop" <=> drop[p] # {}
                        /\ wpc[p] = "clear" <=> cur[p] # NoOne

TableTypes ==
  /\ state \in [Change -> {"none", "pending", "reindexed"}]
  /\ dirty \subseteq Path
  /\ symbols \in [Symbol -> {"absent", "live", "dead"}]
  /\ buriers \in [Symbol -> Seq(Change \cup {NoOne})]
  /\ chunks \subseteq Symbol

BoundTypes ==
  /\ lock \in Server \cup {NoOne}
  /\ holds \in 0..MaxHold /\ passes \in 0..MaxPass /\ crashes \in 0..MaxCrash

Typed == HandlerTypes /\ SweepTypes /\ TableTypes /\ BoundTypes

Label == {"new"} \cup AwaitPc \cup SyncPc \cup DonePc

\* A handler moves on.
LEMMA Moved ==
  ASSUME HandlerTypes, NEW c \in Change, pc[c] # "new", UNCHANGED <<home, input>>,
         NEW l \in Label \ {"new"}, Goto(c, l),
         todo' \in [Change -> SUBSET Symbol], row' \in [Change -> Symbol \cup {NoOne}],
         \A d \in Change : d # c => row'[d] = row[d],
         l \in {"bury", "record"} => row'[c] # NoOne
  PROVE  HandlerTypes'
<1>1. pc' \in [Change -> Label] /\ pc'[c] = l /\ \A d \in Change : d # c => pc'[d] = pc[d]
  BY DEF HandlerTypes, Goto, Label
<1>2. ASSUME NEW d \in Change
      PROVE  /\ pc'[d] = "new" => home'[d] = NoOne
             /\ pc'[d] # "new" => home'[d] \in Server /\ input'[d] \in Input
             /\ pc'[d] \in {"bury", "record"} => row'[d] # NoOne
  <2>1. CASE d = c
    BY <1>1, <2>1 DEF HandlerTypes
  <2>2. CASE d # c
    BY <1>1, <2>2 DEF HandlerTypes
  <2> QED BY <2>1, <2>2
<1> QED BY <1>1, <1>2 DEF HandlerTypes, Label

\* A step of a change's call keeps the types.
LEMMA HandleTypes ==
  ASSUME Typed, NEW c \in Change, Handle(c) \/ Cancel(c)
  PROVE  Typed'
<1> USE DEF Label, AwaitPc, SyncPc, WritePc, DonePc
<1>1. HandlerTypes /\ SweepTypes /\ TableTypes /\ BoundTypes
      /\ todo \in [Change -> SUBSET Symbol] /\ row \in [Change -> Symbol \cup {NoOne}]
  BY DEF Typed, HandlerTypes
<1>2. AfterTables(c) \in {"mirror", "ok"}
  BY DEF AfterTables
<1>3. CASE EditReply(c) \/ StartHandler(c) \/ MirrorReply(c) \/ HandlerTimeout(c) \/ Cancel(c)
  <2>1. PICK l \in Label \ {"new", "bury", "record"} : Goto(c, l)
    BY <1>3 DEF EditReply, StartHandler, MirrorReply, HandlerTimeout, Cancel
  <2>2. pc[c] # "new" /\ UNCHANGED <<tables, lock, bounds, sweep, home, input, todo, row>>
    BY <1>3 DEF EditReply, StartHandler, MirrorReply, HandlerTimeout, Cancel
  <2>3. HandlerTypes'
    BY <1>1, <2>1, <2>2, Moved
  <2> QED BY <1>1, <2>2, <2>3 DEF Typed, SweepTypes, TableTypes, BoundTypes, tables, bounds, sweep
<1>4. CASE InsertChangeLog(c) \/ MarkDirty(c)
  <2>1. PICK l \in Label \ {"new", "bury", "record"} : Goto(c, l)
    BY <1>2, <1>4 DEF InsertChangeLog, MarkDirty
  <2>2. pc[c] # "new" /\ UNCHANGED <<lock, bounds, sweep, home, input, todo, row>>
    BY <1>4 DEF InsertChangeLog, MarkDirty
  <2>3. HandlerTypes'
    BY <1>1, <2>1, <2>2, Moved
  <2>4. TableTypes'
    <3>1. CASE InsertChangeLog(c)
      BY <1>1, <3>1 DEF TableTypes, InsertChangeLog
    <3>2. CASE MarkDirty(c)
      <4>1. input[c].path \in Path
        BY <1>1, <2>2 DEF HandlerTypes, Input
      <4> QED BY <1>1, <3>2, <4>1 DEF TableTypes, MarkDirty, UpsertDirtyFile
    <3> QED BY <1>4, <3>1, <3>2
  <2> QED BY <1>1, <2>2, <2>3, <2>4 DEF Typed, SweepTypes, BoundTypes, bounds, sweep
<1>5. CASE SelectSymbols(c) \/ CheckSymbol(c)
  <2>1. pc[c] # "new" /\ UNCHANGED <<tables, lock, bounds, sweep, home, input>>
    BY <1>5 DEF SelectSymbols, CheckSymbol
  <2>2. HandlerTypes'
    <3>1. CASE SelectSymbols(c)
      <4>1. PICK l \in {"mirror", "ok", "check"} : Goto(c, l)
        BY <1>2, <3>1 DEF SelectSymbols
      <4>2. todo' \in [Change -> SUBSET Symbol] /\ row' = row
        BY <1>1, <3>1 DEF SelectSymbols, LiveIn
      <4> QED BY <1>1, <2>1, <4>1, <4>2, Moved
    <3>2. CASE CheckSymbol(c)
      <4>1. PICK x \in todo[c] :
               /\ todo' = [todo EXCEPT ![c] = @ \ {x}]
               /\ \/ row' = [row EXCEPT ![c] = x] /\ Goto(c, "bury")
                  \/ row' = row /\ Goto(c, IF todo'[c] = {} THEN AfterTables(c) ELSE "check")
        BY <3>2 DEF CheckSymbol
      <4>2. x \in Symbol /\ x # NoOne /\ todo' \in [Change -> SUBSET Symbol]
        BY <1>1, <4>1, PipelineAssumption
      <4>3. CASE row' = [row EXCEPT ![c] = x] /\ Goto(c, "bury")
        BY <1>1, <2>1, <4>2, <4>3, Moved
      <4>4. CASE row' = row /\ Goto(c, IF todo'[c] = {} THEN AfterTables(c) ELSE "check")
        <5>1. PICK l \in {"mirror", "ok", "check"} : Goto(c, l)
          BY <1>2, <4>4
        <5> QED BY <1>1, <2>1, <4>2, <4>4, <5>1, Moved
      <4> QED BY <4>1, <4>3, <4>4
    <3> QED BY <1>5, <3>1, <3>2
  <2> QED BY <1>1, <2>1, <2>2 DEF Typed, SweepTypes, TableTypes, BoundTypes, tables, bounds, sweep
<1>6. CASE Bury(c) \/ RecordBurial(c)
  <2>1. pc[c] # "new" /\ UNCHANGED <<lock, bounds, sweep, home, input, todo>> /\ row[c] \in Symbol
    BY <1>1, <1>6 DEF Bury, RecordBurial, HandlerTypes
  <2>2. HandlerTypes'
    <3>1. CASE Bury(c)
      BY <1>1, <2>1, <3>1, Moved, PipelineAssumption DEF Bury
    <3>2. CASE RecordBurial(c)
      <4>1. PICK l \in {"mirror", "ok", "check"} : Goto(c, l)
        BY <1>2, <3>2 DEF RecordBurial
      <4>2. row' \in [Change -> Symbol \cup {NoOne}] /\ \A d \in Change : d # c => row'[d] = row[d]
        BY <1>1, <3>2 DEF RecordBurial
      <4> QED BY <1>1, <2>1, <4>1, <4>2, Moved
    <3> QED BY <1>6, <3>1, <3>2
  <2>3. TableTypes'
    <3>1. CASE Bury(c)
      BY <1>1, <3>1 DEF TableTypes, Bury
    <3>2. CASE RecordBurial(c)
      <4>1. Append(buriers[row[c]], c) \in Seq(Change \cup {NoOne})
        <5>1. buriers[row[c]] \in Seq(Change \cup {NoOne})
          BY <1>1, <2>1 DEF TableTypes
        <5> QED BY <5>1, AppendProperties
      <4> QED BY <1>1, <3>2, <4>1 DEF TableTypes, RecordBurial
    <3> QED BY <1>6, <3>1, <3>2
  <2> QED BY <1>1, <2>1, <2>2, <2>3 DEF Typed, SweepTypes, BoundTypes, bounds, sweep
<1> QED BY <1>3, <1>4, <1>5, <1>6 DEF Handle

\* A change gets its process and its arguments when it is reported.
LEMMA ReportTypes ==
  ASSUME Typed, NEW c \in Change, Report(c)
  PROVE  Typed'
<1>1. HandlerTypes /\ SweepTypes /\ TableTypes /\ BoundTypes
  BY DEF Typed
<1>2. PICK s \in Server, i \in Menu :
        /\ home' = [home EXCEPT ![c] = s] /\ input' = [input EXCEPT ![c] = i]
        /\ Goto(c, IF i.via = "serena" THEN "edit" ELSE "publish")
        /\ UNCHANGED <<tables, lock, bounds, todo, row, sweep>>
  BY DEF Report
<1>3. i \in Input
  BY PipelineAssumption
<1>4. PICK l \in {"edit", "publish"} : Goto(c, l)
  BY <1>2
<1>5. pc' \in [Change -> Label] /\ pc'[c] = l /\ \A d \in Change : d # c => pc'[d] = pc[d]
  BY <1>1, <1>4 DEF HandlerTypes, Goto, Label, AwaitPc
<1>6. ASSUME NEW d \in Change
      PROVE  /\ pc'[d] = "new" => home'[d] = NoOne
             /\ pc'[d] # "new" => home'[d] \in Server /\ input'[d] \in Input
             /\ pc'[d] \in {"bury", "record"} => row'[d] # NoOne
  <2>1. CASE d = c
    BY <1>1, <1>2, <1>3, <1>5, <2>1 DEF HandlerTypes
  <2>2. CASE d # c
    BY <1>1, <1>2, <1>5, <2>2 DEF HandlerTypes
  <2> QED BY <2>1, <2>2
<1>7. HandlerTypes'
  BY <1>1, <1>2, <1>3, <1>5, <1>6 DEF HandlerTypes, Label
<1> QED BY <1>1, <1>2, <1>7 DEF Typed, SweepTypes, TableTypes, BoundTypes, tables, bounds, sweep

\* The other writers, and the start of a sweep.
LEMMA OtherTypes ==
  ASSUME Typed,
         \/ \E s \in Server : BeginHold(s) \/ EndHold(s) \/ Collect(s)
         \/ \E p \in Process : StartPass(p)
         \/ \E x \in Symbol : Discover(x)
  PROVE  Typed'
<1>1. HandlerTypes /\ SweepTypes /\ TableTypes /\ BoundTypes
  BY DEF Typed
<1>2. ASSUME NEW s \in Server, BeginHold(s) PROVE Typed'
  <2>1. BoundTypes' /\ UNCHANGED <<tables, handler, sweep>>
    BY <1>1, <1>2, PipelineAssumption DEF BoundTypes, BeginHold
  <2> QED BY <1>1, <2>1 DEF Typed, HandlerTypes, SweepTypes, TableTypes, tables, handler, sweep
<1>3. ASSUME NEW s \in Server, EndHold(s) PROVE Typed'
  <2>1. BoundTypes' /\ UNCHANGED <<state, dirty, chunks, handler, sweep>>
    BY <1>1, <1>3 DEF BoundTypes, EndHold, bounds
  <2>2. symbols' \in [Symbol -> {"absent", "live", "dead"}] /\ buriers' \in [Symbol -> Seq(Change \cup {NoOne})]
    <3>1. CASE UNCHANGED <<symbols, buriers>>
      BY <1>1, <3>1 DEF TableTypes
    <3>2. CASE \E x \in Symbol : /\ symbols' = [symbols EXCEPT ![x] = "dead"]
                                 /\ buriers' = [buriers EXCEPT ![x] = Append(@, NoOne)]
      <4>1. PICK x \in Symbol : /\ symbols' = [symbols EXCEPT ![x] = "dead"]
                                /\ buriers' = [buriers EXCEPT ![x] = Append(@, NoOne)]
        BY <3>2
      <4>2. Append(buriers[x], NoOne) \in Seq(Change \cup {NoOne})
        <5>1. buriers[x] \in Seq(Change \cup {NoOne})
          BY <1>1 DEF TableTypes
        <5> QED BY <5>1, AppendProperties
      <4> QED BY <1>1, <4>1, <4>2 DEF TableTypes
    <3> QED BY <1>3, <3>1, <3>2 DEF EndHold
  <2>3. TableTypes'
    BY <1>1, <2>1, <2>2 DEF TableTypes
  <2> QED BY <1>1, <2>1, <2>3 DEF Typed, HandlerTypes, SweepTypes, handler, sweep
<1>4. ASSUME NEW s \in Server, Collect(s) PROVE Typed'
  <2>1. SweepTypes'
    BY <1>1, <1>4 DEF SweepTypes, TableTypes, Collect, LoopIdle, WriteWpc
  <2> QED BY <1>1, <1>4, <2>1
          DEF Typed, HandlerTypes, TableTypes, BoundTypes, Collect, tables, bounds, handler
<1>5. ASSUME NEW p \in Process, StartPass(p) PROVE Typed'
  <2>1. SweepTypes'
    BY <1>1, <1>5 DEF SweepTypes, StartPass, LoopIdle, WriteWpc
  <2>2. BoundTypes'
    BY <1>1, <1>5, PipelineAssumption DEF BoundTypes, StartPass
  <2> QED BY <1>1, <1>5, <2>1, <2>2 DEF Typed, HandlerTypes, TableTypes, StartPass, tables, handler
<1>6. ASSUME NEW x \in Symbol, Discover(x) PROVE Typed'
  <2>1. TableTypes'
    BY <1>1, <1>6 DEF TableTypes, Discover
  <2> QED BY <1>1, <1>6, <2>1 DEF Typed, HandlerTypes, SweepTypes, BoundTypes, Discover, bounds, handler, sweep
<1> QED BY <1>2, <1>3, <1>4, <1>5, <1>6

\* A sweep holds a path exactly while it has marked its rows and not cleared it.
LEMMA SweepStepTypes ==
  ASSUME Typed, NEW p \in Process, Sweep(p)
  PROVE  Typed'
<1> USE DEF WriteWpc
<1>1. HandlerTypes /\ SweepTypes /\ TableTypes /\ BoundTypes
  BY DEF Typed
<1>2. UNCHANGED <<lock, bounds, handler, symbols, buriers>>
  BY DEF Sweep, SelectChunks, DropChunk, MarkReindexed, ClearDirty, SweepTimeout, tables
<1>3. TableTypes'
  <2>1. CASE SelectChunks(p) \/ SweepTimeout(p)
    BY <1>1, <2>1 DEF TableTypes, SelectChunks, SweepTimeout, tables
  <2>2. CASE DropChunk(p)
    BY <1>1, <2>2 DEF TableTypes, DropChunk
  <2>3. CASE MarkReindexed(p)
    BY <1>1, <2>3 DEF TableTypes, MarkReindexed
  <2>4. CASE ClearDirty(p)
    BY <1>1, <2>4 DEF TableTypes, ClearDirty
  <2> QED BY <2>1, <2>2, <2>3, <2>4 DEF Sweep
<1>4. SweepTypes'
  <2>1. ASSUME drop' = [drop EXCEPT ![p] = drop'[p]], drop'[p] \subseteq Symbol,
               paths' = [paths EXCEPT ![p] = paths'[p]], paths'[p] \subseteq Path,
               wpc' = [wpc EXCEPT ![p] = NextLabel(p)], cur' = [cur EXCEPT ![p] = NoOne]
        PROVE  SweepTypes'
    BY <1>1, <2>1 DEF SweepTypes, NextLabel
  <2>2. CASE SelectChunks(p)
    <3>1. cur[p] = NoOne
      BY <1>1, <2>2 DEF SweepTypes, SelectChunks
    <3>2. cur' = [cur EXCEPT ![p] = NoOne] /\ drop'[p] \subseteq Symbol /\ paths'[p] \subseteq Path
      BY <1>1, <2>2, <3>1 DEF SweepTypes, TableTypes, SelectChunks
    <3> QED BY <1>1, <2>1, <2>2, <3>2 DEF SweepTypes, SelectChunks
  <2>3. CASE DropChunk(p)
    <3>1. cur[p] = NoOne
      BY <1>1, <2>3 DEF SweepTypes, DropChunk
    <3>2. cur' = [cur EXCEPT ![p] = NoOne] /\ drop'[p] \subseteq Symbol /\ paths'[p] \subseteq Path
      BY <1>1, <2>3, <3>1 DEF SweepTypes, DropChunk
    <3> QED BY <1>1, <2>1, <2>3, <3>2 DEF SweepTypes, DropChunk
  <2>4. CASE MarkReindexed(p)
    <3>1. PICK f \in paths[p] : cur' = [cur EXCEPT ![p] = f]
      BY <2>4 DEF MarkReindexed
    <3>2. f \in Path /\ f # NoOne
      BY <1>1, PipelineAssumption DEF SweepTypes
    <3> QED BY <1>1, <2>4, <3>1, <3>2 DEF SweepTypes, MarkReindexed
  <2>5. CASE ClearDirty(p)
    <3>1. paths'[p] \subseteq Path /\ drop'[p] \subseteq Symbol
      BY <1>1, <2>5 DEF SweepTypes, ClearDirty
    <3> QED BY <1>1, <2>1, <2>5, <3>1 DEF SweepTypes, ClearDirty
  <2>6. CASE SweepTimeout(p)
    BY <1>1, <2>6 DEF SweepTypes, SweepTimeout, ForgetSweep
  <2> QED BY <2>2, <2>3, <2>4, <2>5, <2>6 DEF Sweep
<1> QED BY <1>1, <1>2, <1>3, <1>4 DEF Typed, HandlerTypes, BoundTypes, bounds, handler

\* So does the death of a process.
LEMMA CrashTypes ==
  ASSUME Typed, NEW p \in Process, Crash(p)
  PROVE  Typed'
<1>1. HandlerTypes /\ SweepTypes /\ TableTypes /\ BoundTypes
  BY DEF Typed
<1>2. \A c \in Change : pc[c] = "new" => home[c] # p
  BY <1>1, PipelineAssumption DEF HandlerTypes, Process
<1>3. HandlerTypes'
  <2>1. pc' \in [Change -> Label]
    BY <1>1 DEF HandlerTypes, Crash, Label, DonePc
  <2>2. \A c \in Change : pc'[c] \in {pc[c], "died"} /\ (pc[c] = "new" => pc'[c] = "new")
    BY <1>1, <1>2 DEF HandlerTypes, Crash
  <2>3. UNCHANGED <<home, input, todo, row>>
    BY DEF Crash
  <2> QED BY <1>1, <2>1, <2>2, <2>3 DEF HandlerTypes, Label
<1>4. SweepTypes'
  BY <1>1 DEF SweepTypes, Crash, ForgetSweep, WriteWpc
<1>5. BoundTypes'
  BY <1>1, PipelineAssumption DEF BoundTypes, Crash
<1> QED BY <1>1, <1>3, <1>4, <1>5 DEF Typed, TableTypes, Crash, tables

\* The types hold at the start.
LEMMA TypedInit == Init => Typed
<1> SUFFICES ASSUME Init PROVE Typed
  OBVIOUS
<1>1. HandlerTypes
  BY DEF Init, HandlerTypes
<1>2. SweepTypes
  BY DEF Init, SweepTypes
<1>3. TableTypes
  <2>1. <<>> \in Seq(Change \cup {NoOne})
    BY EmptySeq
  <2> QED BY <2>1, PipelineAssumption DEF Init, TableTypes
<1>4. BoundTypes
  BY PipelineAssumption DEF Init, BoundTypes
<1> QED BY <1>1, <1>2, <1>3, <1>4 DEF Typed

\* Every step keeps them.
LEMMA TypedStep ==
  ASSUME Typed, [Next]_vars PROVE Typed'
<1>1. UNCHANGED vars => Typed'
  BY DEF Typed, HandlerTypes, SweepTypes, TableTypes, BoundTypes, vars, tables, bounds, handler, sweep
<1> QED BY <1>1, HandleTypes, ReportTypes, OtherTypes, SweepStepTypes, CrashTypes DEF Next

\* They hold in every reachable state.
LEMMA TypedInvariance == Spec => []Typed
BY TypedInit, TypedStep, PTL DEF Spec

\* Types, for any number of processes, changes, files and symbols.
THEOREM TypeCorrect == Spec => []TypeOK
<1>1. Typed => TypeOK
  BY DEF Typed, TypeOK, HandlerTypes, SweepTypes, TableTypes, BoundTypes
<1> QED BY <1>1, TypedInvariance, PTL

-----------------------------------------------------------------------------
(* What a handler knows, whatever other processes do. *)

TablePc == {"dirty", "select", "check", "bury", "record"}  \* its row is in the change log
BuryPc  == {"check", "bury", "record"}                     \* it works through todo

\* The rows of a handler are those of its file.
Scoped(c) ==
  /\ pc[c] = "new" => state[c] = "none" /\ todo[c] = {} /\ row[c] = NoOne
  /\ pc[c] \in TablePc => state[c] # "none"
  /\ pc[c] \in BuryPc \cup {"select"} => input[c].type = "delete"
  /\ \A x \in todo[c] : PathOf[x] = input[c].path
  /\ row[c] # NoOne => PathOf[row[c]] = input[c].path

\* What is still to do for an accepted change.
Buried(c, x) ==
  \/ symbols[x] = "dead"
  \/ pc[c] \in BuryPc /\ x \in todo[c]
  \/ pc[c] = "bury" /\ x = row[c]

Kept(c) ==
  holds = 0 /\ pc[c] \in BuryPc \cup {"mirror", "ok"} =>
    /\ state[c] # "none"
    /\ input[c].type = "delete" =>
         \A x \in InitLive : PathOf[x] = input[c].path => Buried(c, x)

Known(c) == Scoped(c) /\ Kept(c)

KnownInv ==
  /\ lock # NoOne => holds > 0
  /\ \A x \in InitLive : symbols[x] # "absent"
  /\ \A c \in Change : Known(c)

\* A row of the change log stays, a tombstone stays.
LEMMA TablesGrow ==
  ASSUME Typed, [Next]_vars
  PROVE  /\ \A c \in Change : state[c] # "none" => state'[c] # "none"
         /\ \A x \in Symbol : symbols[x] = "dead" => symbols'[x] = "dead"
         /\ \A x \in Symbol : symbols[x] # "absent" => symbols'[x] # "absent"
         /\ holds \in Nat /\ holds' \in Nat /\ holds <= holds'
<1>1. /\ state \in [Change -> {"none", "pending", "reindexed"}]
      /\ symbols \in [Symbol -> {"absent", "live", "dead"}] /\ holds \in Nat
      /\ \A c \in Change : pc[c] = "bury" => row[c] \in Symbol
  BY PipelineAssumption DEF Typed, TableTypes, BoundTypes, HandlerTypes
<1>2. CASE \E c \in Change : Report(c) \/ Handle(c) \/ Cancel(c)
  <2>1. PICK c \in Change : Report(c) \/ Handle(c) \/ Cancel(c)
    BY <1>2
  <2>2. holds' = holds
    BY <2>1 DEF Report, Handle, Cancel, EditReply, StartHandler, InsertChangeLog, MarkDirty, SelectSymbols,
                CheckSymbol, Bury, RecordBurial, MirrorReply, HandlerTimeout, bounds
  <2>3. state' = state \/ state' = [state EXCEPT ![c] = "pending"]
    BY <2>1 DEF Report, Handle, Cancel, EditReply, StartHandler, InsertChangeLog, MarkDirty, SelectSymbols,
                CheckSymbol, Bury, RecordBurial, MirrorReply, HandlerTimeout, tables
  <2>4. symbols' = symbols \/ (pc[c] = "bury" /\ symbols' = [symbols EXCEPT ![row[c]] = "dead"])
    BY <2>1 DEF Report, Handle, Cancel, EditReply, StartHandler, InsertChangeLog, MarkDirty, SelectSymbols,
                CheckSymbol, Bury, RecordBurial, MirrorReply, HandlerTimeout, tables
  <2> QED BY <1>1, <2>1, <2>2, <2>3, <2>4
<1>3. CASE \E s \in Server : BeginHold(s) \/ EndHold(s) \/ Collect(s)
  BY <1>1, <1>3 DEF BeginHold, EndHold, Collect, tables, bounds
<1>4. CASE \E p \in Process : StartPass(p) \/ Sweep(p) \/ Crash(p)
  <2>1. PICK p \in Process : StartPass(p) \/ Sweep(p) \/ Crash(p)
    BY <1>4
  <2>2. symbols' = symbols /\ holds' = holds
    BY <2>1 DEF StartPass, Sweep, Crash, SelectChunks, DropChunk, MarkReindexed, ClearDirty, SweepTimeout,
                tables, bounds
  <2>3. \A c \in Change : state'[c] = state[c] \/ state'[c] = "reindexed"
    BY <1>1, <2>1 DEF StartPass, Sweep, Crash, SelectChunks, DropChunk, MarkReindexed, ClearDirty, SweepTimeout,
                tables
  <2> QED BY <1>1, <2>2, <2>3
<1>5. CASE \E x \in Symbol : Discover(x)
  BY <1>1, <1>5 DEF Discover, bounds
<1>6. CASE UNCHANGED vars
  BY <1>1, <1>6 DEF vars, tables, bounds
<1> QED BY <1>2, <1>3, <1>4, <1>5, <1>6 DEF Next

\* A handler that does not move, or is stopped, keeps what it knows.
LEMMA KnownKept ==
  ASSUME Typed, [Next]_vars, NEW c \in Change, Known(c),
         UNCHANGED <<input[c], todo[c], row[c]>>, pc'[c] \in {pc[c], "lost", "failed", "died"},
         pc'[c] = "new" => state'[c] = state[c]
  PROVE  Known(c)'
<1>1. /\ InitLive \subseteq Symbol
      /\ state[c] # "none" => state'[c] # "none"
      /\ \A x \in Symbol : symbols[x] = "dead" => symbols'[x] = "dead"
      /\ holds' = 0 => holds = 0
  BY TablesGrow, PipelineAssumption
<1>2. Scoped(c)'
  BY <1>1 DEF Known, Scoped, TablePc, BuryPc
<1>3. Kept(c)'
  <2>1. \A x \in InitLive : pc'[c] = pc[c] /\ Buried(c, x) => Buried(c, x)'
    BY <1>1 DEF Buried
  <2> QED BY <1>1, <2>1 DEF Known, Kept, BuryPc
<1> QED BY <1>2, <1>3 DEF Known

\* A handler carries what it knows from statement to statement.
LEMMA KnownStep ==
  ASSUME Typed, KnownInv, NEW c \in Change, Handle(c)
  PROVE  Known(c)'
<1> USE DEF TablePc, BuryPc
<1>1. /\ Known(c) /\ Scoped(c) /\ Kept(c) /\ UNCHANGED <<holds, input>>
      /\ pc \in [Change -> Label] /\ todo \in [Change -> SUBSET Symbol]
      /\ row \in [Change -> Symbol \cup {NoOne}]
      /\ state \in [Change -> {"none", "pending", "reindexed"}]
      /\ symbols \in [Symbol -> {"absent", "live", "dead"}]
      /\ \A x \in InitLive : symbols[x] # "absent"
      /\ InitLive \subseteq Symbol /\ NoOne \notin Symbol
      /\ (holds = 0 => lock = NoOne)
  BY PipelineAssumption
     DEF Typed, KnownInv, Known, HandlerTypes, TableTypes, BoundTypes, Label,
         Handle, EditReply, StartHandler, InsertChangeLog, MarkDirty, SelectSymbols,
         CheckSymbol, Bury, RecordBurial, MirrorReply, HandlerTimeout, bounds
<1>2. CASE EditReply(c) \/ StartHandler(c) \/ MirrorReply(c)
  <2>1. /\ UNCHANGED <<state, symbols, todo, row>>
        /\ \/ pc'[c] \in {"publish", "failed", "insert"}
           \/ pc[c] = "mirror" /\ pc'[c] = "ok"
    BY <1>1, <1>2 DEF EditReply, StartHandler, MirrorReply, Goto, tables
  <2>2. Scoped(c)'
    BY <1>1, <2>1 DEF Scoped
  <2>3. Kept(c)'
    BY <1>1, <2>1 DEF Kept, Buried
  <2> QED BY <2>2, <2>3 DEF Known
<1>3. CASE HandlerTimeout(c)
  <2>1. UNCHANGED <<state, symbols, todo, row>> /\ pc'[c] = "ok" /\ holds # 0
    BY <1>1, <1>3 DEF HandlerTimeout, Goto, LockFree, tables
  <2> QED BY <1>1, <2>1 DEF Known, Scoped, Kept
<1>4. CASE InsertChangeLog(c)
  <2>1. UNCHANGED <<todo, row>> /\ pc'[c] = "dirty" /\ state'[c] = "pending"
    BY <1>1, <1>4 DEF InsertChangeLog, Goto
  <2> QED BY <1>1, <2>1 DEF Known, Scoped, Kept
<1>5. CASE MarkDirty(c)
  <2>1. /\ UNCHANGED <<todo, row, state, symbols>> /\ pc[c] = "dirty"
        /\ pc'[c] = IF input[c].type = "delete" THEN "select" ELSE AfterTables(c)
        /\ AfterTables(c) \in {"mirror", "ok"}
    BY <1>1, <1>5 DEF MarkDirty, Goto, AfterTables
  <2>2. Scoped(c)'
    BY <1>1, <2>1 DEF Scoped
  <2>3. Kept(c)'
    BY <1>1, <2>1 DEF Scoped, Kept
  <2> QED BY <2>2, <2>3 DEF Known
<1>6. CASE SelectSymbols(c)
  <2>1. /\ UNCHANGED <<row, state, symbols>> /\ pc[c] = "select"
        /\ todo'[c] = LiveIn(input[c].path)
        /\ pc'[c] = (IF todo'[c] = {} THEN AfterTables(c) ELSE "check")
        /\ AfterTables(c) \in {"mirror", "ok"}
    BY <1>1, <1>6 DEF SelectSymbols, Goto, AfterTables, tables
  <2>2. Scoped(c)'
    BY <1>1, <2>1 DEF Scoped, LiveIn
  <2>3. Kept(c)'
    <3>1. \A x \in InitLive : PathOf[x] = input[c].path => symbols[x] = "dead" \/ x \in todo'[c]
      BY <1>1, <2>1 DEF LiveIn
    <3> QED BY <1>1, <2>1, <3>1 DEF Scoped, Kept, Buried
  <2> QED BY <2>2, <2>3 DEF Known
<1>7. CASE CheckSymbol(c)
  <2>1. PICK x \in todo[c] :
           /\ todo' = [todo EXCEPT ![c] = @ \ {x}]
           /\ \/ StillLive(x) /\ row' = [row EXCEPT ![c] = x] /\ Goto(c, "bury")
              \/ ~StillLive(x) /\ row' = row /\ Goto(c, IF todo'[c] = {} THEN AfterTables(c) ELSE "check")
    BY <1>7 DEF CheckSymbol
  <2>2. UNCHANGED <<state, symbols>> /\ pc[c] = "check" /\ todo'[c] = todo[c] \ {x} /\ x \in Symbol
        /\ AfterTables(c) \in {"mirror", "ok"}
    BY <1>1, <1>7, <2>1 DEF CheckSymbol, AfterTables, tables
  <2>3. /\ \/ StillLive(x) /\ row'[c] = x /\ pc'[c] = "bury"
           \/ /\ ~StillLive(x) /\ row' = row
              /\ pc'[c] = (IF todo'[c] = {} THEN AfterTables(c) ELSE "check")
    BY <1>1, <2>1 DEF Goto
  <2>4. Scoped(c)'
    BY <1>1, <2>2, <2>3 DEF Scoped
  <2>5. Kept(c)'
    <3> SUFFICES ASSUME holds = 0, input[c].type = "delete", NEW y \in InitLive, PathOf[y] = input[c].path
                 PROVE  Buried(c, y)'
      BY <1>1, <2>2 DEF Kept, Scoped
    <3>1. symbols[y] = "dead" \/ y \in todo[c]
      BY <1>1, <2>2 DEF Kept, Buried
    <3>2. CASE StillLive(x) /\ row'[c] = x /\ pc'[c] = "bury"
      BY <2>2, <3>1, <3>2 DEF Buried
    <3>3. CASE ~StillLive(x) /\ pc'[c] = (IF todo'[c] = {} THEN AfterTables(c) ELSE "check")
      BY <1>1, <2>2, <3>1, <3>3 DEF Buried, StillLive
    <3> QED BY <2>3, <3>2, <3>3
  <2> QED BY <2>4, <2>5 DEF Known
<1>8. CASE Bury(c)
  <2>1. UNCHANGED <<state, todo, row>> /\ pc[c] = "bury" /\ pc'[c] = "record"
        /\ symbols' = [symbols EXCEPT ![row[c]] = "dead"] /\ row[c] \in Symbol
    BY <1>1, <1>8 DEF Bury, Goto, Typed, HandlerTypes
  <2>2. Scoped(c)'
    BY <1>1, <2>1 DEF Scoped
  <2>3. Kept(c)'
    <3>1. \A x \in InitLive : Buried(c, x) => Buried(c, x)'
      BY <1>1, <2>1 DEF Buried
    <3> QED BY <1>1, <2>1, <3>1 DEF Kept
  <2> QED BY <2>2, <2>3 DEF Known
<1>9. CASE RecordBurial(c)
  <2>1. UNCHANGED <<state, todo, symbols>> /\ pc[c] = "record" /\ row'[c] = NoOne
        /\ pc'[c] = (IF todo[c] = {} THEN AfterTables(c) ELSE "check") /\ AfterTables(c) \in {"mirror", "ok"}
    BY <1>1, <1>9 DEF RecordBurial, Goto, AfterTables
  <2>2. Scoped(c)'
    BY <1>1, <2>1 DEF Scoped
  <2>3. Kept(c)'
    <3>1. \A x \in InitLive : Buried(c, x) => Buried(c, x)'
      BY <1>1, <2>1 DEF Buried
    <3> QED BY <1>1, <2>1, <3>1 DEF Kept
  <2> QED BY <2>2, <2>3 DEF Known
<1> QED BY <1>2, <1>3, <1>4, <1>5, <1>6, <1>7, <1>8, <1>9 DEF Handle

\* Every step keeps what the rows of a change tell about it.
LEMMA KnownInvStep ==
  ASSUME Typed, KnownInv, [Next]_vars
  PROVE  KnownInv'
<1>1. /\ \A c \in Change : Known(c)
      /\ pc \in [Change -> Label] /\ home \in [Change -> Server \cup {NoOne}]
      /\ input \in [Change -> Input \cup {NoOne}]
      /\ todo \in [Change -> SUBSET Symbol] /\ row \in [Change -> Symbol \cup {NoOne}]
      /\ \A c \in Change : pc[c] = "new" => home[c] = NoOne
      /\ NoOne \notin Process
  BY PipelineAssumption DEF KnownInv, Typed, HandlerTypes, Label, Process
<1>2. \A x \in InitLive : symbols'[x] # "absent"
  BY TablesGrow, PipelineAssumption DEF KnownInv
<1>3. lock' # NoOne => holds' > 0
  <2>1. holds \in Nat /\ holds' \in Nat /\ holds <= holds' /\ (lock # NoOne => holds > 0)
    BY TablesGrow DEF KnownInv
  <2>2. lock' \in {lock, NoOne} \/ \E s \in Server : BeginHold(s)
    <3>1. CASE \E c \in Change : Report(c) \/ Handle(c) \/ Cancel(c)
      BY <3>1 DEF Report, Handle, Cancel, EditReply, StartHandler, InsertChangeLog, MarkDirty, SelectSymbols,
                  CheckSymbol, Bury, RecordBurial, MirrorReply, HandlerTimeout
    <3>2. CASE \E s \in Server : EndHold(s) \/ Collect(s)
      BY <3>2 DEF EndHold, Collect
    <3>3. CASE \E p \in Process : StartPass(p) \/ Sweep(p) \/ Crash(p)
      BY <3>3 DEF StartPass, Sweep, Crash, SelectChunks, DropChunk, MarkReindexed, ClearDirty, SweepTimeout
    <3>4. CASE \E x \in Symbol : Discover(x)
      BY <3>4 DEF Discover
    <3>5. CASE UNCHANGED vars
      BY <3>5 DEF vars
    <3> QED BY <3>1, <3>2, <3>3, <3>4, <3>5 DEF Next
  <2>3. (\E s \in Server : BeginHold(s)) => holds' = holds + 1
    BY DEF BeginHold
  <2> QED BY <2>1, <2>2, <2>3
<1>4. ASSUME NEW c \in Change PROVE Known(c)'
  <2>1. CASE Handle(c)
    BY <2>1, KnownStep
  <2>2. CASE Report(c)
    <3>1. pc[c] = "new" /\ pc'[c] \in {"edit", "publish"} /\ UNCHANGED <<state, todo, row>>
      BY <1>1, <2>2 DEF Report, Goto, tables
    <3> QED BY <1>1, <3>1 DEF Known, Scoped, Kept, TablePc, BuryPc
  <2>3. CASE ~Handle(c) /\ ~Report(c)
    <3>1. /\ UNCHANGED <<input[c], todo[c], row[c]>>
          /\ pc'[c] \in {pc[c], "lost", "died"}
          /\ pc'[c] = "new" => state'[c] = state[c]
      <4>1. CASE Cancel(c)
        BY <1>1, <4>1 DEF Cancel, Goto
      <4>2. ASSUME NEW d \in Change, d # c, Handle(d) \/ Cancel(d) \/ Report(d)
            PROVE  UNCHANGED <<input[c], todo[c], row[c], pc[c]>> /\ state'[c] = state[c]
        <5>1. CASE Report(d) \/ EditReply(d) \/ StartHandler(d) \/ MirrorReply(d) \/ HandlerTimeout(d) \/ Cancel(d)
          BY <1>1, <4>2, <5>1
             DEF Report, EditReply, StartHandler, MirrorReply, HandlerTimeout, Cancel, Goto, tables
        <5>2. CASE InsertChangeLog(d) \/ MarkDirty(d) \/ SelectSymbols(d)
          BY <1>1, <4>2, <5>2 DEF InsertChangeLog, MarkDirty, SelectSymbols, Goto, tables, Typed, TableTypes
        <5>3. CASE CheckSymbol(d) \/ Bury(d) \/ RecordBurial(d)
          BY <1>1, <4>2, <5>3 DEF CheckSymbol, Bury, RecordBurial, Goto, tables
        <5> QED BY <4>2, <5>1, <5>2, <5>3 DEF Handle
      <4>3. CASE \E s \in Server : BeginHold(s) \/ EndHold(s) \/ Collect(s)
        BY <4>3 DEF BeginHold, EndHold, Collect, handler, tables
      <4>4. CASE \E p \in Process : StartPass(p) \/ Crash(p)
        BY <1>1, <4>4 DEF StartPass, Crash, handler, tables
      <4>5. CASE \E p \in Process : Sweep(p)
        <5>1. UNCHANGED <<input, todo, row, pc>>
          BY <4>5 DEF Sweep, SelectChunks, DropChunk, MarkReindexed, ClearDirty, SweepTimeout, handler
        <5>2. state'[c] = state[c] \/ state[c] = "pending"
          BY <4>5 DEF Sweep, SelectChunks, DropChunk, MarkReindexed, ClearDirty, SweepTimeout, tables
        <5>3. pc[c] = "new" => state[c] = "none"
          BY <1>1 DEF Known, Scoped
        <5> QED BY <5>1, <5>2, <5>3
      <4>6. CASE (\E x \in Symbol : Discover(x)) \/ UNCHANGED vars
        BY <4>6 DEF Discover, handler, vars, tables
      <4> QED BY <2>3, <4>1, <4>2, <4>3, <4>4, <4>5, <4>6 DEF Next
    <3> QED BY <1>1, <3>1, KnownKept
  <2> QED BY <2>1, <2>2, <2>3
<1> QED BY <1>2, <1>3, <1>4 DEF KnownInv

\* It holds at the start.
LEMMA KnownInit == Init => Typed /\ KnownInv
<1>1. Init => KnownInv
  <2> SUFFICES ASSUME Init PROVE KnownInv
    OBVIOUS
  <2>1. \A c \in Change : pc[c] = "new" /\ state[c] = "none" /\ todo[c] = {} /\ row[c] = NoOne
    BY DEF Init
  <2>2. \A c \in Change : Known(c)
    BY <2>1 DEF Known, Scoped, Kept, TablePc, BuryPc
  <2> QED BY <2>2, PipelineAssumption DEF Init, KnownInv
<1> QED BY <1>1, TypedInit

\* It holds in every reachable state.
LEMMA KnownInvariance == Spec => [](Typed /\ KnownInv)
BY KnownInit, TypedStep, KnownInvStep, PTL DEF Spec

\* As long as no interceptor held the write lock, a change that was answered with success is in
\* the change log and an accepted deletion has tombstoned the symbols of its file
\* (change_log.py on_file_replaced behind _safe_invoke), in any number of servers.
THEOREM AcceptedIsRecorded == Spec => []RecordedUnlessHeld
<1>1. Typed /\ KnownInv => RecordedUnlessHeld
  <2> SUFFICES ASSUME KnownInv, holds = 0, NEW c \in Change, pc[c] = "ok"
               PROVE  /\ state[c] # "none"
                      /\ input[c].type = "delete" =>
                           \A x \in InitLive : PathOf[x] = input[c].path => symbols[x] = "dead"
    BY DEF RecordedUnlessHeld
  <2>1. Kept(c)
    BY DEF KnownInv, Known
  <2> QED BY <2>1 DEF Kept, Buried, BuryPc
<1> QED BY <1>1, KnownInvariance, PTL

-----------------------------------------------------------------------------
(* A handler is alone on its loop. *)

Alone ==
  \A c \in Change : pc[c] \in SyncPc =>
    /\ wpc[home[c]] = "idle"
    /\ \A d \in Change : pc[d] \in SyncPc /\ home[d] = home[c] => d = c

\* What a step does to labels and processes of the changes.
LEMMA LabelSteps ==
  ASSUME Typed, NEW c \in Change, Report(c) \/ Handle(c) \/ Cancel(c)
  PROVE  /\ \A d \in Change : d # c => UNCHANGED <<pc[d], home[d], input[d], todo[d], row[d]>>
         /\ pc'[c] \in SyncPc => pc[c] \in SyncPc \/ StartHandler(c)
         /\ pc'[c] \in SyncPc => UNCHANGED home
         /\ UNCHANGED <<sweep, lock, bounds, chunks>>
<1> USE DEF AwaitPc, SyncPc, WritePc, DonePc, AfterTables
<1>1. /\ pc \in [Change -> Label] /\ home \in [Change -> Server \cup {NoOne}]
      /\ input \in [Change -> Input \cup {NoOne}]
      /\ todo \in [Change -> SUBSET Symbol] /\ row \in [Change -> Symbol \cup {NoOne}]
  BY DEF Typed, HandlerTypes, Label
<1>2. CASE Report(c)
  <2>1. pc'[c] \in {"edit", "publish"}
    BY <1>1, <1>2 DEF Report, Goto
  <2> QED BY <1>1, <1>2, <2>1 DEF Report, Goto, tables
<1>3. CASE EditReply(c) \/ StartHandler(c) \/ MirrorReply(c) \/ HandlerTimeout(c) \/ Cancel(c)
  BY <1>1, <1>3 DEF EditReply, StartHandler, MirrorReply, HandlerTimeout, Cancel, Goto, tables
<1>4. CASE InsertChangeLog(c) \/ MarkDirty(c) \/ SelectSymbols(c)
  BY <1>1, <1>4 DEF InsertChangeLog, MarkDirty, SelectSymbols, Goto, tables
<1>5. CASE CheckSymbol(c) \/ Bury(c) \/ RecordBurial(c)
  BY <1>1, <1>5 DEF CheckSymbol, Bury, RecordBurial, Goto, tables
<1> QED BY <1>2, <1>3, <1>4, <1>5 DEF Handle

\* Handlers of one process run their statements one after the other and no sweep works beside them.
LEMMA AloneStep ==
  ASSUME Typed, Alone, [Next]_vars
  PROVE  Alone'
<1>1. /\ pc \in [Change -> Label]
      /\ wpc \in [Process -> {"idle", "select"} \cup WriteWpc]
      /\ \A c \in Change : pc[c] \in SyncPc => home[c] \in Server /\ home[c] \in Process
  BY DEF Typed, HandlerTypes, SweepTypes, Label, Process, SyncPc, WritePc
<1>2. CASE \E c \in Change : Report(c) \/ Handle(c) \/ Cancel(c)
  <2>1. PICK c \in Change : Report(c) \/ Handle(c) \/ Cancel(c)
    BY <1>2
  <2>2. /\ \A d \in Change : d # c => UNCHANGED <<pc[d], home[d]>>
        /\ pc'[c] \in SyncPc => pc[c] \in SyncPc \/ StartHandler(c)
        /\ pc'[c] \in SyncPc => UNCHANGED home
        /\ UNCHANGED wpc
    BY <2>1, LabelSteps DEF sweep
  <2>3. StartHandler(c) => LoopIdle(home[c])
    BY DEF StartHandler
  <2> QED BY <2>2, <2>3 DEF Alone, LoopIdle
<1>3. CASE \E s \in Server : BeginHold(s) \/ EndHold(s)
  BY <1>3 DEF Alone, BeginHold, EndHold, handler, sweep
<1>4. ASSUME NEW p \in Process, wpc' = [wpc EXCEPT ![p] = "select"], LoopIdle(p), UNCHANGED handler
      PROVE  Alone'
  BY <1>1, <1>4 DEF Alone, LoopIdle, handler
<1>5. CASE (\E s \in Server : Collect(s)) \/ \E p \in Process : StartPass(p)
  BY <1>4, <1>5 DEF Collect, StartPass, Process
<1>6. CASE \E p \in Process : Sweep(p)
  <2>1. PICK p \in Process : Sweep(p)
    BY <1>6
  <2>2. wpc[p] # "idle" /\ UNCHANGED handler /\ \A q \in Process : q # p => wpc'[q] = wpc[q]
    BY <1>1, <2>1 DEF Sweep, SelectChunks, DropChunk, MarkReindexed, ClearDirty, SweepTimeout, ForgetSweep,
                      WriteWpc
  <2> QED BY <1>1, <2>2 DEF Alone, handler
<1>7. CASE \E p \in Process : Crash(p)
  <2>1. PICK p \in Process : Crash(p)
    BY <1>7
  <2>2. /\ \A c \in Change : pc'[c] \in {pc[c], "died"}
        /\ wpc' = [wpc EXCEPT ![p] = "idle"] /\ UNCHANGED home
    BY <1>1, <2>1 DEF Crash, ForgetSweep
  <2> QED BY <1>1, <2>2 DEF Alone, SyncPc, WritePc
<1>8. CASE (\E x \in Symbol : Discover(x)) \/ UNCHANGED vars
  BY <1>8 DEF Alone, Discover, vars, handler, sweep
<1> QED BY <1>2, <1>3, <1>5, <1>6, <1>7, <1>8 DEF Next

-----------------------------------------------------------------------------
(* What one server promises. *)

OneServer == \A s, r \in Server : s = r

\* While a handler runs nothing else does, but for passes of `engram reconcile`.
LEMMA Owner ==
  ASSUME Typed, Alone, OneServer, NEW c \in Change, pc[c] \in SyncPc
  PROVE  /\ home[c] \in Server
         /\ \A s \in Server : s = home[c] /\ wpc[s] = "idle" /\ ~LoopIdle(s)
         /\ \A d \in Change : pc[d] \in SyncPc => d = c
<1>1. \A d \in Change : pc[d] \in SyncPc => home[d] \in Server
  BY DEF Typed, HandlerTypes, SyncPc, WritePc
<1> QED BY <1>1 DEF Alone, OneServer, LoopIdle

\* The rows of a change, and what a sweep has done with them.
Filed ==
  /\ \A c \in Change : pc[c] \in TablePc => lock = NoOne /\ state[c] = "pending"
  /\ NoStrandedChange
  /\ \A p \in Process : wpc[p] = "clear" =>
       p \in Server /\ \A c \in Change : input[c].path = cur[p] => state[c] # "pending"
  /\ \A p \in Cli : paths[p] = {}

\* The calls of changes keep no change stranded.
LEMMA FiledHandle ==
  ASSUME Typed, KnownInv, Alone, Filed, OneServer,
         NEW c \in Change, Report(c) \/ Handle(c) \/ Cancel(c)
  PROVE  Filed'
<1> USE DEF TablePc
<1>1. /\ pc \in [Change -> Label]
      /\ state \in [Change -> {"none", "pending", "reindexed"}]
      /\ \A d \in Change : d # c => UNCHANGED <<pc[d], home[d], input[d]>>
      /\ UNCHANGED <<wpc, paths, cur, lock>>
      /\ AfterTables(c) \in {"mirror", "ok"}
      /\ dirty \subseteq Path
  BY LabelSteps DEF Typed, HandlerTypes, TableTypes, Label, sweep, AfterTables
<1>2. ASSUME UNCHANGED <<state, dirty, input>>, pc[c] \notin {"dirty", "died"},
             pc'[c] \in TablePc => pc[c] \in TablePc
      PROVE  Filed'
  BY <1>1, <1>2 DEF Filed, NoStrandedChange
<1>3. CASE Report(c)
  <2>1. state[c] = "none" /\ UNCHANGED <<state, dirty>> /\ pc'[c] \in {"edit", "publish"}
    BY <1>1, <1>3 DEF Report, Goto, tables, KnownInv, Known, Scoped
  <2> QED BY <1>1, <2>1 DEF Filed, NoStrandedChange
<1>4. CASE EditReply(c) \/ StartHandler(c) \/ MirrorReply(c) \/ Cancel(c)
  <2>1. /\ UNCHANGED <<state, dirty, input>> /\ pc[c] \notin {"dirty", "died"}
        /\ pc'[c] \notin TablePc
    BY <1>1, <1>4 DEF EditReply, StartHandler, MirrorReply, Cancel, Goto, tables, AwaitPc
  <2> QED BY <1>2, <2>1
<1>5. CASE HandlerTimeout(c)
  <2>1. pc[c] = "insert"
    BY <1>5 DEF HandlerTimeout, Filed, LockFree, WritePc
  <2> QED BY <1>1, <1>2, <1>5, <2>1 DEF HandlerTimeout, Goto, tables
<1>6. CASE InsertChangeLog(c)
  <2>1. pc[c] = "insert" /\ lock = NoOne /\ pc'[c] = "dirty" /\ UNCHANGED <<dirty, input>>
        /\ state' = [state EXCEPT ![c] = "pending"]
    BY <1>1, <1>6 DEF InsertChangeLog, Goto, LockFree
  <2>2. \A s \in Server : wpc[s] # "clear"
    BY <2>1, Owner DEF SyncPc, WritePc
  <2> QED BY <1>1, <2>1, <2>2 DEF Filed, NoStrandedChange
<1>7. CASE MarkDirty(c)
  <2>1. /\ pc[c] = "dirty" /\ dirty' = dirty \cup {input[c].path} /\ UNCHANGED <<state, input>>
        /\ pc'[c] \in {"select", "mirror", "ok"}
    BY <1>1, <1>7 DEF MarkDirty, UpsertDirtyFile, Goto
  <2> QED BY <1>1, <2>1 DEF Filed, NoStrandedChange
<1>8. CASE SelectSymbols(c) \/ CheckSymbol(c) \/ Bury(c) \/ RecordBurial(c)
  <2>1. UNCHANGED <<state, dirty, input>> /\ pc[c] \in TablePc \ {"dirty"}
    BY <1>8 DEF SelectSymbols, CheckSymbol, Bury, RecordBurial, tables
  <2> QED BY <1>2, <2>1
<1> QED BY <1>3, <1>4, <1>5, <1>6, <1>7, <1>8 DEF Handle

\* Neither do sweeps, deaths and new symbols.
LEMMA FiledOther ==
  ASSUME Typed, KnownInv, Alone, Filed, OneServer,
         \/ \E s \in Server : BeginHold(s) \/ EndHold(s) \/ Collect(s)
         \/ \E p \in Process : StartPass(p) \/ Sweep(p) \/ Crash(p)
         \/ \E x \in Symbol : Discover(x)
  PROVE  Filed'
<1> USE DEF TablePc
<1>1. /\ pc \in [Change -> Label]
      /\ state \in [Change -> {"none", "pending", "reindexed"}]
      /\ wpc \in [Process -> {"idle", "select"} \cup WriteWpc]
      /\ paths \in [Process -> SUBSET Path] /\ cur \in [Process -> Path \cup {NoOne}]
      /\ TablePc \subseteq SyncPc /\ Process = Server \cup Cli /\ Server \cap Cli = {}
  BY PipelineAssumption DEF Typed, HandlerTypes, TableTypes, SweepTypes, Label, Process, SyncPc, WritePc
<1>2. ASSUME NEW s \in Server, BeginHold(s) PROVE Filed'
  <2>1. \A c \in Change : pc[c] \notin TablePc
    BY <1>1, <1>2, Owner DEF BeginHold
  <2> QED BY <1>2, <2>1 DEF Filed, NoStrandedChange, BeginHold, tables, handler, sweep
<1>3. ASSUME NEW s \in Server, EndHold(s) PROVE Filed'
  BY <1>3 DEF Filed, NoStrandedChange, EndHold, handler, sweep
<1>4. ASSUME NEW s \in Server, Collect(s) PROVE Filed'
  BY <1>1, <1>4 DEF Filed, NoStrandedChange, Collect, handler, tables
<1>5. ASSUME NEW p \in Process, StartPass(p) PROVE Filed'
  BY <1>1, <1>5 DEF Filed, NoStrandedChange, StartPass, handler, tables
<1>6. ASSUME NEW p \in Process, SelectChunks(p) \/ DropChunk(p) PROVE Filed'
  <2>1. wpc' = [wpc EXCEPT ![p] = NextLabel(p)] /\ NextLabel(p) # "clear"
        /\ UNCHANGED <<paths, cur, handler, state, dirty, lock>>
    BY <1>6 DEF SelectChunks, DropChunk, NextLabel, tables
  <2> QED BY <1>1, <2>1 DEF Filed, NoStrandedChange, handler
<1>7. ASSUME NEW p \in Process, MarkReindexed(p) PROVE Filed'
  <2>1. PICK f \in paths[p] :
          /\ state' = [c \in Change |-> IF state[c] = "pending" /\ input[c].path = f
                                        THEN "reindexed" ELSE state[c]]
          /\ cur' = [cur EXCEPT ![p] = f]
    BY <1>7 DEF MarkReindexed
  <2>2. wpc[p] = "mark" /\ wpc' = [wpc EXCEPT ![p] = "clear"] /\ UNCHANGED <<handler, dirty, lock, paths>>
    BY <1>7 DEF MarkReindexed
  <2>3. p \in Server
    BY <1>1, <2>1 DEF Filed
  <2>4. \A c \in Change : pc[c] \notin TablePc
    BY <1>1, <2>2, <2>3, Owner
  <2>5. \A c \in Change : state'[c] = "pending" => state[c] = "pending" /\ input[c].path # f
    BY <1>1, <2>1
  <2> QED BY <1>1, <2>1, <2>2, <2>3, <2>4, <2>5 DEF Filed, NoStrandedChange, handler
<1>8. ASSUME NEW p \in Process, ClearDirty(p) PROVE Filed'
  <2>1. /\ dirty' = dirty \ {cur[p]} /\ paths' = [paths EXCEPT ![p] = @ \ {cur[p]}]
        /\ wpc' = [wpc EXCEPT ![p] = NextLabel(p)] /\ NextLabel(p) # "clear" /\ wpc[p] = "clear"
        /\ cur' = [cur EXCEPT ![p] = NoOne]
        /\ UNCHANGED <<handler, state, lock>>
    BY <1>8 DEF ClearDirty, Cleared, NextLabel
  <2> QED BY <1>1, <2>1 DEF Filed, NoStrandedChange, handler
<1>9. ASSUME NEW p \in Process, SweepTimeout(p) PROVE Filed'
  BY <1>1, <1>9 DEF Filed, NoStrandedChange, SweepTimeout, ForgetSweep, handler, tables
<1>10. ASSUME NEW p \in Process, Crash(p) PROVE Filed'
  <2>1. /\ \A c \in Change : pc'[c] \in {pc[c], "died"}
        /\ lock' \in {lock, NoOne} /\ UNCHANGED <<state, dirty, input>>
        /\ wpc' = [wpc EXCEPT ![p] = "idle"] /\ paths' = [paths EXCEPT ![p] = {}]
        /\ cur' = [cur EXCEPT ![p] = NoOne]
    BY <1>1, <1>10 DEF Crash, ForgetSweep, tables
  <2>2. /\ \A c \in Change : pc'[c] \in TablePc => lock' = NoOne /\ state'[c] = "pending"
        /\ NoStrandedChange'
    BY <2>1 DEF Filed, NoStrandedChange
  <2> QED BY <1>1, <2>1, <2>2 DEF Filed
<1>11. ASSUME NEW x \in Symbol, Discover(x) PROVE Filed'
  BY <1>11 DEF Filed, NoStrandedChange, Discover, handler, sweep
<1> QED BY <1>2, <1>3, <1>4, <1>5, <1>6, <1>7, <1>8, <1>9, <1>10, <1>11 DEF Sweep

\* The tombstone rows of a symbol: one, of a change of its file.
OneTombstone(x) ==
  /\ Len(buriers[x]) <= 1
  /\ Len(buriers[x]) > 0 => symbols[x] = "dead"
  /\ \A k \in 1..Len(buriers[x]) : \A b \in Change :
       buriers[x][k] = b => state[b] # "none" /\ input[b].path = PathOf[x]

InHand(c) ==
  /\ pc[c] = "bury" => symbols[row[c]] = "live"
  /\ pc[c] = "record" => symbols[row[c]] = "dead" /\ Len(buriers[row[c]]) = 0

Burials == (\A x \in Symbol : OneTombstone(x)) /\ (\A c \in Change : InHand(c))

\* A symbol whose buriers do not change keeps its one tombstone.
LEMMA TombstoneKept ==
  ASSUME Typed, [Next]_vars, NEW x \in Symbol, OneTombstone(x), buriers'[x] = buriers[x],
         \A b \in Change : state[b] # "none" => input'[b] = input[b]
  PROVE  OneTombstone(x)'
BY TablesGrow DEF OneTombstone

\* A call buries only symbols nobody has buried.
LEMMA BurialsHandle ==
  ASSUME Typed, KnownInv, Alone, Burials, OneServer, [Next]_vars,
         NEW c \in Change, Report(c) \/ Handle(c) \/ Cancel(c)
  PROVE  Burials'
<1>1. /\ pc \in [Change -> Label] /\ row \in [Change -> Symbol \cup {NoOne}]
      /\ input \in [Change -> Input \cup {NoOne}]
      /\ symbols \in [Symbol -> {"absent", "live", "dead"}]
      /\ buriers \in [Symbol -> Seq(Change \cup {NoOne})]
      /\ \A d \in Change : d # c => UNCHANGED <<pc[d], row[d], input[d]>>
      /\ \A b \in Change : state[b] # "none" => state'[b] # "none"
      /\ \A x \in Symbol : Len(buriers[x]) \in Nat
      /\ AfterTables(c) \in {"mirror", "ok"}
      /\ pc[c] = "new" => state[c] = "none"
      /\ pc[c] \in {"bury", "record"} => row[c] \in Symbol /\ PathOf[row[c]] = input[c].path /\ state[c] # "none"
  BY LabelSteps, TablesGrow, LenProperties
     DEF Typed, HandlerTypes, TableTypes, Label, AfterTables, KnownInv, Known, Scoped, TablePc
<1>2. ASSUME UNCHANGED <<symbols, buriers>>, pc'[c] \notin {"bury", "record"},
             state[c] # "none" => input'[c] = input[c]
      PROVE  Burials'
  <2>1. \A b \in Change : state[b] # "none" => input'[b] = input[b]
    BY <1>1, <1>2
  <2>2. \A x \in Symbol : OneTombstone(x)'
    BY <1>2, <2>1, TombstoneKept DEF Burials
  <2>3. \A d \in Change : InHand(d)'
    BY <1>1, <1>2 DEF Burials, InHand
  <2> QED BY <2>2, <2>3 DEF Burials
<1>3. CASE Report(c) \/ EditReply(c) \/ StartHandler(c) \/ MirrorReply(c) \/ HandlerTimeout(c) \/ Cancel(c)
  <2>1. UNCHANGED <<symbols, buriers>> /\ pc'[c] \notin {"bury", "record"}
        /\ (state[c] # "none" => input'[c] = input[c])
    BY <1>1, <1>3 DEF Report, EditReply, StartHandler, MirrorReply, HandlerTimeout, Cancel, Goto, tables
  <2> QED BY <1>2, <2>1
<1>4. CASE InsertChangeLog(c) \/ MarkDirty(c) \/ SelectSymbols(c)
  <2>1. UNCHANGED <<symbols, buriers, input>> /\ pc'[c] \notin {"bury", "record"}
    BY <1>1, <1>4 DEF InsertChangeLog, MarkDirty, SelectSymbols, Goto, tables
  <2> QED BY <1>2, <2>1
<1>5. CASE CheckSymbol(c)
  <2>1. UNCHANGED <<symbols, buriers, input>>
        /\ \/ symbols[row'[c]] = "live" /\ pc'[c] = "bury"
           \/ pc'[c] \in {"mirror", "ok", "check"}
    BY <1>1, <1>5 DEF CheckSymbol, Goto, StillLive, tables
  <2>2. \A x \in Symbol : OneTombstone(x)'
    BY <2>1, TombstoneKept DEF Burials
  <2>3. \A d \in Change : InHand(d)'
    BY <1>1, <2>1 DEF Burials, InHand
  <2> QED BY <2>2, <2>3 DEF Burials
<1>6. \A d \in Change : d # c /\ pc[c] \in SyncPc => pc[d] \notin {"bury", "record"}
  BY Owner DEF SyncPc, WritePc
<1>7. CASE Bury(c)
  <2>1. /\ pc[c] = "bury" /\ pc'[c] = "record" /\ UNCHANGED <<buriers, input, row>>
        /\ symbols' = [symbols EXCEPT ![row[c]] = "dead"]
    BY <1>1, <1>7 DEF Bury, Goto
  <2>2. symbols[row[c]] = "live" /\ ~(Len(buriers[row[c]]) > 0)
    BY <1>1, <2>1 DEF Burials, InHand, OneTombstone
  <2>3. Len(buriers[row[c]]) = 0
    BY <1>1, <2>1, <2>2
  <2>4. \A d \in Change : d # c => pc'[d] \notin {"bury", "record"}
    BY <1>1, <1>6, <2>1 DEF SyncPc, WritePc
  <2>5. \A x \in Symbol : OneTombstone(x)'
    BY <2>1, TombstoneKept DEF Burials
  <2>6. \A d \in Change : InHand(d)'
    BY <1>1, <2>1, <2>3, <2>4 DEF InHand
  <2> QED BY <2>5, <2>6 DEF Burials
<1>8. CASE RecordBurial(c)
  <2>1. /\ pc[c] = "record" /\ pc'[c] \in {"mirror", "ok", "check"} /\ UNCHANGED <<symbols, input>>
        /\ buriers' = [buriers EXCEPT ![row[c]] = Append(@, c)]
    BY <1>1, <1>8 DEF RecordBurial, Goto
  <2>2. PICK r \in Symbol : r = row[c] /\ Len(buriers[r]) = 0 /\ symbols[r] = "dead"
    BY <1>1, <2>1 DEF Burials, InHand
  <2>3. Len(Append(buriers[r], c)) = 1 /\ Append(buriers[r], c)[1] = c
    BY <1>1, <2>2, AppendProperties
  <2>4. \A d \in Change : pc'[d] \notin {"bury", "record"}
    BY <1>1, <1>6, <2>1 DEF SyncPc, WritePc
  <2>5. ASSUME NEW x \in Symbol PROVE OneTombstone(x)'
    <3>1. CASE x = r
      <4>1. buriers'[x] = Append(buriers[r], c)
        BY <1>1, <2>1, <2>2, <3>1
      <4>2. PathOf[x] = input[c].path /\ state[c] # "none"
        BY <1>1, <2>1, <2>2, <3>1
      <4> QED BY <1>1, <2>1, <2>2, <2>3, <3>1, <4>1, <4>2 DEF OneTombstone
    <3>2. CASE x # r
      <4>1. buriers'[x] = buriers[x]
        BY <1>1, <2>1, <2>2, <3>2
      <4> QED BY <2>1, <4>1, TombstoneKept DEF Burials
    <3> QED BY <3>1, <3>2
  <2> QED BY <2>4, <2>5 DEF Burials, InHand
<1> QED BY <1>3, <1>4, <1>5, <1>7, <1>8 DEF Handle

\* No other step buries.
LEMMA BurialsOther ==
  ASSUME Typed, KnownInv, Alone, Burials, OneServer, [Next]_vars,
         \/ \E s \in Server : BeginHold(s) \/ EndHold(s) \/ Collect(s)
         \/ \E p \in Process : StartPass(p) \/ Sweep(p) \/ Crash(p)
         \/ \E x \in Symbol : Discover(x)
  PROVE  Burials'
<1>1. /\ row \in [Change -> Symbol \cup {NoOne}] /\ pc \in [Change -> Label]
      /\ symbols \in [Symbol -> {"absent", "live", "dead"}]
      /\ buriers \in [Symbol -> Seq(Change \cup {NoOne})]
      /\ \A b \in Change : state[b] # "none" => state'[b] # "none"
      /\ \A x \in Symbol : Len(buriers[x]) \in Nat
      /\ \A x \in Symbol : symbols[x] = "dead" => symbols'[x] = "dead"
      /\ \A c \in Change : pc[c] \in {"bury", "record"} => row[c] \in Symbol
      /\ NoOne \notin Change
  BY TablesGrow, LenProperties, PipelineAssumption DEF Typed, HandlerTypes, TableTypes, Label
<1>2. ASSUME UNCHANGED <<buriers, input, row>>, \A c \in Change : pc'[c] \in {pc[c], "died"},
             \A x \in Symbol : symbols[x] = "live" => symbols'[x] = "live"
      PROVE  Burials'
  <2>1. \A x \in Symbol : OneTombstone(x)'
    BY <1>2, TombstoneKept DEF Burials
  <2>2. \A d \in Change : InHand(d)'
    BY <1>1, <1>2 DEF Burials, InHand
  <2> QED BY <2>1, <2>2 DEF Burials
<1>3. CASE \E s \in Server : BeginHold(s) \/ Collect(s)
  BY <1>2, <1>3 DEF BeginHold, Collect, tables, handler
<1>4. CASE \E p \in Process : StartPass(p) \/ Sweep(p)
  <2>1. UNCHANGED <<symbols, buriers, handler>>
    BY <1>4 DEF StartPass, Sweep, SelectChunks, DropChunk, MarkReindexed, ClearDirty, SweepTimeout, tables
  <2> QED BY <1>2, <2>1 DEF handler
<1>5. CASE \E p \in Process : Crash(p)
  BY <1>1, <1>2, <1>5 DEF Crash, tables
<1>6. CASE \E x \in Symbol : Discover(x)
  BY <1>1, <1>2, <1>6 DEF Discover, handler
<1>7. ASSUME NEW s \in Server, EndHold(s) PROVE Burials'
  <2>1. CASE UNCHANGED <<symbols, buriers>>
    BY <1>2, <1>7, <2>1 DEF EndHold, handler
  <2>2. CASE ~UNCHANGED <<symbols, buriers>>
    <3>1. PICK x \in Symbol : /\ symbols[x] = "live"
                              /\ symbols' = [symbols EXCEPT ![x] = "dead"]
                              /\ buriers' = [buriers EXCEPT ![x] = Append(@, NoOne)]
      BY <1>7, <2>2 DEF EndHold
    <3>2. UNCHANGED <<input, row, pc, state>> /\ \A c \in Change : pc[c] \notin {"bury", "record"}
      BY <1>7, Owner DEF EndHold, handler, SyncPc, WritePc
    <3>3. Len(buriers[x]) = 0
      <4>1. ~(Len(buriers[x]) > 0) /\ Len(buriers[x]) \in Nat
        BY <1>1, <3>1 DEF Burials, OneTombstone
      <4> QED BY <4>1
    <3>4. Len(Append(buriers[x], NoOne)) = 1 /\ Append(buriers[x], NoOne)[1] = NoOne
      BY <1>1, <3>3, AppendProperties
    <3>5. ASSUME NEW y \in Symbol PROVE OneTombstone(y)'
      <4>1. CASE y = x
        <5>1. buriers'[y] = Append(buriers[x], NoOne) /\ symbols'[y] = "dead"
          BY <1>1, <3>1, <4>1
        <5> QED BY <1>1, <3>4, <5>1 DEF OneTombstone
      <4>2. CASE y # x
        <5>1. buriers'[y] = buriers[y]
          BY <1>1, <3>1, <4>2
        <5> QED BY <3>2, <5>1, TombstoneKept DEF Burials
      <4> QED BY <4>1, <4>2
    <3> QED BY <3>2, <3>5 DEF Burials, InHand
  <2> QED BY <2>1, <2>2
<1> QED BY <1>3, <1>4, <1>5, <1>6, <1>7

\* From its selection on a sweep of the server holds every chunk of its files that is to go,
\* and what it marked is clean.
Gathered(s) ==
  wpc[s] \in WriteWpc /\ paths[s] # {} =>
    \A x \in chunks : PathOf[x] \in paths[s] /\ symbols[x] = "dead" => x \in drop[s]

Swept ==
  /\ \A s \in Server : Gathered(s)
  /\ \A c \in Change : state[c] = "reindexed" =>
       \A x \in chunks : \A k \in 1..Len(buriers[x]) : buriers[x][k] # c

\* A call does not bury behind a sweep that has chosen what to drop.
LEMMA SweptHandle ==
  ASSUME Typed, Alone, Filed, Swept, OneServer,
         NEW c \in Change, Report(c) \/ Handle(c) \/ Cancel(c)
  PROVE  Swept'
<1>1. /\ UNCHANGED <<wpc, paths, drop, chunks>> /\ chunks \subseteq Symbol
      /\ state \in [Change -> {"none", "pending", "reindexed"}]
      /\ symbols \in [Symbol -> {"absent", "live", "dead"}]
      /\ buriers \in [Symbol -> Seq(Change \cup {NoOne})]
  BY LabelSteps DEF Typed, TableTypes, sweep
<1>2. CASE pc[c] \notin SyncPc
  <2>1. UNCHANGED <<state, symbols, buriers>>
    BY <1>2 DEF SyncPc, WritePc, Report, Handle, Cancel, EditReply, StartHandler, InsertChangeLog, MarkDirty,
                SelectSymbols, CheckSymbol, Bury, RecordBurial, MirrorReply, HandlerTimeout, tables
  <2> QED BY <1>1, <2>1 DEF Swept, Gathered
<1>3. CASE pc[c] \in SyncPc
  <2>1. \A s \in Server : wpc[s] \notin WriteWpc
    BY <1>3, Owner DEF WriteWpc
  <2>2. /\ \A b \in Change : state'[b] = "reindexed" => state[b] = "reindexed"
        /\ \/ buriers' = buriers
           \/ /\ state'[c] # "reindexed" /\ pc[c] = "record"
              /\ buriers' = [buriers EXCEPT ![row[c]] = Append(@, c)]
    <3>1. CASE RecordBurial(c)
      BY <3>1 DEF RecordBurial, Filed, TablePc
    <3>2. CASE InsertChangeLog(c)
      BY <1>1, <3>2 DEF InsertChangeLog
    <3>3. CASE ~RecordBurial(c) /\ ~InsertChangeLog(c)
      BY <3>3 DEF Report, Handle, Cancel, EditReply, StartHandler, MarkDirty,
                  SelectSymbols, CheckSymbol, Bury, MirrorReply, HandlerTimeout, tables
    <3> QED BY <3>1, <3>2, <3>3
  <2>3. ASSUME NEW b \in Change, state'[b] = "reindexed", NEW x \in chunks, NEW k \in 1..Len(buriers'[x])
        PROVE  buriers'[x][k] # b
    <3>1. CASE buriers'[x] = buriers[x]
      BY <2>2, <2>3, <3>1 DEF Swept, Gathered
    <3>2. CASE buriers'[x] # buriers[x]
      <4>1. x = row[c] /\ buriers'[x] = Append(buriers[x], c) /\ b # c /\ buriers[x] \in Seq(Change \cup {NoOne})
        BY <1>1, <2>2, <2>3, <3>2
      <4>2. /\ Len(buriers'[x]) = Len(buriers[x]) + 1 /\ Len(buriers[x]) \in Nat
            /\ \A j \in 1..Len(buriers[x]) : buriers'[x][j] = buriers[x][j]
            /\ buriers'[x][Len(buriers[x]) + 1] = c
        BY <4>1, AppendProperties, LenProperties
      <4>3. \A j \in 1..Len(buriers[x]) : buriers[x][j] # b
        BY <2>2, <2>3 DEF Swept, Gathered
      <4> QED BY <4>1, <4>2, <4>3
    <3> QED BY <3>1, <3>2
  <2> QED BY <1>1, <2>1, <2>3 DEF Swept, Gathered
<1> QED BY <1>2, <1>3

\* A pass drops the chunks of every symbol buried for the files it has taken.
LEMMA SweptOther ==
  ASSUME Typed, Alone, Filed, Burials, Swept, OneServer,
         \/ \E s \in Server : BeginHold(s) \/ EndHold(s) \/ Collect(s)
         \/ \E p \in Process : StartPass(p) \/ Sweep(p) \/ Crash(p)
         \/ \E x \in Symbol : Discover(x)
  PROVE  Swept'
<1> USE DEF WriteWpc
<1>1. /\ chunks \subseteq Symbol
      /\ state \in [Change -> {"none", "pending", "reindexed"}]
      /\ symbols \in [Symbol -> {"absent", "live", "dead"}]
      /\ buriers \in [Symbol -> Seq(Change \cup {NoOne})]
      /\ wpc \in [Process -> {"idle", "select"} \cup WriteWpc]
      /\ paths \in [Process -> SUBSET Path] /\ drop \in [Process -> SUBSET Symbol]
      /\ \A p \in Process : wpc[p] = "drop" <=> drop[p] # {}
      /\ Process = Server \cup Cli /\ NoOne \notin Change
  BY PipelineAssumption DEF Typed, TableTypes, SweepTypes, Process
<1>2. ASSUME state' = state, buriers' = buriers, chunks' = chunks, paths' = paths, drop' = drop,
             \A x \in Symbol : symbols'[x] = "dead" => symbols[x] = "dead",
             \A s \in Server : wpc'[s] \in WriteWpc => wpc'[s] = wpc[s]
      PROVE  Swept'
  <2>1. ASSUME NEW s \in Server, wpc'[s] \in WriteWpc, paths'[s] # {}, NEW x \in chunks',
               PathOf[x] \in paths'[s], symbols'[x] = "dead"
        PROVE  x \in drop'[s]
    <3>1. wpc[s] \in WriteWpc /\ paths[s] # {} /\ x \in chunks /\ symbols[x] = "dead"
      BY <1>1, <1>2, <2>1
    <3> QED BY <1>2, <2>1, <3>1 DEF Swept, Gathered
  <2>2. \A s \in Server : Gathered(s)'
    BY <2>1 DEF Gathered
  <2>3. \A c \in Change : state'[c] = "reindexed" =>
          \A x \in chunks' : \A k \in 1..Len(buriers'[x]) : buriers'[x][k] # c
    BY <1>2 DEF Swept
  <2> QED BY <2>2, <2>3 DEF Swept
<1>3. ASSUME NEW s \in Server, BeginHold(s) PROVE Swept'
  <2>1. /\ state' = state /\ buriers' = buriers /\ chunks' = chunks /\ paths' = paths
        /\ drop' = drop /\ symbols' = symbols /\ wpc' = wpc
    BY <1>3 DEF BeginHold, tables, sweep
  <2> QED BY <1>2, <2>1
<1>4. ASSUME NEW s \in Server, EndHold(s) PROVE Swept'
  <2>1. \A r \in Server : wpc'[r] \notin WriteWpc
    BY <1>4 DEF EndHold, LoopIdle, sweep, OneServer
  <2>2. UNCHANGED <<state, chunks>>
    BY <1>4 DEF EndHold
  <2>3. ASSUME NEW b \in Change, state[b] = "reindexed", NEW x \in chunks, NEW k \in 1..Len(buriers'[x])
        PROVE  buriers'[x][k] # b
    <3>1. CASE buriers'[x] = buriers[x]
      BY <2>3, <3>1 DEF Swept, Gathered
    <3>2. CASE buriers'[x] # buriers[x]
      <4>1. buriers'[x] = Append(buriers[x], NoOne) /\ buriers[x] \in Seq(Change \cup {NoOne})
        BY <1>1, <1>4, <3>2 DEF EndHold
      <4>2. /\ Len(buriers'[x]) = Len(buriers[x]) + 1 /\ Len(buriers[x]) \in Nat
            /\ \A j \in 1..Len(buriers[x]) : buriers'[x][j] = buriers[x][j]
            /\ buriers'[x][Len(buriers[x]) + 1] = NoOne
        BY <4>1, AppendProperties, LenProperties
      <4>3. \A j \in 1..Len(buriers[x]) : buriers[x][j] # b
        BY <2>3 DEF Swept
      <4>4. NoOne # b
        BY <1>1, <2>3
      <4>5. k \in 1..Len(buriers[x]) \/ k = Len(buriers[x]) + 1
        BY <4>2
      <4> QED BY <4>2, <4>3, <4>4, <4>5
    <3> QED BY <3>1, <3>2
  <2> QED BY <2>1, <2>2, <2>3 DEF Swept, Gathered
<1>5. CASE \E s \in Server : Collect(s)
  <2>1. PICK s \in Server : Collect(s)
    BY <1>5
  <2>2. wpc' = [wpc EXCEPT ![s] = "select"] /\ UNCHANGED <<tables, drop>>
        /\ \A r \in Server : r = s
    BY <2>1 DEF Collect, OneServer
  <2> QED BY <1>1, <2>2 DEF Swept, Gathered, tables
<1>6. CASE \E p \in Process : StartPass(p)
  BY <1>1, <1>2, <1>6 DEF StartPass, tables
<1>7. ASSUME NEW p \in Process, SelectChunks(p) PROVE Swept'
  <2>1. /\ drop' = [drop EXCEPT ![p] = {x \in chunks : InScope(p, x) /\ symbols[x] = "dead"}]
        /\ wpc' = [wpc EXCEPT ![p] = NextLabel(p)] /\ UNCHANGED <<tables, paths>>
    BY <1>7 DEF SelectChunks
  <2>2. \A x \in chunks : PathOf[x] \in paths[p] /\ symbols[x] = "dead" => x \in drop'[p]
    BY <1>1, <2>1 DEF InScope
  <2>3. ASSUME NEW s \in Server PROVE Gathered(s)'
    <3>1. CASE s = p
      BY <1>1, <2>1, <2>2, <3>1 DEF Gathered, tables
    <3>2. CASE s # p
      BY <1>1, <2>1, <3>2 DEF Gathered, Swept, tables
    <3> QED BY <3>1, <3>2
  <2> QED BY <2>1, <2>3 DEF Swept, tables
<1>8. ASSUME NEW p \in Process, DropChunk(p) PROVE Swept'
  <2>1. PICK x \in drop[p] : chunks' = chunks \ {x} /\ drop' = [drop EXCEPT ![p] = @ \ {x}]
    BY <1>8 DEF DropChunk
  <2>2. wpc' = [wpc EXCEPT ![p] = NextLabel(p)] /\ UNCHANGED <<state, symbols, buriers, paths>> /\ wpc[p] \in WriteWpc
    BY <1>8 DEF DropChunk
  <2>3. ASSUME NEW s \in Server PROVE Gathered(s)'
    <3>1. CASE s = p
      BY <1>1, <2>1, <2>2, <3>1 DEF Gathered, Swept
    <3>2. CASE s # p
      BY <1>1, <2>1, <2>2, <3>2 DEF Gathered, Swept
    <3> QED BY <3>1, <3>2
  <2> QED BY <2>1, <2>2, <2>3 DEF Swept
<1>9. ASSUME NEW p \in Process, MarkReindexed(p) PROVE Swept'
  <2>1. PICK f \in paths[p] :
          state' = [c \in Change |-> IF state[c] = "pending" /\ input[c].path = f
                                     THEN "reindexed" ELSE state[c]]
    BY <1>9 DEF MarkReindexed
  <2>2. wpc[p] = "mark" /\ wpc' = [wpc EXCEPT ![p] = "clear"]
        /\ UNCHANGED <<symbols, buriers, chunks, paths, drop>>
    BY <1>9 DEF MarkReindexed
  <2>3. p \in Server /\ drop[p] = {}
    BY <1>1, <2>1, <2>2 DEF Filed
  <2>4. ASSUME NEW c \in Change, state'[c] = "reindexed", NEW x \in chunks, NEW k \in 1..Len(buriers[x])
        PROVE  buriers[x][k] # c
    <3>1. CASE state[c] = "reindexed"
      BY <2>4, <3>1 DEF Swept, Gathered
    <3>2. CASE state[c] # "reindexed"
      <4>1. input[c].path = f
        BY <2>1, <2>4, <3>2
      <4>2. ASSUME buriers[x][k] = c PROVE FALSE
        <5>1. PathOf[x] = f /\ Len(buriers[x]) \in Nat
          BY <1>1, <4>1, <4>2, LenProperties DEF Burials, OneTombstone
        <5>2. symbols[x] = "dead"
          BY <1>1, <5>1 DEF Burials, OneTombstone
        <5> QED BY <2>1, <2>2, <2>3, <5>1, <5>2 DEF Swept, Gathered
      <4> QED BY <4>2
    <3> QED BY <3>1, <3>2
  <2>5. \A s \in Server : wpc'[s] \in WriteWpc => wpc[s] \in WriteWpc
    BY <1>1, <2>2
  <2> QED BY <2>2, <2>4, <2>5 DEF Swept, Gathered
<1>10. ASSUME NEW p \in Process, ClearDirty(p) PROVE Swept'
  <2>1. /\ wpc[p] \in WriteWpc /\ paths' = [paths EXCEPT ![p] = @ \ {cur[p]}] /\ drop' = drop
        /\ wpc' = [wpc EXCEPT ![p] = NextLabel(p)] /\ UNCHANGED <<state, symbols, buriers, chunks>>
    BY <1>10 DEF ClearDirty
  <2>2. ASSUME NEW s \in Server PROVE Gathered(s)'
    <3>1. CASE s = p
      BY <1>1, <2>1, <3>1 DEF Gathered, Swept
    <3>2. CASE s # p
      BY <1>1, <2>1, <3>2 DEF Gathered, Swept
    <3> QED BY <3>1, <3>2
  <2> QED BY <2>1, <2>2 DEF Swept
<1>11. ASSUME NEW p \in Process, SweepTimeout(p) \/ Crash(p) PROVE Swept'
  <2>1. UNCHANGED tables /\ wpc' = [wpc EXCEPT ![p] = "idle"] /\ paths' = [paths EXCEPT ![p] = {}]
        /\ drop' = [drop EXCEPT ![p] = {}]
    BY <1>11 DEF SweepTimeout, Crash, ForgetSweep
  <2> QED BY <1>1, <2>1 DEF Swept, Gathered, tables
<1>12. CASE \E x \in Symbol : Discover(x)
  BY <1>1, <1>2, <1>12 DEF Discover, sweep
<1> QED BY <1>3, <1>4, <1>5, <1>6, <1>7, <1>8, <1>9, <1>10, <1>11, <1>12 DEF Sweep

PipelineInv == Typed /\ KnownInv /\ Alone /\ Filed /\ Burials /\ Swept

\* The inductive invariant of a database with one server.
LEMMA PipelineInvariance ==
  ASSUME OneServer PROVE Spec => []PipelineInv
<1>1. Init => PipelineInv
  <2> SUFFICES ASSUME Init PROVE PipelineInv
    OBVIOUS
  <2>1. Typed /\ KnownInv
    BY KnownInit
  <2>2. Alone /\ Filed
    BY DEF Init, Alone, Filed, NoStrandedChange, SyncPc, WritePc, TablePc, Process
  <2>3. Burials
    <3>1. \A x \in Symbol : buriers[x] = <<>> /\ Len(buriers[x]) = 0
      BY DEF Init
    <3> QED BY <3>1 DEF Init, Burials, OneTombstone, InHand
  <2>4. Swept
    BY DEF Init, Swept, Gathered, WriteWpc, Process
  <2> QED BY <2>1, <2>2, <2>3, <2>4 DEF PipelineInv
<1>2. PipelineInv /\ [Next]_vars => PipelineInv'
  <2> SUFFICES ASSUME PipelineInv, [Next]_vars PROVE PipelineInv'
    OBVIOUS
  <2>1. Typed /\ KnownInv /\ Alone /\ Filed /\ Burials /\ Swept
    BY DEF PipelineInv
  <2>2. Typed' /\ KnownInv' /\ Alone'
    BY <2>1, TypedStep, KnownInvStep, AloneStep
  <2>3. CASE \E c \in Change : Report(c) \/ Handle(c) \/ Cancel(c)
    BY <2>1, <2>2, <2>3, FiledHandle, BurialsHandle, SweptHandle DEF PipelineInv
  <2>4. CASE \/ \E s \in Server : BeginHold(s) \/ EndHold(s) \/ Collect(s)
             \/ \E p \in Process : StartPass(p) \/ Sweep(p) \/ Crash(p)
             \/ \E x \in Symbol : Discover(x)
    BY <2>1, <2>2, <2>4, FiledOther, BurialsOther, SweptOther DEF PipelineInv
  <2>5. CASE UNCHANGED vars
    BY <2>1, <2>2, <2>5 DEF PipelineInv, Filed, NoStrandedChange, Burials, OneTombstone, InHand, Swept, Gathered, vars, tables, handler, sweep
  <2> QED BY <2>3, <2>4, <2>5 DEF Next
<1> QED BY <1>1, <1>2, PTL DEF Spec

\* With one server a logged change waits in dirty_files until it is swept: no failing sweep, no
\* full pass and no crash of a sweep drops the entry of a row it did not mark (reconciler.py,
\* mark_reindexed and clear_dirty_file).
THEOREM NoneStranded ==
  ASSUME OneServer PROVE Spec => []NoStrandedChange
<1>1. PipelineInv => NoStrandedChange
  BY DEF PipelineInv, Filed
<1> QED BY <1>1, PipelineInvariance, PTL

\* With one server no chunk anchor is left of a symbol that a reindexed change tombstoned
\* (reconciler.py sweeps the chunks before it marks the rows).
THEOREM ReindexedAreSwept ==
  ASSUME OneServer PROVE Spec => []ReindexedMeansSwept
<1>1. PipelineInv => ReindexedMeansSwept
  <2> SUFFICES ASSUME PipelineInv PROVE ReindexedMeansSwept
    OBVIOUS
  <2>1. \A x \in chunks : DOMAIN buriers[x] = 1..Len(buriers[x])
    BY LenProperties DEF PipelineInv, Typed, TableTypes
  <2> QED BY <2>1 DEF PipelineInv, Swept, ReindexedMeansSwept
<1> QED BY <1>1, PipelineInvariance, PTL

\* With one server the history of a symbol holds one tombstone row at most, whatever changes and
\* interceptors delete (tombstone_symbol reads the row before it writes).
THEOREM BuriedOnce ==
  ASSUME OneServer PROVE Spec => []TombstonedOnce
<1>1. PipelineInv => TombstonedOnce
  BY DEF PipelineInv, Burials, OneTombstone, TombstonedOnce
<1> QED BY <1>1, PipelineInvariance, PTL
=============================================================================
