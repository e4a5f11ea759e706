------------------------------ MODULE WalTailer ------------------------------
(***************************************************************************)
(* The tailers of MemPalace's write-ahead log (workers/wal_tailer.py) and  *)
(* of the inbox of the Claude Code hook (workers/hook_inbox.py).  Every    *)
(* process that tails a file keeps its place in the same rows of the meta  *)
(* table; the inbox tailer does not keep the inode.                        *)
(*                                                                         *)
(* The writers, MemPalace or the processes of the hook script, append      *)
(* lines, each in one or two writes.  The file can be rotated (a new inode *)
(* takes the name) and truncated in place, also by an unlink and           *)
(* re-creation that gets the old inode number back.  A byte offset is      *)
(* counted in halves of a line, so that a line without its newline has a   *)
(* size: lines are equally long.  A tick of a tailer is not atomic: the    *)
(* writers and the other tailers act between its file reads, and it can    *)
(* end anywhere with an exception or a crash, which leaves only what it    *)
(* stored in meta.                                                         *)
(***************************************************************************)
EXTENDS Integers, Sequences, FiniteSets

CONSTANTS
  Tailer,       \* processes that tail the log
  MaxLine,      \* bound: lines that are written, numbered from 1
  Junk,         \* the lines among them that are blank, not JSON or of no interest
  MaxFile,      \* bound: inodes the log goes through
  MaxTruncate,  \* bound: truncations in place
  MaxFailure,   \* bound: ticks that end early
  Kinds,        \* values of keepsInode to consider
  Orderly       \* see SlowRegrowth

ASSUME BoundsAssumption ==
  /\ MaxLine \in Nat /\ MaxFile \in Nat \ {0} /\ MaxTruncate \in Nat /\ MaxFailure \in Nat
  /\ Junk \subseteq 1..MaxLine
  /\ Orderly \in BOOLEAN /\ Kinds \subseteq BOOLEAN

Line     == 1..MaxLine
Payload  == Line \ Junk
LineSize == 2
Offset   == {LineSize * k : k \in 0..MaxLine}   \* where a line begins or the log ends
NoInode  == 0
Unseen   == [inode |-> NoInode, size |-> 0]

VARIABLES
  files,       \* by inode: the complete lines of each file; the last one is the log
  partial,     \* the log ends in a line without newline
  lastLine,    \* how many lines were written
  truncations, failures,
  metaInode, metaCursor,   \* the rows mempalace_wal_inode and mempalace_wal_cursor
  pc, seen,    \* a tick: where it is, what stat told it
  pos, handle, \* its cursor, the inode it has open
  keepsInode,  \* the tailers are those of the write-ahead log, not of the inbox
  delivered,   \* per line: handlers saw it 0, 1 or more (2) times
  \* Which contents of the log a cursor counts lines of: history variables, read by
  \* SlowRegrowth only.
  contents, metaOf, posOf

log   == <<files, partial, lastLine, truncations>>
meta  == <<metaInode, metaCursor, metaOf>>
tick  == <<pc, seen, pos, handle, posOf>>
vars  == <<log, contents, meta, tick, delivered, failures, keepsInode>>

Inode   == Len(files)
SizeOf(f) == LineSize * Len(files[f]) + IF partial /\ f = Inode THEN 1 ELSE 0

TypeOK ==
  /\ files \in Seq(Seq(Line)) /\ Inode \in 1..MaxFile
  /\ partial \in BOOLEAN
  /\ lastLine \in 0..MaxLine /\ truncations \in 0..MaxTruncate /\ failures \in 0..MaxFailure
  /\ metaInode \in {NoInode} \cup 1..Inode
  /\ metaCursor \in Offset
  /\ pc \in [Tailer -> {"idle", "look", "size", "open", "drain", "store"}]
  /\ keepsInode \in BOOLEAN
  /\ seen \in [Tailer -> [inode : {NoInode} \cup 1..Inode, size : 0..(LineSize * MaxLine)]]
  /\ pos \in [Tailer -> Offset]
  /\ handle \in [Tailer -> {NoInode} \cup 1..Inode]
  /\ delivered \in [Line -> 0..2]
  /\ {contents, metaOf} \subseteq Nat /\ posOf \in [Tailer -> Nat]

Init ==
  /\ files = <<<<>>>> /\ partial = FALSE /\ lastLine = 0
  /\ truncations = 0 /\ failures = 0
  /\ metaInode = NoInode /\ metaCursor = 0
  /\ pc = [t \in Tailer |-> "idle"] /\ seen = [t \in Tailer |-> Unseen]
  /\ pos = [t \in Tailer |-> 0]
  /\ handle = [t \in Tailer |-> NoInode]
  /\ delivered = [e \in Line |-> 0]
  /\ keepsInode \in Kinds
  /\ contents = 0 /\ metaOf = 0 /\ posOf = [t \in Tailer |-> 0]

-----------------------------------------------------------------------------
(* The writers and whoever rotates the log *)

\* Cursors that are stored, held or still to be reached in contents the log no longer has.
StaleCursors ==
  {c \in {metaCursor} : metaOf # contents}
    \cup {pos[t] : t \in {u \in Tailer : pc[u] \notin {"idle", "look"} /\ posOf[u] # contents}}
    \cup {SizeOf(handle[t]) : t \in {u \in Tailer : handle[u] \notin {NoInode, Inode}}}

\* An offset cannot be told from the same offset in other contents.  An orderly log
\* does not grow back to an offset that is still around from its earlier contents.
SlowRegrowth(size) == Orderly => \A c \in StaleCursors \ {0} : size < c

BeginLine ==
  /\ ~partial /\ lastLine < MaxLine
  /\ SlowRegrowth(SizeOf(Inode) + 1)
  /\ partial' = TRUE
  /\ UNCHANGED <<files, lastLine, truncations, contents, meta, tick, delivered, failures, keepsInode>>

EndLine ==
  /\ partial
  /\ SlowRegrowth(SizeOf(Inode) + 1)
  /\ partial' = FALSE
  /\ files' = [files EXCEPT ![Inode] = Append(@, lastLine + 1)]
  /\ lastLine' = lastLine + 1
  /\ UNCHANGED <<truncations, contents, meta, tick, delivered, failures, keepsInode>>

Rotate ==
  /\ Inode < MaxFile
  /\ files' = Append(files, <<>>)
  /\ partial' = FALSE
  /\ contents' = contents + 1
  /\ UNCHANGED <<lastLine, truncations, meta, tick, delivered, failures, keepsInode>>

Truncate ==
  /\ truncations < MaxTruncate
  /\ files' = [files EXCEPT ![Inode] = <<>>]
  /\ partial' = FALSE
  /\ truncations' = truncations + 1
  /\ contents' = contents + 1
  /\ UNCHANGED <<lastLine, meta, tick, delivered, failures, keepsInode>>

-----------------------------------------------------------------------------
(* One tick *)

Rotated(t) == metaInode \notin {NoInode, seen[t].inode}
Shrunk(t)  == metaInode = seen[t].inode /\ seen[t].size < metaCursor

\* The cursor a tick starts from.
FaultyStart(t) == IF Rotated(t) THEN 0 ELSE IF Shrunk(t) THEN seen[t].size ELSE metaCursor
Start(t) == IF Rotated(t) \/ Shrunk(t) THEN 0 ELSE metaCursor

\* Nothing but the meta rows outlives a tick.
Forget(t) ==
  /\ pc' = [pc EXCEPT ![t] = "idle"]
  /\ seen' = [seen EXCEPT ![t] = Unseen]
  /\ pos' = [pos EXCEPT ![t] = 0]
  /\ handle' = [handle EXCEPT ![t] = NoInode]
  /\ posOf' = [posOf EXCEPT ![t] = 0]

Stat(t) ==
  /\ pc[t] = "idle" /\ keepsInode
  /\ pc' = [pc EXCEPT ![t] = "look"]
  /\ seen' = [seen EXCEPT ![t] = [inode |-> Inode, size |-> SizeOf(Inode)]]
  /\ UNCHANGED <<log, contents, meta, pos, handle, posOf, delivered, failures, keepsInode>>

\* The two meta rows, the branches on them, and the inode row.  A tick that has nothing
\* to read ends here, and a cursor that was reset is not stored.
Look(t) ==
  /\ pc[t] = "look"
  /\ metaInode' = seen[t].inode
  /\ seen' = [seen EXCEPT ![t] = Unseen]
  /\ IF seen[t].size = Start(t)
     THEN /\ pc' = [pc EXCEPT ![t] = "idle"]
          /\ UNCHANGED <<pos, posOf>>
     ELSE /\ pc' = [pc EXCEPT ![t] = "open"]
          /\ pos' = [pos EXCEPT ![t] = Start(t)]
          /\ posOf' = [posOf EXCEPT ![t] = metaOf]
  /\ UNCHANGED <<log, contents, metaCursor, metaOf, handle, delivered, failures, keepsInode>>

\* The inbox tailer reads its cursor first and the size of the file afterwards.
ReadCursor(t) ==
  /\ pc[t] = "idle" /\ ~keepsInode
  /\ pc' = [pc EXCEPT ![t] = "size"]
  /\ pos' = [pos EXCEPT ![t] = metaCursor]
  /\ posOf' = [posOf EXCEPT ![t] = metaOf]
  /\ UNCHANGED <<log, contents, meta, seen, handle, delivered, failures, keepsInode>>

InboxStart(t) == IF SizeOf(Inode) < pos[t] THEN 0 ELSE pos[t]

Size(t) ==
  /\ pc[t] = "size"
  /\ IF SizeOf(Inode) = InboxStart(t)
     THEN Forget(t)
     ELSE /\ pc' = [pc EXCEPT ![t] = "open"]
          /\ pos' = [pos EXCEPT ![t] = InboxStart(t)]
          /\ UNCHANGED <<posOf, seen, handle>>
  /\ UNCHANGED <<log, contents, meta, delivered, failures, keepsInode>>

\* _drain_from opens whatever file has the name now.
Open(t) ==
  /\ pc[t] = "open"
  /\ handle' = [handle EXCEPT ![t] = Inode]
  /\ pc' = [pc EXCEPT ![t] = "drain"]
  /\ UNCHANGED <<log, contents, meta, pos, posOf, seen, delivered, failures, keepsInode>>

AtLine(t)   == pos[t] + LineSize <= SizeOf(handle[t])
LineNo(t)   == files[handle[t]][pos[t] \div LineSize + 1]
FaultyAdvance(t) == SizeOf(handle[t])
Advance(t) == pos[t] + LineSize

AtLeastTwo(n) == IF n = 0 THEN 1 ELSE 2

\* readline returns a line with its newline; the handlers run before the next one.
ReadLine(t) ==
  /\ pc[t] = "drain" /\ AtLine(t)
  /\ pos' = [pos EXCEPT ![t] = Advance(t)]
  /\ delivered' = IF LineNo(t) \in Junk THEN delivered
                  ELSE [delivered EXCEPT ![LineNo(t)] = AtLeastTwo(@)]
  /\ posOf' = [posOf EXCEPT ![t] = IF pos[t] = 0 /\ handle[t] = Inode THEN contents ELSE @]
  /\ UNCHANGED <<log, contents, meta, pc, handle, seen, failures, keepsInode>>

\* End of file, or a line whose newline has not been written.
EndOfFile(t) ==
  /\ pc[t] = "drain" /\ ~AtLine(t)
  /\ pc' = [pc EXCEPT ![t] = "store"]
  /\ UNCHANGED <<log, contents, meta, pos, handle, posOf, seen, delivered, failures, keepsInode>>

Store(t) ==
  /\ pc[t] = "store"
  /\ metaCursor' = pos[t]
  /\ metaOf' = posOf[t]
  /\ Forget(t)
  /\ UNCHANGED <<log, contents, metaInode, delivered, failures, keepsInode>>

\* A statement raises (a locked database, a file that is missing for a moment) and
\* run() goes on to the next tick, or the process dies and is started again.
TickLost(t) ==
  /\ pc[t] # "idle" /\ failures < MaxFailure
  /\ Forget(t)
  /\ failures' = failures + 1
  /\ UNCHANGED <<log, contents, meta, delivered, keepsInode>>

-----------------------------------------------------------------------------
Tick(t) ==
  \/ Stat(t) \/ Look(t) \/ ReadCursor(t) \/ Size(t)
  \/ Open(t) \/ ReadLine(t) \/ EndOfFile(t) \/ Store(t)

Next ==
  \/ BeginLine \/ EndLine \/ Rotate \/ Truncate
  \/ \E t \in Tailer : Tick(t) \/ TickLost(t)

\* run() polls for ever.
Spec == Init /\ [][Next]_vars /\ \A t \in Tailer : WF_vars(Tick(t))

-----------------------------------------------------------------------------
(* Properties *)

InLog == {files[Inode][i] : i \in DOMAIN files[Inode]}
Got   == {e \in Payload : delivered[e] > 0}

\* What later ticks will not read again has reached the handlers: between ticks the
\* stored cursor never stands behind a line nobody has seen.
NothingSkipped ==
  (/\ \A t \in Tailer : pc[t] = "idle"
   /\ keepsInode => metaInode = Inode
   /\ metaCursor <= SizeOf(Inode)) =>
    \A i \in DOMAIN files[Inode] :
      LineSize * i <= metaCursor => files[Inode][i] \in Junk \cup Got

\* The tailers implement at-least-once, in-order delivery of the lines that stay in the
\* log: whatever ticks fail, cursors go back or files are replaced.
Feed == INSTANCE EventFeed
  WITH Event   <- Payload,
       pending <- (InLog \cap Payload) \ Got,
       got     <- Got,
       lost    <- {e \in Payload : e <= lastLine /\ e \notin InLog \cup Got}
FeedSpec == Feed!Spec

\* Two tailers that put each other's cursor back do not go on for ever: when nobody
\* writes any more the stored cursor reaches the end of the log, and a restart after that
\* replays nothing.
CatchesUp == <>[](metaCursor = LineSize * Len(files[Inode]) \/ files[Inode] = <<>>)
=============================================================================
