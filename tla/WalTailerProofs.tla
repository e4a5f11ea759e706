--------------------------- MODULE WalTailerProofs ---------------------------
(***************************************************************************)
(* The tailers skip nothing and deliver in order, for any number of        *)
(* tailers that share the meta rows, any number of lines, rotations,       *)
(* truncations and lost ticks, as long as the log does not grow back to an *)
(* offset of its earlier contents (Orderly).                               *)
(*                                                                         *)
(* The argument: a cursor is either of the contents the log has now, and   *)
(* then every line before it was handled, or it is of earlier contents,    *)
(* and then it is 0 or stands beyond the end of the log, where the next    *)
(* tick recognises it.                                                     *)
(***************************************************************************)
EXTENDS WalTailer, SequenceTheorems, TLAPS

-----------------------------------------------------------------------------
(* Types, and the shape of the files. *)

\* The log, and how many lines were written before its first one.
LogLen == Len(files[Inode])
Base   == lastLine - LogLen

\* The log holds the last lines written, in order; the other files hold earlier ones.
Shape ==
  /\ \A f \in 1..Inode : Len(files[f]) <= lastLine
  /\ partial => lastLine < MaxLine
  /\ \A i \in 1..LogLen : files[Inode][i] = Base + i
  /\ \A f \in 1..(Inode - 1) : \A i \in 1..Len(files[f]) : files[f][i] <= Base
  /\ \A e \in Line : delivered[e] > 0 => e <= lastLine
  /\ \A t \in Tailer : /\ pc[t] = "drain" => handle[t] # NoInode
                       /\ pc[t] \in {"idle", "look", "size", "open"} => handle[t] = NoInode

IInv == TypeOK /\ Shape

\* Sizes count half lines.
LEMMA Sizes ==
  ASSUME IInv, NEW f \in 1..Inode
  PROVE  /\ Len(files[f]) \in 0..lastLine /\ lastLine \in 0..MaxLine /\ MaxLine \in Nat
         /\ SizeOf(f) \in {2 * Len(files[f]), 2 * Len(files[f]) + 1}
         /\ SizeOf(f) \in 0..(LineSize * MaxLine)
         /\ f # Inode => SizeOf(f) = 2 * Len(files[f])
<1>1. files[f] \in Seq(Line) /\ Len(files[f]) \in Nat
  BY ElementOfSeq, LenProperties DEF IInv, TypeOK, Inode
<1>2. /\ Len(files[f]) <= lastLine /\ lastLine \in 0..MaxLine /\ MaxLine \in Nat
      /\ partial => lastLine < MaxLine
  BY BoundsAssumption DEF IInv, TypeOK, Shape
<1> DEFINE n == Len(files[f])
<1>3. /\ partial /\ f = Inode => SizeOf(f) = 2 * n + 1
      /\ ~(partial /\ f = Inode) => SizeOf(f) = 2 * n + 0
  BY DEF SizeOf, LineSize
<1>4. n \in 0..lastLine /\ n \in Nat
  BY <1>1, <1>2
<1> HIDE DEF n
<1>5. CASE partial /\ f = Inode
  BY <1>2, <1>3, <1>4, <1>5 DEF LineSize, n
<1>6. CASE ~(partial /\ f = Inode)
  BY <1>2, <1>3, <1>4, <1>6 DEF LineSize, n
<1> QED BY <1>5, <1>6

\* The file a line is read from, and the line.
LEMMA LineRead ==
  ASSUME IInv, NEW t \in Tailer, pc[t] = "drain", AtLine(t)
  PROVE  /\ handle[t] \in 1..Inode
         /\ \E k \in 1..Len(files[handle[t]]) :
              /\ pos[t] = LineSize * (k - 1) /\ Advance(t) = LineSize * k
              /\ LineNo(t) = files[handle[t]][k] /\ LineNo(t) \in Line
         /\ Advance(t) \in Offset
<1>1. handle[t] \in 1..Inode
  BY DEF IInv, TypeOK, Shape, NoInode
<1>2. PICK k \in 0..MaxLine : pos[t] = 2 * k
  BY DEF IInv, TypeOK, Offset, LineSize
<1> DEFINE n == Len(files[handle[t]])
           z == SizeOf(handle[t])
<1>3. /\ n \in 0..lastLine /\ lastLine \in 0..MaxLine /\ MaxLine \in Nat
      /\ z \in {2 * n, 2 * n + 1}
  BY <1>1, Sizes, Zenon
<1>4. pos[t] + 2 <= z
  BY DEF AtLine, LineSize
<1> HIDE DEF n, z
<1>5. k + 1 \in 1..n /\ k + 1 \in 0..MaxLine
  BY <1>2, <1>3, <1>4
<1>6. pos[t] \div 2 + 1 = k + 1 /\ Advance(t) = 2 * (k + 1)
  BY <1>2 DEF Advance, LineSize
<1>7. LineNo(t) = files[handle[t]][k + 1]
  BY <1>6 DEF LineNo, LineSize
<1>8. files[handle[t]][k + 1] \in Line
  <2>1. files[handle[t]] \in Seq(Line)
    BY <1>1, ElementOfSeq DEF IInv, TypeOK, Inode
  <2> QED BY <1>5, <2>1, ElementOfSeq DEF n
<1>9. Advance(t) \in Offset
  BY <1>5, <1>6 DEF Offset, LineSize
<1>10. pos[t] = LineSize * ((k + 1) - 1) /\ Advance(t) = LineSize * (k + 1)
  BY <1>2, <1>6 DEF LineSize
<1> QED BY <1>1, <1>5, <1>7, <1>8, <1>9, <1>10 DEF n

\* A line in a file has been written.
LEMMA LineWritten ==
  ASSUME IInv, NEW t \in Tailer, pc[t] = "drain", AtLine(t)
  PROVE  /\ LineNo(t) <= lastLine
         /\ handle[t] # Inode => LineNo(t) <= Base
<1>1. /\ handle[t] \in 1..Inode /\ Inode \in Nat
      /\ \A i \in 1..LogLen : files[Inode][i] = Base + i
      /\ \A f \in 1..(Inode - 1) : \A i \in 1..Len(files[f]) : files[f][i] <= Base
  BY LineRead, BoundsAssumption DEF IInv, TypeOK, Shape
<1>2. PICK k \in 1..Len(files[handle[t]]) : LineNo(t) = files[handle[t]][k] /\ LineNo(t) \in Line
  BY LineRead
<1>3. LogLen \in 0..lastLine /\ lastLine \in 0..MaxLine /\ MaxLine \in Nat
  BY <1>1, Sizes DEF LogLen
<1>4. CASE handle[t] = Inode
  <2>1. k \in 1..LogLen /\ LineNo(t) = Base + k
    BY <1>1, <1>2, <1>4 DEF LogLen
  <2> QED BY <1>3, <1>4, <2>1 DEF Base
<1>5. CASE handle[t] # Inode
  <2>1. handle[t] \in 1..(Inode - 1)
    BY <1>1, <1>5
  <2>2. LineNo(t) <= Base
    BY <1>1, <1>2, <2>1
  <2> QED BY <1>2, <1>3, <2>2 DEF Base, Line
<1> QED BY <1>4, <1>5

\* What the end of a line adds to the log.
LEMMA Grown ==
  ASSUME IInv, EndLine
  PROVE  /\ lastLine + 1 \in Line
         /\ files' \in Seq(Seq(Line)) /\ Inode' = Inode
         /\ \A f \in 1..Inode : f # Inode => files'[f] = files[f]
         /\ Len(files'[Inode]) = LogLen + 1
         /\ \A i \in 1..LogLen : files'[Inode][i] = files[Inode][i]
         /\ files'[Inode][LogLen + 1] = lastLine + 1
<1>1. /\ files \in Seq(Seq(Line)) /\ Inode \in 1..Len(files) /\ Inode = Len(files)
      /\ lastLine \in 0..MaxLine /\ MaxLine \in Nat /\ lastLine < MaxLine
  BY BoundsAssumption DEF IInv, TypeOK, Shape, EndLine, Inode
<1>2. lastLine + 1 \in Line
  BY <1>1 DEF Line
<1>3. files[Inode] \in Seq(Line)
  BY <1>1, ElementOfSeq
<1> DEFINE new == Append(files[Inode], lastLine + 1)
<1>4. /\ new \in Seq(Line) /\ Len(new) = LogLen + 1
      /\ \A i \in 1..LogLen : new[i] = files[Inode][i]
      /\ new[LogLen + 1] = lastLine + 1
  BY <1>2, <1>3, AppendProperties DEF LogLen
<1>5. files' = [files EXCEPT ![Inode] = new]
  BY DEF EndLine
<1> HIDE DEF new
<1>6. files' \in Seq(Seq(Line)) /\ Len(files') = Len(files)
  BY <1>1, <1>4, <1>5, ExceptSeq
<1>7. /\ files'[Inode] = new
      /\ \A f \in 1..Inode : f # Inode => files'[f] = files[f]
  BY <1>1, <1>5
<1> QED BY <1>1, <1>2, <1>4, <1>6, <1>7 DEF Inode

\* A new inode takes the name of the log.
LEMMA Rotated_Files ==
  ASSUME IInv, Rotate
  PROVE  /\ files' \in Seq(Seq(Line)) /\ Inode' = Inode + 1 /\ Inode \in Nat \ {0}
         /\ \A f \in 1..Inode : files'[f] = files[f]
         /\ files'[Inode'] = <<>> /\ Len(files'[Inode']) = 0
<1>1. files \in Seq(Seq(Line)) /\ Inode \in 1..MaxFile /\ MaxFile \in Nat /\ <<>> \in Seq(Line)
  BY BoundsAssumption DEF IInv, TypeOK
<1>2. /\ files' \in Seq(Seq(Line)) /\ Len(files') = Len(files) + 1
      /\ \A f \in 1..Len(files) : files'[f] = files[f]
      /\ files'[Len(files) + 1] = <<>>
  BY <1>1, AppendProperties DEF Rotate
<1> QED BY <1>1, <1>2 DEF Inode

\* The log is emptied in place.
LEMMA Truncated_Files ==
  ASSUME IInv, Truncate
  PROVE  /\ files' \in Seq(Seq(Line)) /\ Inode' = Inode /\ Inode \in Nat \ {0}
         /\ \A f \in 1..Inode : f # Inode => files'[f] = files[f]
         /\ files'[Inode] = <<>> /\ Len(files'[Inode]) = 0
<1>1. /\ files \in Seq(Seq(Line)) /\ Inode \in 1..Len(files) /\ Inode = Len(files)
      /\ <<>> \in Seq(Line)
  BY BoundsAssumption DEF IInv, TypeOK, Inode
<1>2. files' = [files EXCEPT ![Inode] = <<>>]
  BY DEF Truncate
<1>3. files' \in Seq(Seq(Line)) /\ Len(files') = Len(files)
  BY <1>1, <1>2, ExceptSeq
<1>4. files'[Inode] = <<>> /\ \A f \in 1..Inode : f # Inode => files'[f] = files[f]
  BY <1>1, <1>2
<1> QED BY <1>1, <1>3, <1>4 DEF Inode

\* A tick leaves the log alone; what else a step has to keep.
LEMMA TickShape ==
  ASSUME IInv, UNCHANGED log, TypeOK',
         \A e \in Line : delivered'[e] > 0 => e <= lastLine,
         \A t \in Tailer : /\ pc'[t] = "drain" => handle'[t] # NoInode
                           /\ pc'[t] \in {"idle", "look", "size", "open"} => handle'[t] = NoInode
  PROVE  IInv'
BY DEF IInv, Shape, log, LogLen, Base, Inode

\* A step of one tailer that delivers nothing.
LEMMA QuietTick ==
  ASSUME IInv, UNCHANGED log, TypeOK', delivered' = delivered, NEW t \in Tailer,
         \A u \in Tailer : u # t => pc'[u] = pc[u] /\ handle'[u] = handle[u],
         pc'[t] = "drain" => handle'[t] # NoInode,
         pc'[t] \in {"idle", "look", "size", "open"} => handle'[t] = NoInode
  PROVE  IInv'
<1>1. \A e \in Line : delivered'[e] > 0 => e <= lastLine
  BY DEF IInv, Shape
<1>2. ASSUME NEW u \in Tailer
      PROVE  /\ pc'[u] = "drain" => handle'[u] # NoInode
             /\ pc'[u] \in {"idle", "look", "size", "open"} => handle'[u] = NoInode
  <2>1. CASE u = t
    BY <2>1
  <2>2. CASE u # t
    BY <2>2 DEF IInv, Shape
  <2> QED BY <2>1, <2>2
<1> QED BY <1>1, <1>2, TickShape

\* The log is empty and nothing is stored.
LEMMA InitIInv == Init => IInv
<1> SUFFICES ASSUME Init PROVE IInv
  OBVIOUS
<1>1. /\ <<>> \in Seq(Line) /\ Len(<<>>) = 0
      /\ files = <<<<>>>> /\ files \in Seq(Seq(Line)) /\ Len(files) = 1 /\ files[1] = <<>>
  BY DEF Init
<1>2. 0 \in Offset
  BY BoundsAssumption DEF Offset, LineSize
<1>3. Unseen \in [inode : {NoInode} \cup 1..Inode, size : 0..(LineSize * MaxLine)]
  BY <1>1, BoundsAssumption DEF Unseen, NoInode, Inode, LineSize
<1>4. TypeOK
  <2>1. Inode \in 1..MaxFile /\ metaInode \in {NoInode} \cup 1..Inode /\ keepsInode \in BOOLEAN
    BY <1>1, BoundsAssumption DEF Init, Inode
  <2>2. /\ lastLine \in 0..MaxLine /\ truncations \in 0..MaxTruncate /\ failures \in 0..MaxFailure
        /\ delivered \in [Line -> 0..2]
    BY BoundsAssumption DEF Init
  <2>3. /\ seen \in [Tailer -> [inode : {NoInode} \cup 1..Inode, size : 0..(LineSize * MaxLine)]]
        /\ pos \in [Tailer -> Offset] /\ handle \in [Tailer -> {NoInode} \cup 1..Inode]
    BY <1>2, <1>3 DEF Init
  <2>4. /\ pc \in [Tailer -> {"idle", "look", "size", "open", "drain", "store"}]
        /\ posOf \in [Tailer -> Nat] /\ {contents, metaOf} \subseteq Nat
    BY DEF Init
  <2>5. /\ files \in Seq(Seq(Line)) /\ partial \in BOOLEAN /\ metaCursor \in Offset
    BY <1>1, <1>2 DEF Init
  <2> QED BY <2>1, <2>2, <2>3, <2>4, <2>5 DEF TypeOK
<1>5. Shape
  BY <1>1 DEF Init, Shape, Inode, LogLen, Base, NoInode
<1> QED BY <1>4, <1>5 DEF IInv

\* The ranges of the numbers.
LEMMA Bounds ==
  ASSUME IInv
  PROVE  /\ MaxLine \in Nat /\ MaxFile \in Nat /\ MaxTruncate \in Nat /\ MaxFailure \in Nat
         /\ Inode \in 1..MaxFile /\ Inode \in 1..Inode /\ lastLine \in 0..MaxLine
         /\ truncations \in 0..MaxTruncate /\ failures \in 0..MaxFailure /\ contents \in Nat
         /\ metaCursor \in Offset /\ 0 \in Offset
<1>1. /\ MaxLine \in Nat /\ MaxFile \in Nat /\ MaxTruncate \in Nat /\ MaxFailure \in Nat
  BY BoundsAssumption
<1>2. /\ Inode \in 1..MaxFile /\ lastLine \in 0..MaxLine
      /\ truncations \in 0..MaxTruncate /\ failures \in 0..MaxFailure /\ contents \in Nat
      /\ metaCursor \in Offset
  BY DEF IInv, TypeOK
<1> QED BY <1>1, <1>2 DEF Offset, LineSize

\* What the writers do to the log keeps types and shape.
LEMMA WriterStep ==
  ASSUME IInv, BeginLine \/ EndLine \/ Rotate \/ Truncate PROVE IInv'
<1>1. /\ TypeOK /\ Shape /\ lastLine \in 0..MaxLine /\ MaxLine \in Nat /\ Inode \in 1..MaxFile
      /\ MaxFile \in Nat /\ MaxTruncate \in Nat
  BY Bounds DEF IInv
<1>2. LogLen \in 0..lastLine
  BY <1>1, Sizes DEF LogLen
<1>3. CASE BeginLine
  <2>1. TypeOK'
    BY <1>1, <1>3 DEF TypeOK, BeginLine, Inode, meta, tick
  <2>2. Shape'
    BY <1>1, <1>3 DEF Shape, BeginLine, Inode, LogLen, Base, tick
  <2> QED BY <2>1, <2>2 DEF IInv
<1>4. CASE EndLine
  <2>1. /\ lastLine + 1 \in Line
        /\ files' \in Seq(Seq(Line)) /\ Inode' = Inode
        /\ \A f \in 1..Inode : f # Inode => files'[f] = files[f]
        /\ Len(files'[Inode]) = LogLen + 1
        /\ \A i \in 1..LogLen : files'[Inode][i] = files[Inode][i]
        /\ files'[Inode][LogLen + 1] = lastLine + 1
    BY <1>4, Grown
  <2>2. partial' = FALSE /\ lastLine' = lastLine + 1 /\ UNCHANGED <<meta, tick, delivered>>
    BY <1>4 DEF EndLine
  <2>3. TypeOK'
    <3>1. lastLine' \in 0..MaxLine
      BY <1>1, <2>1, <2>2 DEF Line
    <3>2. UNCHANGED <<truncations, failures, contents, keepsInode>>
      BY <1>4 DEF EndLine
    <3>3. files' \in Seq(Seq(Line)) /\ Inode' = Inode /\ partial' = FALSE
      BY <2>1, <2>2
    <3> QED BY <1>1, <2>2, <3>1, <3>2, <3>3 DEF TypeOK, meta, tick
  <2>4. LogLen' = LogLen + 1 /\ Base' = Base
    BY <1>1, <1>2, <2>1, <2>2 DEF LogLen, Base
  <2>5. \A f \in 1..Inode' : Len(files'[f]) <= lastLine'
    <3> SUFFICES ASSUME NEW f \in 1..Inode PROVE Len(files'[f]) <= lastLine + 1
      BY <2>1, <2>2
    <3>1. CASE f = Inode
      BY <1>1, <1>2, <2>1, <3>1
    <3>2. CASE f # Inode
      <4>1. files'[f] = files[f] /\ Len(files[f]) \in 0..lastLine
        BY <2>1, <3>2, Sizes
      <4> QED BY <1>1, <4>1
    <3> QED BY <3>1, <3>2
  <2>6. ASSUME NEW i \in 1..LogLen' PROVE files'[Inode'][i] = Base' + i
    <3>1. CASE i \in 1..LogLen
      BY <1>1, <2>1, <2>4, <3>1 DEF Shape
    <3>2. CASE i = LogLen + 1
      BY <1>1, <1>2, <2>1, <2>4, <3>2 DEF Base
    <3> QED BY <1>2, <2>4, <3>1, <3>2
  <2>7. ASSUME NEW f \in 1..(Inode' - 1), NEW i \in 1..Len(files'[f]) PROVE files'[f][i] <= Base'
    <3>1. f \in 1..(Inode - 1) /\ files'[f] = files[f]
      BY <1>1, <2>1
    <3> QED BY <1>1, <2>4, <3>1 DEF Shape
  <2>8. \A e \in Line : delivered'[e] > 0 => e <= lastLine'
    BY <1>1, <2>2 DEF Shape, Line
  <2> QED BY <1>1, <2>2, <2>3, <2>5, <2>6, <2>7, <2>8 DEF IInv, Shape, tick
<1>5. CASE Rotate
  <2>1. /\ files' \in Seq(Seq(Line)) /\ Inode' = Inode + 1 /\ Inode \in Nat \ {0}
        /\ \A f \in 1..Inode : files'[f] = files[f]
        /\ files'[Inode'] = <<>> /\ Len(files'[Inode']) = 0
    BY <1>5, Rotated_Files
  <2>2. /\ partial' = FALSE /\ contents' = contents + 1 /\ Inode < MaxFile
        /\ UNCHANGED <<lastLine, truncations, meta, tick, delivered, failures, keepsInode>>
    BY <1>5 DEF Rotate
  <2>3. TypeOK'
    <3>1. /\ files' \in Seq(Seq(Line)) /\ Inode' \in 1..MaxFile /\ partial' = FALSE
          /\ 1..Inode \subseteq 1..Inode' /\ contents' \in Nat
      <4>1. Inode \in 1..MaxFile /\ MaxFile \in Nat /\ contents \in Nat
        BY Bounds
      <4>2. Inode' = Inode + 1 /\ Inode < MaxFile /\ contents' = contents + 1
        BY <2>1, <2>2
      <4>3. Inode' \in 1..MaxFile /\ 1..Inode \subseteq 1..Inode' /\ contents' \in Nat
        BY <4>1, <4>2
      <4> QED BY <2>1, <2>2, <4>3
    <3>2. UNCHANGED <<metaInode, metaCursor, metaOf, pc, seen, pos, handle, posOf>>
      BY <2>2 DEF meta, tick
    <3>3. /\ metaInode \in {NoInode} \cup 1..Inode'
          /\ handle \in [Tailer -> {NoInode} \cup 1..Inode']
          /\ seen \in [Tailer -> [inode : {NoInode} \cup 1..Inode', size : 0..(LineSize * MaxLine)]]
      BY <1>1, <3>1 DEF TypeOK
    <3> QED BY <1>1, <2>2, <3>1, <3>2, <3>3 DEF TypeOK
  <2>4. LogLen' = 0 /\ Base' = lastLine /\ Base \in Int /\ Base + LogLen = lastLine
    <3>1. LogLen' = 0 /\ lastLine' = lastLine
      BY <2>1, <2>2 DEF LogLen
    <3> QED BY <1>1, <1>2, <3>1 DEF Base
  <2>5. \A f \in 1..Inode' : Len(files'[f]) <= lastLine'
    <3> SUFFICES ASSUME NEW f \in 1..Inode' PROVE Len(files'[f]) <= lastLine
      BY <2>2
    <3>1. CASE f = Inode'
      BY <1>1, <2>1, <3>1
    <3>2. CASE f \in 1..Inode
      <4>1. files'[f] = files[f] /\ Len(files[f]) \in 0..lastLine
        BY <2>1, <3>2, Sizes
      <4> QED BY <1>1, <4>1
    <3> QED BY <2>1, <3>1, <3>2
  <2>6. ASSUME NEW f \in 1..(Inode' - 1), NEW i \in 1..Len(files'[f]) PROVE files'[f][i] <= Base'
    <3>1. f \in 1..Inode /\ files'[f] = files[f]
      BY <2>1
    <3>2. CASE f = Inode
      <4>1. i \in 1..LogLen
        BY <3>1, <3>2 DEF LogLen
      <4>2. files'[f][i] = Base + i
        BY <1>1, <3>1, <3>2, <4>1 DEF Shape
      <4> QED BY <1>1, <1>2, <2>4, <4>1, <4>2
    <3>3. CASE f # Inode
      <4>1. f \in 1..(Inode - 1)
        BY <2>1, <3>1, <3>3
      <4>2. files[f][i] <= Base
        BY <1>1, <3>1, <4>1 DEF Shape
      <4>3. files[f][i] \in Int
        <5>1. files[f] \in Seq(Line)
          BY <1>1, <3>1, ElementOfSeq DEF TypeOK, Inode
        <5> QED BY <1>1, <3>1, <5>1, ElementOfSeq DEF Line
      <4> QED BY <1>1, <1>2, <2>4, <3>1, <4>2, <4>3
    <3> QED BY <3>2, <3>3
  <2>7. \A i \in 1..LogLen' : files'[Inode'][i] = Base' + i
    BY <2>4
  <2> QED BY <1>1, <2>2, <2>3, <2>5, <2>6, <2>7 DEF IInv, Shape, tick
<1>6. CASE Truncate
  <2>1. /\ files' \in Seq(Seq(Line)) /\ Inode' = Inode /\ Inode \in Nat \ {0}
        /\ \A f \in 1..Inode : f # Inode => files'[f] = files[f]
        /\ files'[Inode] = <<>> /\ Len(files'[Inode]) = 0
    BY <1>6, Truncated_Files
  <2>2. /\ partial' = FALSE /\ contents' = contents + 1 /\ truncations' = truncations + 1
        /\ truncations < MaxTruncate
        /\ UNCHANGED <<lastLine, meta, tick, delivered, failures, keepsInode>>
    BY <1>6 DEF Truncate
  <2>3. TypeOK'
    <3>1. /\ files' \in Seq(Seq(Line)) /\ Inode' = Inode /\ partial' = FALSE
          /\ contents' \in Nat /\ truncations' \in 0..MaxTruncate
      <4>1. contents \in Nat /\ truncations \in 0..MaxTruncate /\ MaxTruncate \in Nat
        BY Bounds
      <4> QED BY <2>1, <2>2, <4>1
    <3>2. UNCHANGED <<metaInode, metaCursor, metaOf, pc, seen, pos, handle, posOf>>
      BY <2>2 DEF meta, tick
    <3>3. /\ metaInode \in {NoInode} \cup 1..Inode'
          /\ handle \in [Tailer -> {NoInode} \cup 1..Inode']
          /\ seen \in [Tailer -> [inode : {NoInode} \cup 1..Inode', size : 0..(LineSize * MaxLine)]]
      BY <1>1, <3>1 DEF TypeOK
    <3> QED BY <1>1, <2>2, <3>1, <3>2, <3>3 DEF TypeOK
  <2>4. LogLen' = 0 /\ Base' = lastLine /\ Base \in Int /\ Base + LogLen = lastLine
    <3>1. LogLen' = 0 /\ lastLine' = lastLine
      BY <2>1, <2>2 DEF LogLen
    <3> QED BY <1>1, <1>2, <3>1 DEF Base
  <2>5. \A f \in 1..Inode' : Len(files'[f]) <= lastLine'
    <3> SUFFICES ASSUME NEW f \in 1..Inode PROVE Len(files'[f]) <= lastLine
      BY <2>1, <2>2
    <3>1. CASE f = Inode
      BY <1>1, <2>1, <3>1
    <3>2. CASE f # Inode
      <4>1. files'[f] = files[f] /\ Len(files[f]) \in 0..lastLine
        BY <2>1, <3>2, Sizes
      <4> QED BY <1>1, <4>1
    <3> QED BY <3>1, <3>2
  <2>6. ASSUME NEW f \in 1..(Inode' - 1), NEW i \in 1..Len(files'[f]) PROVE files'[f][i] <= Base'
    <3>1. f \in 1..(Inode - 1) /\ f \in 1..Inode /\ files'[f] = files[f]
      BY <2>1
    <3>2. files[f][i] <= Base
      BY <1>1, <3>1 DEF Shape
    <3>3. files[f][i] \in Int
      <4>1. files[f] \in Seq(Line)
        BY <1>1, <3>1, ElementOfSeq DEF TypeOK, Inode
      <4> QED BY <1>1, <3>1, <4>1, ElementOfSeq DEF Line
    <3> QED BY <1>1, <1>2, <2>4, <3>1, <3>2, <3>3
  <2>7. \A i \in 1..LogLen' : files'[Inode'][i] = Base' + i
    BY <2>4
  <2> QED BY <1>1, <2>2, <2>3, <2>5, <2>6, <2>7 DEF IInv, Shape, tick
<1> QED BY <1>3, <1>4, <1>5, <1>6

\* A tick keeps types and shape, wherever it ends.
LEMMA TailerStep ==
  ASSUME IInv, NEW t \in Tailer, Tick(t) \/ TickLost(t) PROVE IInv'
<1>1. /\ TypeOK /\ Shape /\ MaxLine \in Nat /\ Inode \in 1..MaxFile /\ Inode \in 1..Inode
      /\ 0 \in Offset /\ metaCursor \in Offset /\ MaxFailure \in Nat
  BY Bounds DEF IInv
<1>2. SizeOf(Inode) \in 0..(LineSize * MaxLine)
  BY <1>1, Sizes
<1>3. Unseen \in [inode : {NoInode} \cup 1..Inode, size : 0..(LineSize * MaxLine)]
  BY <1>1 DEF Unseen, NoInode, LineSize
<1>4. Forget(t) =>
         /\ pc' \in [Tailer -> {"idle", "look", "size", "open", "drain", "store"}]
         /\ seen' \in [Tailer -> [inode : {NoInode} \cup 1..Inode, size : 0..(LineSize * MaxLine)]]
         /\ pos' \in [Tailer -> Offset]
         /\ handle' \in [Tailer -> {NoInode} \cup 1..Inode]
         /\ posOf' \in [Tailer -> Nat]
  BY <1>1, <1>3 DEF Forget, TypeOK
<1>5. CASE Stat(t)
  <2>1. [inode |-> Inode, size |-> SizeOf(Inode)]
          \in [inode : {NoInode} \cup 1..Inode, size : 0..(LineSize * MaxLine)]
    BY <1>1, <1>2
  <2>2. UNCHANGED log /\ Inode' = Inode
    BY <1>5 DEF Stat, log, Inode
  <2>3. TypeOK'
    BY <1>1, <1>5, <2>1, <2>2 DEF TypeOK, Stat, log, meta
  <2> QED BY <1>1, <1>5, <2>2, <2>3, TickShape DEF Stat, TypeOK, Shape
<1>6. CASE Look(t)
  <2>1. UNCHANGED log /\ Inode' = Inode
    BY <1>6 DEF Look, log, Inode
  <2>2. Start(t) \in Offset /\ seen[t].inode \in {NoInode} \cup 1..Inode
    BY <1>1 DEF Start, TypeOK
  <2>3. /\ pc' \in [Tailer -> {"idle", "look", "size", "open", "drain", "store"}]
        /\ pc'[t] \in {"idle", "open"}
        /\ \A u \in Tailer : u # t => pc'[u] = pc[u] /\ handle'[u] = handle[u]
    BY <1>1, <1>6 DEF TypeOK, Look
  <2>4. pos' \in [Tailer -> Offset] /\ posOf' \in [Tailer -> Nat]
    BY <1>1, <1>6, <2>2 DEF TypeOK, Look
  <2>5. seen' \in [Tailer -> [inode : {NoInode} \cup 1..Inode, size : 0..(LineSize * MaxLine)]]
    BY <1>1, <1>3, <1>6 DEF TypeOK, Look
  <2>6. /\ handle' = handle /\ delivered' = delivered /\ metaInode' = seen[t].inode
        /\ UNCHANGED <<metaCursor, metaOf, contents, failures, keepsInode>>
    BY <1>6 DEF Look
  <2>7. TypeOK'
    BY <1>1, <2>1, <2>2, <2>3, <2>4, <2>5, <2>6 DEF TypeOK, log
  <2>8. handle'[t] = NoInode
    BY <1>1, <1>6, <2>6 DEF Look, Shape
  <2> QED BY <2>1, <2>3, <2>6, <2>7, <2>8, QuietTick
<1>7. CASE ReadCursor(t)
  <2>1. UNCHANGED log /\ Inode' = Inode
    BY <1>7 DEF ReadCursor, log, Inode
  <2>2. TypeOK'
    BY <1>1, <1>7, <2>1 DEF TypeOK, ReadCursor, log, meta
  <2> QED BY <1>1, <1>7, <2>1, <2>2, TickShape DEF ReadCursor, TypeOK, Shape
<1>8. CASE Size(t)
  <2>1. UNCHANGED log /\ Inode' = Inode
    BY <1>8 DEF Size, log, Inode
  <2>2. InboxStart(t) \in Offset
    BY <1>1 DEF InboxStart, TypeOK
  <2>3. TypeOK'
    <3>1. CASE Forget(t)
      BY <1>1, <1>8, <1>4, <2>1, <3>1 DEF TypeOK, Size, log, meta
    <3>2. CASE ~Forget(t)
      BY <1>1, <1>8, <2>1, <2>2, <3>2 DEF TypeOK, Size, log, meta
    <3> QED BY <3>1, <3>2
  <2>4. /\ pc'[t] \in {"idle", "open"} /\ delivered' = delivered
        /\ \A u \in Tailer : u # t => pc'[u] = pc[u] /\ handle'[u] = handle[u]
    BY <1>1, <1>8 DEF Size, Forget, TypeOK
  <2>5. handle'[t] = NoInode
    BY <1>1, <1>8 DEF Size, Forget, TypeOK, Shape
  <2> QED BY <2>1, <2>3, <2>4, <2>5, QuietTick
<1>9. CASE Open(t)
  <2>1. UNCHANGED log /\ Inode' = Inode
    BY <1>9 DEF Open, log, Inode
  <2>2. TypeOK'
    BY <1>1, <1>9, <2>1 DEF TypeOK, Open, log, meta
  <2>3. /\ pc'[t] = "drain" /\ handle'[t] = Inode /\ delivered' = delivered
        /\ \A u \in Tailer : u # t => pc'[u] = pc[u] /\ handle'[u] = handle[u]
    BY <1>1, <1>9 DEF Open, TypeOK
  <2>4. Inode # NoInode
    BY <1>1 DEF NoInode
  <2> QED BY <2>1, <2>2, <2>3, <2>4, QuietTick
<1>10. CASE ReadLine(t)
  <2>1. UNCHANGED log /\ Inode' = Inode
    BY <1>10 DEF ReadLine, log, Inode
  <2>2. /\ Advance(t) \in Offset /\ LineNo(t) \in Line
    BY <1>10, LineRead DEF ReadLine
  <2>3. LineNo(t) <= lastLine
    BY <1>10, LineWritten DEF ReadLine
  <2>4. delivered' \in [Line -> 0..2] /\ \A e \in Line : delivered'[e] > 0 => e <= lastLine
    BY <1>1, <1>10, <2>2, <2>3 DEF ReadLine, AtLeastTwo, TypeOK, Shape
  <2>5. pos' \in [Tailer -> Offset] /\ posOf' \in [Tailer -> Nat]
    BY <1>1, <1>10, <2>2 DEF ReadLine, TypeOK
  <2>6. TypeOK'
    BY <1>1, <1>10, <2>1, <2>4, <2>5 DEF TypeOK, ReadLine, log, meta
  <2> QED BY <1>1, <1>10, <2>1, <2>4, <2>6, TickShape DEF ReadLine, Shape
<1>11. CASE EndOfFile(t)
  <2>1. UNCHANGED log /\ Inode' = Inode
    BY <1>11 DEF EndOfFile, log, Inode
  <2>2. TypeOK'
    BY <1>1, <1>11, <2>1 DEF TypeOK, EndOfFile, log, meta
  <2> QED BY <1>1, <1>11, <2>1, <2>2, TickShape DEF EndOfFile, TypeOK, Shape
<1>12. CASE Store(t) \/ TickLost(t)
  <2>1. UNCHANGED log /\ Inode' = Inode
    BY <1>12 DEF Store, TickLost, log, Inode
  <2>2. failures' \in 0..MaxFailure /\ metaCursor' \in Offset /\ metaOf' \in Nat
    BY <1>1, <1>12 DEF TypeOK, Store, TickLost, meta
  <2>3. Forget(t) /\ UNCHANGED <<contents, metaInode, delivered, keepsInode>>
    BY <1>12 DEF Store, TickLost, meta
  <2>4. TypeOK'
    BY <1>1, <1>4, <2>1, <2>2, <2>3 DEF TypeOK, log
  <2> QED BY <1>1, <2>1, <2>3, <2>4, TickShape DEF Forget, TypeOK, Shape
<1> QED BY <1>5, <1>6, <1>7, <1>8, <1>9, <1>10, <1>11, <1>12 DEF Tick

\* Types and shapes hold in every reachable state.
LEMMA Invariance == Spec => []IInv
<1>1. IInv /\ [Next]_vars => IInv'
  <2>1. TypeOK /\ UNCHANGED vars => TypeOK'
    BY DEF TypeOK, vars, log, meta, tick, Inode
  <2>2. IInv /\ UNCHANGED vars => IInv'
    BY <2>1, TickShape DEF IInv, Shape, vars, log, tick
  <2> QED BY <2>2, WriterStep, TailerStep DEF Next
<1> QED BY <1>1, InitIInv, PTL DEF Spec

\* The type invariant holds for every number of tailers, lines, files and failures, orderly
\* or not.
THEOREM TypeCorrect == Spec => []TypeOK
<1>1. IInv => TypeOK
  BY DEF IInv
<1> QED BY <1>1, Invariance, PTL

-----------------------------------------------------------------------------
(* What a cursor knows. *)

\* Every line before offset c of the log reached the handlers.
Handled(c) == \A i \in 1..LogLen : LineSize * i <= c => files[Inode][i] \in Junk \cup Got

\* A cursor of the contents the log has now has everything before it handled; one of earlier
\* contents is 0 or beyond the end of the log.
Sound(c, of) ==
  /\ of <= contents
  /\ IF of = contents THEN c <= LineSize * LogLen /\ Handled(c)
     ELSE c = 0 \/ SizeOf(Inode) < c

\* A tailer that reads on in a file that was rotated away is somewhere in that file.
Elsewhere(t) ==
  pc[t] = "drain" /\ handle[t] \notin {NoInode, Inode} /\ pos[t] <= SizeOf(handle[t])

Held(t) ==
  /\ posOf[t] <= contents
  /\ handle[t] \notin {NoInode, Inode} =>
       /\ posOf[t] < contents
       /\ SizeOf(handle[t]) = 0 \/ SizeOf(Inode) < SizeOf(handle[t])
  /\ pc[t] \notin {"idle", "look"} =>
       \/ Sound(pos[t], posOf[t])
       \/ posOf[t] # contents /\ Elsewhere(t)

CursorInv == Sound(metaCursor, metaOf) /\ \A t \in Tailer : Held(t)

Cursors == IInv /\ CursorInv

\* The range of the numbers.
LEMMA Ranges ==
  ASSUME IInv
  PROVE  /\ LogLen \in Nat /\ SizeOf(Inode) \in Nat /\ contents \in Nat /\ Inode \in 1..Inode
         /\ SizeOf(Inode) \in {2 * LogLen, 2 * LogLen + 1}
         /\ metaCursor \in Nat /\ metaOf \in Nat
         /\ \A t \in Tailer : pos[t] \in Nat /\ posOf[t] \in Nat
         /\ \A f \in 1..Inode : SizeOf(f) \in Nat
<1>1. Offset \subseteq Nat /\ Inode \in 1..Inode /\ MaxLine \in Nat /\ MaxFile \in Nat
  BY Bounds DEF Offset, LineSize
<1>2. \A f \in 1..Inode : SizeOf(f) \in Nat
  BY <1>1, Sizes DEF LineSize
<1>3. LogLen \in Nat /\ SizeOf(Inode) \in {2 * LogLen, 2 * LogLen + 1}
  <2>1. LogLen \in 0..lastLine /\ lastLine \in 0..MaxLine
    BY <1>1, Sizes DEF LogLen
  <2>2. SizeOf(Inode) \in {2 * LogLen, 2 * LogLen + 1}
    BY <1>1, Sizes DEF LogLen
  <2> QED BY <1>1, <2>1, <2>2
<1> QED BY <1>1, <1>2, <1>3 DEF IInv, TypeOK

\* The lines of the log are the last ones that were written.
LEMMA LineNumbers ==
  ASSUME IInv
  PROVE  lastLine \in Nat /\ Base \in Int /\ Base + LogLen = lastLine /\ Line \subseteq Nat
<1>1. lastLine \in Nat /\ LogLen \in Nat
  BY Ranges, BoundsAssumption DEF IInv, TypeOK
<1> QED BY <1>1, BoundsAssumption DEF Base, Line

\* Nothing lies before offset 0.
LEMMA SoundZero ==
  ASSUME IInv, NEW of \in Nat, of <= contents
  PROVE  Sound(0, of)
BY Ranges DEF Sound, Handled, LineSize

\* A log that grows slowly leaves every cursor sound.
LEMMA GrowKeeps ==
  ASSUME IInv, BeginLine \/ EndLine, Orderly, NEW c \in Nat, NEW of \in Nat,
         of # contents => c \in StaleCursors, Sound(c, of)
  PROVE  Sound(c, of)'
<1>1. /\ LogLen \in Nat /\ SizeOf(Inode) \in Nat /\ contents \in Nat /\ Inode \in 1..Inode
  BY Ranges
<1>2. contents' = contents /\ delivered' = delivered /\ Got' = Got
  BY DEF BeginLine, EndLine, Got
<1>3. of # contents => c = 0 \/ SizeOf(Inode) + 1 < c
  BY DEF BeginLine, EndLine, SlowRegrowth
<1>4. Inode' = Inode /\ LogLen' \in {LogLen, LogLen + 1} /\ LogLen' >= LogLen
      /\ \A i \in 1..LogLen : files'[Inode][i] = files[Inode][i]
  <2>1. CASE BeginLine
    BY <1>1, <2>1 DEF BeginLine, Inode, LogLen
  <2>2. CASE EndLine
    BY <1>1, <2>2, Grown DEF LogLen
  <2> QED BY <2>1, <2>2
<1>5. SizeOf(Inode)' = SizeOf(Inode) + 1
  <2>1. CASE BeginLine
    <3>1. SizeOf(Inode) = 2 * LogLen + 0 /\ SizeOf(Inode)' = 2 * LogLen' + 1 /\ LogLen' = LogLen
      BY <2>1 DEF BeginLine, SizeOf, Inode, LogLen, LineSize
    <3> QED BY <1>1, <3>1
  <2>2. CASE EndLine
    <3>1. SizeOf(Inode) = 2 * LogLen + 1 /\ SizeOf(Inode)' = 2 * LogLen' + 0
      BY <1>4, <2>2 DEF EndLine, SizeOf, Inode, LogLen, LineSize
    <3>2. LogLen' = LogLen + 1
      BY <1>4, <2>2, Grown DEF LogLen
    <3> QED BY <1>1, <3>1, <3>2
  <2> QED BY <2>1, <2>2
<1>6. CASE of = contents
  <2>1. c <= 2 * LogLen /\ \A i \in 1..LogLen : 2 * i <= c => files[Inode][i] \in Junk \cup Got
    BY <1>6 DEF Sound, Handled, LineSize
  <2>2. ASSUME NEW i \in 1..LogLen', 2 * i <= c PROVE files'[Inode'][i] \in Junk \cup Got'
    <3>1. i \in 1..LogLen
      BY <1>1, <1>4, <2>1, <2>2
    <3> QED BY <1>2, <1>4, <2>1, <2>2, <3>1
  <2>3. c <= 2 * LogLen'
    BY <1>1, <1>4, <2>1
  <2> QED BY <1>1, <1>2, <1>6, <2>2, <2>3 DEF Sound, Handled, LineSize
<1>7. CASE of # contents
  BY <1>1, <1>2, <1>3, <1>5, <1>7 DEF Sound
<1> QED BY <1>6, <1>7

\* New contents leave every cursor sound: the log is empty.
LEMMA ReplaceKeeps ==
  ASSUME IInv, Rotate \/ Truncate, NEW c \in Nat, NEW of \in Nat, of <= contents
  PROVE  /\ of < contents' /\ SizeOf(Inode)' = 0 /\ contents' = contents + 1 /\ LogLen' = 0
         /\ Sound(c, of)'
<1>1. contents \in Nat /\ contents' = contents + 1
  BY Ranges DEF Rotate, Truncate
<1>2. LogLen' = 0 /\ partial' = FALSE
  BY Rotated_Files, Truncated_Files DEF LogLen, Rotate, Truncate
<1>3. SizeOf(Inode)' = 0
  BY <1>2 DEF SizeOf, LogLen, LineSize
<1> QED BY <1>1, <1>2, <1>3 DEF Sound

\* So do steps that only add deliveries.
LEMMA TickKeeps ==
  ASSUME IInv, UNCHANGED <<log, contents>>, Got \subseteq Got', NEW c, NEW of, Sound(c, of)
  PROVE  Sound(c, of)'
<1>1. Inode' = Inode /\ LogLen' = LogLen /\ files' = files /\ contents' = contents
      /\ SizeOf(Inode)' = SizeOf(Inode)
  BY DEF log, Inode, LogLen, SizeOf
<1> QED BY <1>1 DEF Sound, Handled

\* The size of a file that is no longer the log is settled.
LEMMA OldSize ==
  ASSUME IInv, BeginLine \/ EndLine, NEW f \in 1..Inode, f # Inode
  PROVE  SizeOf(f)' = SizeOf(f)
<1>1. files'[f] = files[f] /\ Inode' = Inode
  BY Grown DEF BeginLine, Inode
<1> QED BY <1>1 DEF SizeOf

\* What the writer does leaves every cursor sound.
LEMMA WriterCursors ==
  ASSUME Cursors, BeginLine \/ EndLine \/ Rotate \/ Truncate, Orderly PROVE CursorInv'
<1>1. /\ IInv /\ Sound(metaCursor, metaOf) /\ metaCursor \in Nat /\ metaOf \in Nat
      /\ contents \in Nat /\ metaOf <= contents
      /\ \A t \in Tailer : pos[t] \in Nat /\ posOf[t] \in Nat /\ Held(t)
                           /\ handle[t] \in {NoInode} \cup 1..Inode
  BY Ranges DEF Cursors, CursorInv, Sound, IInv, TypeOK
<1>2. UNCHANGED <<metaCursor, metaOf, pc, pos, posOf, handle>>
  BY DEF BeginLine, EndLine, Rotate, Truncate, meta, tick
<1>3. CASE BeginLine \/ EndLine
  <2>1. contents' = contents /\ Inode' = Inode /\ SlowRegrowth(SizeOf(Inode) + 1)
    BY <1>1, <1>3, Grown DEF BeginLine, EndLine, Inode
  <2>2. Sound(metaCursor, metaOf)'
    <3> DEFINE c == metaCursor
               of == metaOf
    <3>1. of # contents => c \in StaleCursors
      BY DEF StaleCursors
    <3>2. \A k \in Nat, j \in Nat : (j # contents => k \in StaleCursors) /\ Sound(k, j) => Sound(k, j)'
      BY <1>1, <1>3, GrowKeeps
    <3>3. ASSUME NEW k \in Nat, NEW j \in Nat, k = c, j = of PROVE Sound(k, j)'
      BY <1>1, <3>1, <3>2, <3>3
    <3> QED BY <1>1, <1>2, <3>3 DEF Sound, Handled
  <2>3. ASSUME NEW t \in Tailer PROVE Held(t)'
    <3>1. handle[t] \notin {NoInode, Inode} =>
            /\ posOf[t] < contents
            /\ SizeOf(handle[t])' = SizeOf(handle[t])
            /\ SizeOf(handle[t]) \in Nat
            /\ SizeOf(handle[t]) = 0 \/ SizeOf(Inode) + 1 < SizeOf(handle[t])
      <4> SUFFICES ASSUME handle[t] \notin {NoInode, Inode}
                   PROVE  /\ posOf[t] < contents
                          /\ SizeOf(handle[t])' = SizeOf(handle[t])
                          /\ SizeOf(handle[t]) \in Nat
                          /\ SizeOf(handle[t]) = 0 \/ SizeOf(Inode) + 1 < SizeOf(handle[t])
        OBVIOUS
      <4>1. SizeOf(handle[t]) \in StaleCursors /\ handle[t] \in 1..Inode
        BY <1>1 DEF StaleCursors
      <4>2. SizeOf(handle[t])' = SizeOf(handle[t])
        <5>1. ASSUME NEW f \in 1..Inode, f = handle[t] PROVE SizeOf(f)' = SizeOf(f)
          BY <1>1, <1>3, <5>1, OldSize
        <5> QED BY <1>2, <4>1, <5>1 DEF SizeOf
      <4> QED BY <1>1, <2>1, <4>1, <4>2, Ranges DEF Held, SlowRegrowth
    <3>2. SizeOf(Inode)' <= SizeOf(Inode) + 1 /\ SizeOf(Inode) \in Nat /\ SizeOf(Inode)' \in Nat
      <4>1. CASE BeginLine
        <5>1. SizeOf(Inode) = 2 * LogLen + 0 /\ SizeOf(Inode)' = 2 * LogLen + 1
          BY <4>1 DEF BeginLine, SizeOf, Inode, LogLen, LineSize
        <5> QED BY <1>1, <5>1, Ranges
      <4>2. CASE EndLine
        <5>1. SizeOf(Inode) = 2 * LogLen + 1 /\ SizeOf(Inode)' = 2 * LogLen' + 0
          BY <2>1, <4>2 DEF EndLine, SizeOf, Inode, LogLen, LineSize
        <5>2. LogLen' = LogLen + 1
          BY <1>1, <2>1, <4>2, Grown DEF LogLen
        <5> QED BY <1>1, <5>1, <5>2, Ranges
      <4> QED BY <1>3, <4>1, <4>2
    <3>3. pc[t] \notin {"idle", "look"} /\ Sound(pos[t], posOf[t]) => Sound(pos[t], posOf[t])'
      <4> SUFFICES ASSUME pc[t] \notin {"idle", "look"}, Sound(pos[t], posOf[t])
                   PROVE  Sound(pos[t], posOf[t])'
        OBVIOUS
      <4>1. posOf[t] # contents => pos[t] \in StaleCursors
        BY DEF StaleCursors
      <4>2. ASSUME NEW k \in Nat, NEW j \in Nat, k = pos[t], j = posOf[t] PROVE Sound(k, j)'
        BY <1>1, <1>3, <4>1, <4>2, GrowKeeps
      <4> QED BY <1>1, <1>2, <4>2 DEF Sound, Handled
    <3>4. posOf[t] # contents /\ Elsewhere(t) => (posOf[t] # contents /\ Elsewhere(t))'
      BY <1>2, <2>1, <3>1 DEF Elsewhere
    <3>5. (handle[t] \notin {NoInode, Inode})' =>
             /\ posOf'[t] < contents'
             /\ SizeOf(handle[t])' = 0 \/ SizeOf(Inode)' < SizeOf(handle[t])'
      BY <1>2, <2>1, <3>1, <3>2
    <3> QED BY <1>1, <1>2, <2>1, <3>3, <3>4, <3>5 DEF Held
  <2> QED BY <2>2, <2>3 DEF CursorInv
<1>4. CASE Rotate \/ Truncate
  <2>1. \A k \in Nat, j \in Nat : j <= contents =>
           j < contents' /\ SizeOf(Inode)' = 0 /\ Sound(k, j)'
    BY <1>1, <1>4, ReplaceKeeps
  <2>2. Sound(metaCursor, metaOf)'
    <3>1. ASSUME NEW k \in Nat, NEW j \in Nat, k = metaCursor, j = metaOf PROVE Sound(k, j)'
      BY <1>1, <2>1, <3>1
    <3> QED BY <1>1, <1>2, <3>1 DEF Sound, Handled
  <2>3. ASSUME NEW t \in Tailer PROVE Held(t)'
    <3>1. Sound(pos[t], posOf[t])'
      <4>1. ASSUME NEW k \in Nat, NEW j \in Nat, k = pos[t], j = posOf[t] PROVE Sound(k, j)'
        BY <1>1, <2>1, <4>1 DEF Held
      <4> QED BY <1>1, <1>2, <4>1 DEF Sound, Handled
    <3>2. posOf'[t] < contents' /\ posOf'[t] \in Nat /\ contents' \in Nat
      BY <1>1, <1>2, <1>4, <2>1 DEF Held, Rotate, Truncate
    <3>3. SizeOf(Inode)' = 0
      BY <1>1, <2>1
    <3>4. (handle[t] \notin {NoInode, Inode})' => SizeOf(handle[t])' \in Nat
      <4>1. IInv'
        BY <1>1, <1>4, WriterStep
      <4>2. ASSUME NEW f \in 1..Inode' PROVE SizeOf(f)' \in Nat
        <5>1. files'[f] \in Seq(Line)
          BY <4>1, ElementOfSeq DEF IInv, TypeOK, Inode
        <5>2. Len(files'[f]) \in Nat
          BY <5>1, LenProperties
        <5>3. SizeOf(f)' = LineSize * Len(files'[f]) + 0 \/ SizeOf(f)' = LineSize * Len(files'[f]) + 1
          BY Zenon DEF SizeOf
        <5> QED BY <5>2, <5>3 DEF LineSize
      <4>3. handle'[t] \in {NoInode} \cup 1..Inode'
        BY <4>1 DEF IInv, TypeOK
      <4>4. ASSUME NEW f \in 1..Inode', f = handle'[t] PROVE SizeOf(handle[t])' \in Nat
        BY <4>2, <4>4 DEF SizeOf
      <4> QED BY <4>3, <4>4
    <3> QED BY <3>1, <3>2, <3>3, <3>4 DEF Held
  <2> QED BY <2>2, <2>3 DEF CursorInv
<1> QED BY <1>3, <1>4

\* Deliveries are never taken back.
LEMMA GotGrows ==
  ASSUME IInv, NEW t \in Tailer, Tick(t) \/ TickLost(t)
  PROVE  Got \subseteq Got' /\ UNCHANGED <<log, contents>>
<1>1. CASE ReadLine(t)
  <2>1. \A e \in Line : delivered[e] \in 0..2
    BY DEF IInv, TypeOK
  <2>2. ASSUME NEW e \in Line, delivered[e] > 0 PROVE delivered'[e] > 0
    BY <1>1, <2>1, <2>2 DEF ReadLine, IInv, TypeOK, AtLeastTwo
  <2> QED BY <1>1, <2>2 DEF ReadLine, Got, Payload
<1>2. CASE ~ReadLine(t)
  BY <1>2 DEF Got, Tick, TickLost, Stat, Look, ReadCursor, Size, Open, EndOfFile, Store
<1> QED BY <1>1, <1>2

\* What a tailer that does not step holds stays true.
LEMMA OthersHeld ==
  ASSUME IInv, UNCHANGED <<log, contents>>, Got \subseteq Got', NEW u \in Tailer, Held(u),
         pc'[u] = pc[u], pos'[u] = pos[u], posOf'[u] = posOf[u], handle'[u] = handle[u]
  PROVE  Held(u)'
<1>1. Inode' = Inode /\ LogLen' = LogLen /\ files' = files /\ contents' = contents /\ partial' = partial
  BY DEF log, Inode, LogLen
<1>2. SizeOf(Inode)' = SizeOf(Inode) /\ SizeOf(handle[u])' = SizeOf(handle[u])
  BY <1>1 DEF SizeOf
<1>3. Sound(pos[u], posOf[u]) => Sound(pos[u], posOf[u])'
  BY <1>1, <1>2 DEF Sound, Handled
<1>4. Elsewhere(u) => Elsewhere(u)'
  BY <1>1, <1>2 DEF Elsewhere
<1> QED BY <1>1, <1>2, <1>3, <1>4 DEF Held

\* Reading a line in the log: everything before the cursor was handled, and now the line.
LEMMA ReadSound ==
  ASSUME Cursors, NEW t \in Tailer, ReadLine(t), handle[t] = Inode
  PROVE  /\ Sound(pos[t], contents) /\ posOf'[t] = contents
         /\ Sound(pos[t], contents)'
<1>1. /\ IInv /\ LogLen \in Nat /\ SizeOf(Inode) \in {2 * LogLen, 2 * LogLen + 1} /\ contents \in Nat
      /\ pos[t] \in Nat /\ posOf[t] \in Nat /\ Held(t) /\ pc[t] = "drain" /\ AtLine(t)
  BY Ranges DEF Cursors, CursorInv, ReadLine
<1>2. PICK k \in 1..LogLen : pos[t] = 2 * (k - 1) /\ Advance(t) = 2 * k /\ LineNo(t) = files[Inode][k]
                             /\ LineNo(t) \in Line
  BY <1>1, LineRead DEF LineSize, LogLen
<1>3. pos'[t] = 2 * k /\ posOf' = [posOf EXCEPT ![t] = IF pos[t] = 0 /\ handle[t] = Inode THEN contents ELSE @]
  BY <1>1, <1>2 DEF ReadLine, IInv, TypeOK
<1>4. pos[t] = 0 \/ posOf[t] = contents
  <2>1. Sound(pos[t], posOf[t])
    BY <1>1 DEF Held, Elsewhere
  <2>2. pos[t] + 2 <= SizeOf(Inode)
    BY <1>1 DEF AtLine, LineSize
  <2> QED BY <1>1, <2>1, <2>2 DEF Sound
<1>5. posOf'[t] = contents
  BY <1>1, <1>3, <1>4 DEF IInv, TypeOK
<1>6. Sound(pos[t], contents)
  BY <1>1, <1>4, SoundZero DEF Held, Elsewhere
<1>7. UNCHANGED <<log, contents>> /\ Got \subseteq Got'
  BY <1>1, GotGrows DEF Tick
<1>8. LineNo(t) \in Junk \cup Got'
  <2>1. LineNo(t) \notin Junk => delivered'[LineNo(t)] \in {1, 2}
    BY <1>1, <1>2 DEF ReadLine, AtLeastTwo, IInv, TypeOK
  <2> QED BY <1>2, <2>1 DEF Got, Payload
<1>9. Sound(2 * k, contents)'
  <2>1. contents' = contents /\ files' = files /\ Inode' = Inode /\ LogLen' = LogLen
    BY <1>7 DEF log, Inode, LogLen
  <2>2. ASSUME NEW i \in 1..LogLen, 2 * i <= 2 * k PROVE files[Inode][i] \in Junk \cup Got'
    <3>1. CASE i = k
      BY <1>2, <1>8, <3>1
    <3>2. CASE i # k
      <4>1. 2 * i <= pos[t]
        BY <1>2, <2>2, <3>2
      <4> QED BY <1>6, <1>7, <4>1 DEF Sound, Handled, LineSize
    <3> QED BY <3>1, <3>2
  <2>3. 2 * k <= 2 * LogLen
    BY <1>2, <1>1
  <2> QED BY <2>1, <2>2, <2>3, <1>1 DEF Sound, Handled, LineSize
<1> QED BY <1>3, <1>5, <1>6, <1>9

\* A tick keeps the cursors sound.
LEMMA TailerCursors ==
  ASSUME Cursors, NEW t \in Tailer, Tick(t) \/ TickLost(t) PROVE CursorInv'
<1>1. /\ IInv /\ Sound(metaCursor, metaOf) /\ Held(t) /\ \A u \in Tailer : Held(u)
      /\ UNCHANGED <<log, contents>> /\ Got \subseteq Got'
  BY GotGrows DEF Cursors, CursorInv
<1>2. /\ contents \in Nat /\ metaOf \in Nat /\ metaOf <= contents
      /\ pos[t] \in Nat /\ posOf[t] \in Nat /\ posOf[t] <= contents
      /\ pc \in [Tailer -> {"idle", "look", "size", "open", "drain", "store"}]
      /\ pos \in [Tailer -> Offset] /\ posOf \in [Tailer -> Nat]
      /\ handle \in [Tailer -> {NoInode} \cup 1..Inode] /\ Inode \in 1..Inode
      /\ pc[t] = "drain" => handle[t] # NoInode
      /\ pc[t] \in {"idle", "look", "size", "open"} => handle[t] = NoInode
  BY <1>1, Ranges DEF Sound, Held, IInv, TypeOK, Shape
<1>3. Inode' = Inode /\ files' = files /\ partial' = partial /\ LogLen' = LogLen /\ contents' = contents
      /\ \A f : SizeOf(f)' = SizeOf(f)
  BY <1>1 DEF log, Inode, LogLen, SizeOf
<1>4. ASSUME NEW u \in Tailer, u # t PROVE Held(u)'
  <2>1. pc'[u] = pc[u] /\ pos'[u] = pos[u] /\ posOf'[u] = posOf[u] /\ handle'[u] = handle[u]
    BY <1>2, <1>4 DEF Tick, TickLost, Stat, Look, ReadCursor, Size, Open, ReadLine, EndOfFile, Store,
                      Forget
  <2> QED BY <1>1, <1>4, <2>1, OthersHeld
<1>5. \A c, of : Sound(c, of) => Sound(c, of)'
  BY <1>1, TickKeeps
<1>6. Sound(0, metaOf) /\ Sound(0, posOf[t])
  BY <1>1, <1>2, SoundZero
<1>7. ASSUME UNCHANGED <<metaCursor, metaOf>> PROVE Sound(metaCursor, metaOf)'
  BY <1>1, <1>3, <1>7 DEF Sound, Handled
<1>8. ASSUME NEW c, NEW of \in Nat, of <= contents,
             pos'[t] = c, posOf'[t] = of, handle'[t] \in {NoInode, Inode},
             pc'[t] \notin {"idle", "look"} => Sound(c, of)'
      PROVE  Held(t)'
  BY <1>3, <1>8 DEF Held, Sound, Handled
<1>9. ASSUME Forget(t) PROVE Held(t)'
  BY <1>2, <1>3, <1>9 DEF Forget, Held
<1>10. CASE Stat(t)
  BY <1>2, <1>4, <1>7, <1>10, <1>8 DEF Stat, CursorInv, meta
<1>11. CASE Look(t)
  <2>1. Start(t) \in {0, metaCursor}
    BY DEF Start
  <2>2. ASSUME NEW c, NEW of \in Nat, c = Start(t), of = metaOf PROVE Held(t)'
    <3>1. Sound(c, of)'
      BY <1>1, <1>5, <1>6, <2>1, <2>2
    <3>2. CASE pc'[t] = "open"
      BY <1>2, <1>8, <1>11, <2>2, <3>1, <3>2 DEF Look
    <3>3. CASE pc'[t] = "idle"
      <4>1. pos'[t] = pos[t] /\ posOf'[t] = posOf[t] /\ handle'[t] \in {NoInode, Inode}
        BY <1>2, <1>11, <3>3 DEF Look
      <4> QED BY <1>2, <1>3, <3>3, <4>1 DEF Held
    <3> QED BY <1>2, <1>11, <3>2, <3>3 DEF Look
  <2>3. Sound(metaCursor, metaOf)'
    BY <1>7, <1>11 DEF Look
  <2> QED BY <1>2, <1>4, <2>2, <2>3 DEF CursorInv
<1>12. CASE ReadCursor(t)
  <2>1. ASSUME NEW c, NEW of \in Nat, c = metaCursor, of = metaOf PROVE Held(t)'
    <3>1. Sound(c, of)'
      BY <1>1, <1>5, <2>1
    <3> QED BY <1>2, <1>8, <1>12, <2>1, <3>1 DEF ReadCursor
  <2> QED BY <1>2, <1>4, <1>7, <1>12, <2>1 DEF CursorInv, ReadCursor, meta
<1>13. CASE Size(t)
  <2>1. InboxStart(t) \in {0, pos[t]} /\ Sound(pos[t], posOf[t])
    BY <1>1, <1>2, <1>13 DEF InboxStart, Size, Held, Elsewhere
  <2>2. ASSUME NEW c, NEW of \in Nat, c = InboxStart(t), of = posOf[t], ~Forget(t) PROVE Held(t)'
    <3>1. Sound(c, of)'
      BY <1>5, <1>6, <2>1, <2>2
    <3> QED BY <1>2, <1>8, <1>13, <2>2, <3>1 DEF Size
  <2> QED BY <1>2, <1>4, <1>7, <1>9, <1>13, <2>2 DEF CursorInv, Size, meta
<1>14. CASE Open(t)
  <2>1. Sound(pos[t], posOf[t])
    BY <1>1, <1>14 DEF Open, Held, Elsewhere
  <2>2. ASSUME NEW c, NEW of \in Nat, c = pos[t], of = posOf[t] PROVE Held(t)'
    <3>1. Sound(c, of)'
      BY <1>5, <2>1, <2>2
    <3> QED BY <1>2, <1>8, <1>14, <2>2, <3>1 DEF Open
  <2> QED BY <1>2, <1>4, <1>7, <1>14, <2>2 DEF CursorInv, Open, meta
<1>15. CASE ReadLine(t)
  <2>1. Held(t)'
    <3>1. CASE handle[t] = Inode
      <4>1. posOf'[t] = contents /\ Sound(pos[t], contents)'
        BY <1>15, <3>1, ReadSound
      <4> QED BY <1>2, <1>3, <1>15, <3>1, <4>1 DEF Held, ReadLine
    <3>2. CASE handle[t] # Inode
      <4>1. pos'[t] = pos[t] + 2 /\ pos[t] + 2 <= SizeOf(handle[t]) /\ posOf'[t] = posOf[t]
            /\ handle'[t] = handle[t] /\ handle[t] \notin {NoInode, Inode}
        BY <1>2, <1>15, <3>2 DEF ReadLine, Advance, AtLine, LineSize
      <4>2. Elsewhere(t)'
        BY <1>3, <1>15, <4>1 DEF Elsewhere, ReadLine
      <4> QED BY <1>1, <1>2, <1>3, <4>1, <4>2 DEF Held
    <3> QED BY <3>1, <3>2
  <2> QED BY <1>4, <1>7, <1>15, <2>1 DEF CursorInv, ReadLine, meta
<1>16. CASE EndOfFile(t)
  <2>1. Sound(pos[t], posOf[t])
    <3>1. CASE Elsewhere(t) /\ posOf[t] # contents
      <4>1. handle[t] \in 1..Inode /\ handle[t] # Inode /\ pos[t] <= SizeOf(handle[t])
            /\ (SizeOf(handle[t]) = 0 \/ SizeOf(Inode) < SizeOf(handle[t]))
        BY <1>1, <1>2, <3>1 DEF Elsewhere, Held
      <4>2. /\ SizeOf(handle[t]) = 2 * Len(files[handle[t]])
            /\ Len(files[handle[t]]) \in 0..lastLine /\ lastLine \in 0..MaxLine /\ MaxLine \in Nat
        BY <1>1, <4>1, Sizes
      <4>3. PICK n \in 0..MaxLine : pos[t] = 2 * n
        BY <1>2 DEF Offset, LineSize
      <4>4. ~(pos[t] + 2 <= SizeOf(handle[t]))
        BY <1>16 DEF EndOfFile, AtLine, LineSize
      <4> DEFINE z == Len(files[handle[t]])
      <4>5. SizeOf(handle[t]) = 2 * z /\ z \in Nat
        BY <4>2
      <4> HIDE DEF z
      <4>6. pos[t] = SizeOf(handle[t])
        BY <4>1, <4>3, <4>4, <4>5
      <4> QED BY <1>2, <3>1, <4>1, <4>6 DEF Sound
    <3>2. CASE ~(Elsewhere(t) /\ posOf[t] # contents)
      BY <1>1, <1>16, <3>2 DEF Held, EndOfFile
    <3> QED BY <3>1, <3>2
  <2>2. Sound(pos[t], posOf[t])'
    <3>1. pos'[t] = pos[t] /\ posOf'[t] = posOf[t]
      BY <1>16 DEF EndOfFile
    <3> QED BY <1>3, <1>16, <2>1, <3>1 DEF Sound, Handled, EndOfFile, Got
  <2>3. Held(t)'
    BY <1>1, <1>2, <1>3, <1>16, <2>2 DEF Held, EndOfFile
  <2> QED BY <1>4, <1>7, <1>16, <2>3 DEF CursorInv, EndOfFile, meta
<1>17. CASE Store(t)
  <2>1. Sound(pos[t], posOf[t])
    BY <1>1, <1>17 DEF Store, Held, Elsewhere
  <2>2. ASSUME NEW c, NEW of, c = pos[t], of = posOf[t] PROVE Sound(metaCursor, metaOf)'
    <3>1. Sound(c, of)' /\ metaCursor' = c /\ metaOf' = of
      BY <1>5, <1>17, <2>1, <2>2 DEF Store
    <3> QED BY <1>3, <3>1 DEF Sound, Handled
  <2> QED BY <1>4, <1>9, <1>17, <2>2 DEF CursorInv, Store
<1>18. CASE TickLost(t)
  BY <1>4, <1>7, <1>9, <1>18 DEF CursorInv, TickLost, meta
<1> QED BY <1>10, <1>11, <1>12, <1>13, <1>14, <1>15, <1>16, <1>17, <1>18 DEF Tick

\* Cursors stay sound.
LEMMA CursorsInvariance ==
  ASSUME Orderly PROVE Spec => []Cursors
<1>1. Init => Cursors
  <2> SUFFICES ASSUME Init PROVE Cursors
    OBVIOUS
  <2>1. IInv /\ metaCursor = 0 /\ metaOf = 0 /\ contents = 0
    BY InitIInv DEF Init
  <2>2. Sound(metaCursor, metaOf)
    BY <2>1, SoundZero
  <2>3. \A t \in Tailer : Held(t)
    BY <2>1 DEF Init, Held
  <2> QED BY <2>1, <2>2, <2>3 DEF Cursors, CursorInv
<1>2. Cursors /\ [Next]_vars => Cursors'
  <2> SUFFICES ASSUME Cursors, [Next]_vars PROVE Cursors'
    OBVIOUS
  <2>1. IInv
    BY DEF Cursors
  <2>2. CASE BeginLine \/ EndLine \/ Rotate \/ Truncate
    BY <2>1, <2>2, WriterStep, WriterCursors DEF Cursors
  <2>3. CASE \E t \in Tailer : Tick(t) \/ TickLost(t)
    BY <2>1, <2>3, TailerStep, TailerCursors DEF Cursors
  <2>4. CASE UNCHANGED vars
    <3>1. UNCHANGED <<log, contents, metaCursor, metaOf, pc, pos, posOf, handle, delivered>>
      BY <2>4 DEF vars, meta, tick
    <3>2. IInv'
      BY <2>1, <2>4 DEF IInv, TypeOK, Shape, vars, log, meta, tick, Inode, LogLen, Base
    <3>3. Got' = Got
      BY <3>1 DEF Got
    <3>4. \A t \in Tailer : Held(t) => Held(t)'
      BY <2>1, <3>1, <3>3, OthersHeld
    <3>5. Sound(metaCursor, metaOf) => Sound(metaCursor, metaOf)'
      BY <3>1, <3>3 DEF Sound, Handled, log, LogLen, Inode, SizeOf
    <3> QED BY <3>2, <3>4, <3>5 DEF Cursors, CursorInv
  <2> QED BY <2>2, <2>3, <2>4 DEF Next
<1> QED BY <1>1, <1>2, PTL DEF Spec

\* Between ticks the stored cursor never stands behind a line nobody has seen, for any
\* number of tailers, rotations, truncations and lost ticks of an orderly log: no tailer
\* loses an event that stays in the log (WalTailer._tick, HookInboxTailer._tick).
THEOREM NoneSkipped ==
  ASSUME Orderly PROVE Spec => []NothingSkipped
<1>1. Cursors => NothingSkipped
  <2> SUFFICES ASSUME Cursors, metaCursor <= SizeOf(Inode), NEW i \in DOMAIN files[Inode],
                      LineSize * i <= metaCursor
               PROVE  files[Inode][i] \in Junk \cup Got
    BY DEF NothingSkipped
  <2>1. Sound(metaCursor, metaOf) /\ metaCursor \in Nat /\ SizeOf(Inode) \in Nat
    BY Ranges DEF Cursors, CursorInv
  <2>2. i \in 1..LogLen
    <3>1. files[Inode] \in Seq(Line)
      BY Ranges, ElementOfSeq DEF Cursors, IInv, TypeOK, Inode
    <3> QED BY <3>1, LenProperties DEF LogLen
  <2> QED BY <2>1, <2>2 DEF Sound, Handled, LineSize
<1> QED BY <1>1, CursorsInvariance, PTL

-----------------------------------------------------------------------------
(* The tailers implement the feed: every step is a step of EventFeed, or a stutter. *)

Waiting == (InLog \cap Payload) \ Got
Gone    == {e \in Payload : e <= lastLine /\ e \notin InLog \cup Got}

\* The log holds the last LogLen lines written.
LEMMA InLogIs ==
  ASSUME IInv, NEW e \in Line
  PROVE  e \in InLog <=> Base < e /\ e <= lastLine
<1>1. /\ LogLen \in 0..lastLine /\ lastLine \in 0..MaxLine /\ MaxLine \in Nat /\ Inode \in 1..Inode
      /\ \A i \in 1..LogLen : files[Inode][i] = Base + i
  BY Ranges, Sizes DEF LogLen, IInv, Shape
<1>2. DOMAIN files[Inode] = 1..LogLen
  <2>1. files[Inode] \in Seq(Line)
    BY <1>1, ElementOfSeq DEF IInv, TypeOK, Inode
  <2> QED BY <2>1, LenProperties DEF LogLen
<1>3. e \in InLog <=> \E i \in 1..LogLen : e = Base + i
  BY <1>1, <1>2 DEF InLog
<1>4. Base \in Int /\ Base + LogLen = lastLine /\ e \in Int
  BY <1>1 DEF Base, Line
<1>5. ASSUME Base < e, e <= lastLine PROVE e - Base \in 1..LogLen /\ e = Base + (e - Base)
  BY <1>1, <1>4, <1>5
<1> QED BY <1>1, <1>3, <1>4, <1>5

\* A line that is read for the first time is the oldest that waits, or comes late.
LEMMA ReadFeeds ==
  ASSUME Cursors, NEW t \in Tailer, ReadLine(t)
  PROVE  [Feed!Next]_(Feed!feed)
<1>1. /\ IInv /\ pc[t] = "drain" /\ AtLine(t) /\ IInv'
      /\ delivered' = IF LineNo(t) \in Junk THEN delivered
                      ELSE [delivered EXCEPT ![LineNo(t)] = AtLeastTwo(@)]
      /\ UNCHANGED <<log, contents>>
      /\ \A e \in Line : delivered[e] \in 0..2
  BY TailerStep, GotGrows DEF Cursors, ReadLine, Tick, IInv, TypeOK
<1>2. InLog' = InLog /\ lastLine' = lastLine
  BY <1>1 DEF log, InLog, Inode
<1>3. LineNo(t) \in Line /\ LineNo(t) <= lastLine
  BY <1>1, LineRead, LineWritten
<1>4. PICK n \in Line : n = LineNo(t) /\ n <= lastLine
  BY <1>3
<1>5. CASE n \in Junk \/ n \in Got
  <2>1. \A e \in Line : delivered'[e] > 0 <=> delivered[e] > 0
    <3>1. CASE n \in Junk
      BY <1>1, <1>4, <3>1
    <3>2. CASE n \notin Junk
      <4>1. delivered[n] \in {1, 2}
        BY <1>1, <1>4, <1>5, <3>2 DEF Got
      <4>2. delivered' = [delivered EXCEPT ![n] = AtLeastTwo(delivered[n])]
        BY <1>1, <1>4, <3>2
      <4>3. AtLeastTwo(delivered[n]) = 2
        BY <4>1 DEF AtLeastTwo
      <4>4. ASSUME NEW e \in Line PROVE delivered'[e] > 0 <=> delivered[e] > 0
        <5>1. delivered'[e] = IF e = n THEN 2 ELSE delivered[e]
          BY <4>2, <4>3, <1>1 DEF IInv, TypeOK
        <5> QED BY <4>1, <5>1
      <4> QED BY <4>4
    <3> QED BY <3>1, <3>2
  <2>2. Got' = Got
    BY <2>1 DEF Got, Payload
  <2> QED BY <1>2, <2>2 DEF Feed!feed
<1>6. CASE n \notin Junk /\ n \notin Got
  <2>1. n \in Payload /\ Got' = Got \cup {n}
    <3>1. n \in Payload /\ delivered[n] = 0
      BY <1>1, <1>4, <1>6 DEF Got, Payload
    <3>2. delivered' = [delivered EXCEPT ![n] = 1]
      BY <1>1, <1>4, <1>6, <3>1 DEF AtLeastTwo
    <3>3. ASSUME NEW e \in Line PROVE delivered'[e] > 0 <=> delivered[e] > 0 \/ e = n
      <4>1. delivered'[e] = IF e = n THEN 1 ELSE delivered[e]
        BY <1>1, <3>2 DEF IInv, TypeOK
      <4> QED BY <4>1
    <3> QED BY <3>1, <3>3 DEF Got, Payload
  <2>2. CASE handle[t] = Inode
    <3>1. PICK k \in 1..LogLen : pos[t] = 2 * (k - 1) /\ n = files[Inode][k]
      BY <1>1, <1>4, <2>2, LineRead DEF LineSize, LogLen
    <3>2. LogLen \in Nat /\ lastLine \in Nat /\ \A i \in 1..LogLen : files[Inode][i] = Base + i
      BY <1>1, Ranges, LineNumbers DEF IInv, Shape
    <3>3. Base \in Int /\ Base + LogLen = lastLine
      BY <3>2 DEF Base
    <3>4. n \in Waiting
      <4>1. Base < n
        BY <3>1, <3>2, <3>3
      <4> QED BY <1>1, <1>4, <1>6, <2>1, <4>1, InLogIs DEF Waiting
    <3>5. ASSUME NEW d \in Waiting PROVE n <= d
      <4>1. d \in Line /\ d \notin Junk /\ d \notin Got /\ Base < d /\ d <= lastLine
        BY <1>1, InLogIs DEF Waiting, Payload
      <4>2. d - Base \in 1..LogLen /\ d = files[Inode][d - Base] /\ d \in Int
        BY <3>2, <3>3, <4>1 DEF Line
      <4>3. ~(2 * (d - Base) <= pos[t])
        <5>1. Sound(pos[t], contents)
          BY <2>2, ReadSound
        <5> QED BY <4>1, <4>2, <5>1 DEF Sound, Handled, LineSize
      <4> QED BY <3>1, <3>2, <3>3, <4>2, <4>3
    <3>6. /\ Waiting' = Waiting \ {n} /\ Gone' = Gone
      BY <1>2, <2>1, <3>4 DEF Waiting, Gone
    <3> QED BY <2>1, <3>4, <3>5, <3>6 DEF Feed!Next, Feed!Deliver, Waiting, Gone
  <2>3. CASE handle[t] # Inode
    <3>1. n \notin InLog
      <4>1. n <= Base
        BY <1>1, <1>4, <2>3, LineWritten
      <4>2. Base \in Int /\ n \in Int
        BY <1>1, LineNumbers
      <4> QED BY <1>1, <4>1, <4>2, InLogIs
    <3>2. n \in Gone /\ Gone' = Gone \ {n} /\ Waiting' = Waiting
      BY <1>2, <1>4, <1>6, <2>1, <3>1 DEF Gone, Waiting
    <3> QED BY <2>1, <3>2 DEF Feed!Next, Feed!DeliverLate, Waiting, Gone
  <2> QED BY <2>2, <2>3
<1> QED BY <1>5, <1>6

\* The end of a line writes an event, unless the line is none; new contents lose the events
\* that still waited.
LEMMA WriterFeeds ==
  ASSUME IInv, BeginLine \/ EndLine \/ Rotate \/ Truncate
  PROVE  [Feed!Next]_(Feed!feed)
<1>1. IInv' /\ Got' = Got /\ lastLine \in Nat /\ Line \subseteq Nat
  BY WriterStep, LineNumbers DEF BeginLine, EndLine, Rotate, Truncate, Got
<1>2. LogLen \in Nat /\ Base \in Int /\ Base + LogLen = lastLine
  BY <1>1, Ranges DEF Base
<1>3. \A e \in Got : e <= lastLine
  BY DEF Got, Payload, IInv, Shape
<1>4. ASSUME NEW e \in Line PROVE e \in InLog <=> Base < e /\ e <= lastLine
  BY InLogIs
<1>5. CASE BeginLine
  <2>1. InLog' = InLog /\ lastLine' = lastLine
    BY <1>5 DEF BeginLine, InLog, Inode
  <2> QED BY <1>1, <2>1 DEF Feed!feed
<1>6. CASE EndLine
  <2>1. PICK n \in Line : n = lastLine + 1
    BY <1>6, Grown
  <2>2. lastLine' = n /\ n \notin InLog /\ n \notin Got /\ n \in Nat
    BY <1>1, <1>3, <1>4, <1>6, <2>1 DEF EndLine
  <2>3. InLog' = InLog \cup {n}
    <3>1. files'[Inode] \in Seq(Line) /\ files[Inode] \in Seq(Line) /\ Inode' = Inode
          /\ Inode \in 1..Inode
      <4>1. files' \in Seq(Seq(Line)) /\ files \in Seq(Seq(Line)) /\ Inode' = Inode /\ Inode \in 1..Inode
        BY <1>6, Grown, Ranges DEF IInv, TypeOK
      <4> QED BY <4>1, ElementOfSeq DEF Inode
    <3>2. DOMAIN files'[Inode] = 1..(LogLen + 1) /\ DOMAIN files[Inode] = 1..LogLen
      BY <1>6, <3>1, Grown, LenProperties DEF LogLen
    <3>3. /\ \A i \in 1..LogLen : files'[Inode][i] = files[Inode][i]
          /\ files'[Inode][LogLen + 1] = n
      BY <1>6, <2>1, Grown
    <3>4. 1..(LogLen + 1) = 1..LogLen \cup {LogLen + 1}
      BY <1>2
    <3>5. {files'[Inode][i] : i \in 1..(LogLen + 1)} = {files[Inode][i] : i \in 1..LogLen} \cup {n}
      BY <3>3, <3>4
    <3> QED BY <3>1, <3>2, <3>5 DEF InLog
  <2>4. \A d \in Waiting \cup Got \cup Gone : d < n
    <3> SUFFICES ASSUME NEW d \in Waiting \cup Got \cup Gone PROVE d < n
      OBVIOUS
    <3>1. d \in Line
      BY DEF Waiting, Gone, Got, Payload
    <3>2. d <= lastLine
      BY <1>3, <1>4, <3>1 DEF Waiting, Gone
    <3> QED BY <1>1, <2>1, <3>1, <3>2
  <2>5. Gone' = Gone
    <3>1. \A e \in Payload : e <= n /\ e # n <=> e <= lastLine
      BY <1>1, <2>1 DEF Payload
    <3> QED BY <1>1, <2>2, <2>3, <3>1 DEF Gone
  <2>6. CASE n \in Junk
    <3>1. Waiting' = Waiting
      BY <1>1, <2>3, <2>6 DEF Waiting, Payload
    <3> QED BY <1>1, <2>5, <3>1 DEF Feed!feed, Waiting, Gone
  <2>7. CASE n \notin Junk
    <3>1. n \in Payload /\ Waiting' = Waiting \cup {n}
      BY <1>1, <2>2, <2>3, <2>7 DEF Waiting, Payload
    <3> QED BY <1>1, <2>4, <2>5, <3>1 DEF Feed!Next, Feed!Write, Waiting, Gone
  <2> QED BY <2>6, <2>7
<1>7. CASE Rotate \/ Truncate
  <2>1. lastLine' = lastLine /\ InLog' = {}
    <3>1. files'[Inode'] = <<>>
      BY <1>7, Rotated_Files, Truncated_Files
    <3> QED BY <1>7, <3>1 DEF InLog, Rotate, Truncate
  <2>2. Waiting' = {} /\ Gone' = Gone \cup Waiting
    BY <1>1, <1>4, <2>1 DEF Waiting, Gone, Payload
  <2> QED BY <1>1, <2>2 DEF Feed!Next, Feed!Replace, Waiting, Gone
<1> QED BY <1>5, <1>6, <1>7

\* The tailers deliver every event that stays in the log, the first time in the order of the
\* log; only a new file loses events.  That none waits for ever (FeedSpec's fairness) is
\* left to the model checker.
THEOREM InOrder ==
  ASSUME Orderly PROVE Spec => Feed!Init /\ [][Feed!Next]_(Feed!feed)
<1>1. Init => Feed!Init
  <2> SUFFICES ASSUME Init PROVE Feed!Init
    OBVIOUS
  <2>1. files[Inode] = <<>> /\ Got = {} /\ lastLine = 0
    BY DEF Init, Inode, Got, Payload
  <2>2. InLog = {} /\ \A e \in Payload : ~(e <= 0)
    BY <2>1, BoundsAssumption DEF InLog, Payload, Line
  <2> QED BY <2>1, <2>2 DEF Feed!Init
<1>2. Cursors /\ [Next]_vars => [Feed!Next]_(Feed!feed)
  <2> SUFFICES ASSUME Cursors, [Next]_vars PROVE [Feed!Next]_(Feed!feed)
    OBVIOUS
  <2>1. CASE BeginLine \/ EndLine \/ Rotate \/ Truncate
    BY <2>1, WriterFeeds DEF Cursors
  <2>2. CASE \E t \in Tailer : ReadLine(t)
    BY <2>2, ReadFeeds
  <2>3. ASSUME UNCHANGED <<log, delivered>> PROVE UNCHANGED Feed!feed
    BY <2>3 DEF Feed!feed, InLog, Got, log, Inode
  <2>4. ASSUME NEW t \in Tailer, Tick(t) \/ TickLost(t), ~ReadLine(t) PROVE UNCHANGED <<log, delivered>>
    BY <2>4 DEF Tick, TickLost, Stat, Look, ReadCursor, Size, Open, EndOfFile, Store
  <2>5. CASE UNCHANGED vars
    BY <2>3, <2>5 DEF vars
  <2> QED BY <2>1, <2>2, <2>3, <2>4, <2>5 DEF Next
<1> QED BY <1>1, <1>2, CursorsInvariance, PTL DEF Spec
=============================================================================
