------------------------------ MODULE LinkLayer ------------------------------
(***************************************************************************)
(* What the Link Layer promises to those who read it (engram.where_does_   *)
(* decision_apply, engram.symbol_history): a table of symbols whose rows   *)
(* stand still, and anchors from rows to drawers and from drawers to       *)
(* chunks.  Each operation is one atomic step here; that a rename spans    *)
(* two processes and a network call, an anchoring five statements, and a   *)
(* reconciler pass many, is the business of WritePath.                     *)
(***************************************************************************)
EXTENDS Integers, Sequences

CONSTANTS
  Name,     \* what can be renamed of an identity
  File,     \* what stays: the file of a symbol
  Drawer, Chunk,
  InitSymbols, InitAnchors, InitChunks  \* what an earlier session left

Identity == [path : File, name : Name]
Row      == [ident : Identity, live : BOOLEAN]

VARIABLES
  symbols,  \* rows in the order of their discovery; the id of a row is its place
  anchors,  \* records [sym, drawer]
  chunks    \* records [drawer, chunk]

vars == <<symbols, anchors, chunks>>

\* No live row has this identity, row s apart.
Free(ident, s) ==
  \A t \in DOMAIN symbols \ {s} : symbols[t].live => symbols[t].ident # ident

Init == symbols = InitSymbols /\ anchors = InitAnchors /\ chunks = InitChunks

Discover(ident) ==
  /\ Free(ident, 0)
  /\ symbols' = Append(symbols, [ident |-> ident, live |-> TRUE])
  /\ UNCHANGED <<anchors, chunks>>

\* The row keeps its id, its file and its anchors.
Rename(s, ident) ==
  /\ symbols[s].live
  /\ ident.path = symbols[s].ident.path
  /\ Free(ident, s)
  /\ symbols' = [symbols EXCEPT ![s].ident = ident]
  /\ UNCHANGED <<anchors, chunks>>

\* For good: a symbol that comes back is discovered as another row.
Tombstone(s) ==
  /\ symbols[s].live
  /\ symbols' = [symbols EXCEPT ![s].live = FALSE]
  /\ UNCHANGED <<anchors, chunks>>

\* A tombstoned row can still be anchored: a deletion may come between finding a row
\* and anchoring it.
Attach(s, d) ==
  /\ anchors' = anchors \cup {[sym |-> s, drawer |-> d]}
  /\ UNCHANGED <<symbols, chunks>>

Detach(a) ==
  /\ anchors' = anchors \ {a}
  /\ UNCHANGED <<symbols, chunks>>

AttachChunk(d, c) ==
  /\ chunks' = chunks \cup {[drawer |-> d, chunk |-> c]}
  /\ UNCHANGED <<symbols, anchors>>

\* Identity may be infinite; an identity that a step gives out is one of these after it.
Given == {symbols[t].ident : t \in DOMAIN symbols}

Next ==
  \/ \E ident \in Given' \cap Identity :
       Discover(ident) \/ \E s \in DOMAIN symbols : Rename(s, ident)
  \/ \E s \in DOMAIN symbols : Tombstone(s) \/ \E d \in Drawer : Attach(s, d)
  \/ \E a \in anchors : Detach(a)
  \/ \E d \in Drawer, c \in Chunk : AttachChunk(d, c)

Spec == Init /\ [][Next]_vars
=============================================================================
