---------------------------- MODULE MCWritePath ----------------------------
(* Small instances of WritePath for TLC. *)
EXTENDS WritePath, TLC

CONSTANTS p1, A, B, f, d1, d2, c1, MenuOfRun

Ident(name) == [path |-> p1, name |-> name]
Rename(name, leaf)   == [op |-> "rename", ident |-> Ident(name), leaf |-> leaf]
Delete(name)         == [op |-> "delete", ident |-> Ident(name)]
AnchorTo(name, d)    == [op |-> "anchor", ident |-> Ident(name), drawer |-> d]
MemAdd(name, d)      == [op |-> "mem_add", ident |-> Ident(name), drawer |-> d]
AnchorChunk(d)       == [op |-> "anchor_chunk", drawer |-> d, chunk |-> c1]
Reconcile(dry)       == [op |-> "reconcile", dry |-> dry]

\* Every operation; names that collide and names that come back.
FullMenu ==
  {Rename(<<A>>, B), Rename(<<B>>, A), Delete(<<A>>), AnchorTo(<<A>>, d1), MemAdd(<<B>>, d1),
   AnchorChunk(d1), Reconcile(FALSE)}

\* Calls that take the lock for long, for a moment, and not at all; for the runs
\* without symmetry.
LockMenu ==
  {Rename(<<A>>, B), Delete(<<A>>), MemAdd(<<A>>, d2), Reconcile(FALSE), Reconcile(TRUE)}

\* The class is renamed, the anchored method in it is not mentioned.
NestedMenu == {Rename(<<A>>, B)}

MCMenu ==
  CASE MenuOfRun = "full"   -> FullMenu
    [] MenuOfRun = "lock"   -> LockMenu
    [] MenuOfRun = "nested" -> NestedMenu

\* An earlier session discovered A (the method A/f in the nested run) and anchored d1 to it.
Known == IF MenuOfRun = "nested" THEN <<A, f>> ELSE <<A>>
MCInitDb == InsertAnchor(UpsertSymbol(EmptyDb, Ident(Known)), 1, d1)
MCInitCode == {Ident(<<A>>), Ident(<<A, f>>)}
MCInitDrawers == {d1}
AllFaultsButLookup == {"crash", "cancel", "lost_reply"}

Sym == Permutations(Request) \cup Permutations(Server)
=============================================================================
