-------------------------- MODULE MCChangePipeline --------------------------
(* Small instances of ChangePipeline for TLC. *)
EXTENDS ChangePipeline

CONSTANTS p1, p2, x1, x2

Notify(p, type) == [path |-> p, type |-> type, via |-> "notify", told |-> TRUE]
Edit(p)         == [path |-> p, type |-> "edit", via |-> "serena", told |-> FALSE]

\* A file that is deleted, twice perhaps, and another one that is edited.
MCMenu    == {Notify(p1, "delete"), Edit(p2)}
MCPathOf  == [x \in Symbol |-> p1]
=============================================================================
