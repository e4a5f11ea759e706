------------------------------ MODULE MCRouter ------------------------------
(* Small instances of Router for TLC. *)
EXTENDS Router, TLC

CONSTANTS A, AB, f

\* A precise question, a free-text one and one of both kinds; the name AB contains A, and
\* the free text mentions the file.
PreciseCall  == [name |-> A, file |-> f, text |-> FALSE]
FreeTextCall == [name |-> None, file |-> None, text |-> TRUE]
FusedCall    == [name |-> AB, file |-> None, text |-> TRUE]

MCMenu   == {PreciseCall, FreeTextCall, FusedCall}
OneMenu  == {PreciseCall}
MCWithin == {<<A, AB>>, <<f, "free_query">>}
Rename   == [type |-> "renamed", of |-> A, to |-> AB]
MCChange == {Rename, [type |-> "replaced", of |-> f]}
OneChange == {Rename}
Sym == Permutations(Call)
=============================================================================
