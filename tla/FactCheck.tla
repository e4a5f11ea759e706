----------------------------- MODULE FactCheck ------------------------------
(***************************************************************************)
(* engram.contradicts (tools/contradicts.py): MemPalace's fact_checker is  *)
(* first called in the process and, when that cannot be imported or        *)
(* raises, run as a child for at most ten seconds.  The first call blocks  *)
(* the event loop and is one step; the second is awaited in a thread.      *)
(***************************************************************************)
EXTENDS Upstreams

VARIABLES
  verdict, \* what the client is told: "issues", "nothing" or "unavailable"
  checked  \* history: how the checker ended, and what it said

fcvars == <<verdict, checked>>

\* What the checker says: some issues, none, or a value of a shape the code does not know (a
\* list of strings, an object under another key, an error object).
Value == {"issues", "nothing", "odd"}

\* How the child may end.  It also exits with 1 when the module is missing or raises, but then
\* it writes no JSON.
Exit == [code : {"0"}, found : {"nothing"}] \cup [code : {"1"}, found : {"issues", "odd", None}]
          \cup [code : {"other", "timeout", "not started"}, found : {None}]
InProcess == [code : {"returned"}, found : Value]

ASSUME FactCheckAssumption ==
  None \notin {"issues", "nothing", "unavailable", "odd"} \cup Exit \cup InProcess

FactCheckTypeOK ==
  /\ verdict \in [Call -> {"issues", "nothing", "unavailable", None}]
  /\ checked \in [Call -> Exit \cup InProcess \cup {None}]

FactCheckInit == verdict = [r \in Call |-> None] /\ checked = [r \in Call |-> None]

Tell(r, v) ==
  /\ verdict' = [verdict EXCEPT ![r] = v]
  /\ Goto(r, IF v = "unavailable" THEN "failed" ELSE "ok")
Ran(r, e) == checked' = [checked EXCEPT ![r] = e]

\* _normalize: of an unknown shape an empty list remains.
Normalize(value) == IF value = "issues" THEN "issues" ELSE "nothing"

\* _call_in_process; a text that is missing is refused.
ContradictsBegin(r) ==
  /\ Begin(r)
  /\ \/ Goto(r, "failed") /\ UNCHANGED fcvars
     \/ Goto(r, "check") /\ UNCHANGED fcvars
     \/ \E e \in InProcess : Ran(r, e) /\ Tell(r, Normalize(e.found))
  /\ UNCHANGED <<process, child, at, health>>

\* What _call_subprocess makes of it.
FaultyReading(e) == IF e.code = "1" /\ e.found = "issues" THEN "issues" ELSE "nothing"
Reading(e) ==
  CASE e.code = "0" -> "nothing"
    [] e.code = "1" /\ e.found # None -> Normalize(e.found)
    [] OTHER -> "unavailable"

SubprocessEnds(r) ==
  /\ pc[r] = "check"
  /\ \E e \in Exit : Ran(r, e) /\ Tell(r, Reading(e))
  /\ UNCHANGED <<process, child, at, health, began>>

\* A client is told of issues exactly if a checker found some; it is told that there are none
\* only by a checker that ran to its end, with success or with an answer of its own, and
\* found none the code can read; a child that could not be started, timed out, crashed or
\* wrote no JSON is never taken for a clean text.
VerdictIsTheCheckers ==
  \A r \in Call :
    /\ verdict[r] = "issues" <=> checked[r] # None /\ checked[r].found = "issues"
    /\ verdict[r] = "nothing" => /\ checked[r].code \in {"returned", "0", "1"}
                                /\ checked[r].found \in {"nothing", "odd"}
    /\ verdict[r] = "unavailable" => checked[r].found = None
=============================================================================
