------------------------------ MODULE EventFeed ------------------------------
(***************************************************************************)
(* What a tailer promises the subscribers of an append-only log: every     *)
(* event that stays in the log is delivered at least once, and the first   *)
(* deliveries keep the order of the log.  Only replacing the log loses     *)
(* events; a lost one may still arrive, from a copy somebody had open.     *)
(* Repeated deliveries are stuttering steps.                               *)
(***************************************************************************)
EXTENDS Integers

CONSTANT Event  \* events are numbered in the order they are written

VARIABLES
  pending,  \* in the log, not delivered yet
  got,      \* delivered
  lost      \* gone from the log before they were delivered

feed == <<pending, got, lost>>

Init == pending = {} /\ got = {} /\ lost = {}

Write ==
  /\ \E e \in Event : /\ \A d \in pending \cup got \cup lost : d < e
                      /\ pending' = pending \cup {e}
  /\ UNCHANGED <<got, lost>>

\* The oldest event of the log comes first.
Deliver ==
  /\ \E e \in pending : /\ \A d \in pending : e <= d
                        /\ pending' = pending \ {e}
                        /\ got' = got \cup {e}
  /\ UNCHANGED lost

DeliverLate ==
  /\ \E e \in lost : lost' = lost \ {e} /\ got' = got \cup {e}
  /\ UNCHANGED pending

Replace ==
  /\ lost' = lost \cup pending
  /\ pending' = {}
  /\ UNCHANGED got

Next == Write \/ Deliver \/ DeliverLate \/ Replace

Spec == Init /\ [][Next]_feed /\ WF_feed(Deliver)
=============================================================================
