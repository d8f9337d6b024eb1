------------------------------- MODULE MCPage -------------------------------
(* A counter with two readings, both recorded as x.  One of them is corrected *)
(* up to MaxId times; the other users leave the other one alone, and every   *)
(* correction of it is refused.                                              *)
EXTENDS EntityPage

CONSTANTS r1, r2, x, y, l1, s1, o1

Bounds ==
  /\ recorded = [r \in Rows |-> x]
  /\ \A i \in Ids : Recorded(i) => audit[i].row = r1
  /\ \A o \in Others : bulks[o] \subseteq {r1} /\ (forms[o] = Nobody \/ forms[o].row = r1)
=============================================================================
