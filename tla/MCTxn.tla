------------------------------- MODULE MCTxn -------------------------------
(* Requests and rows for checking CorrectionTxn: two readings of one sensor  *)
(* or one of each of two, two threads of the web server.                     *)
EXTENDS CorrectionTxn, TLC

CONSTANTS e1, e2, c1, c2, v1, v2

OneEntity == [r \in Rows |-> e1]

\* One reading of each of two sensors.
OneReadingEach == [r \in Rows |-> IF r = 1 THEN e1 ELSE e2]

\* Corrections of either sensor, their undoing and their dismissal.
CorrectAndUndo ==
  {q \in [kind : {"apply"}, entity : Entities, row : Rows, expected : Numeric, new : Numeric] :
     q.entity = EntityOf[q.row] /\ q.new # q.expected}
    \cup [kind : {"restore", "dismiss"}, id : Ids]

\* Corrections of one sensor, each of a value the user saw.
Corrections == [kind : {"apply"}, entity : {e1}, row : Rows, expected : Numeric, new : Numeric]

\* One user repairs the second reading, one fills the range it is in.
RangesAndRepairs ==
  [kind : {"apply"}, entity : {e1}, row : {2}, expected : {AnyValue}, new : Numeric]
    \cup [kind : {"bulk"}, entity : {e1}, range : {Rows}, new : Numeric]

Symmetry == Permutations(Clients) \cup Permutations(Numeric)

=============================================================================
