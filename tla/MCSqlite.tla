------------------------------ MODULE MCSqlite ------------------------------
(* Requests and rows for checking SqliteCorrections: one entity with two     *)
(* readings, two threads of the web server.                                  *)
EXTENDS SqliteCorrections, TLC

CONSTANTS e1, c1, c2, v1, v2

OneEntity == [r \in Rows |-> e1]

\* One reading is corrected and the range filled; anything is restored or
\* dismissed.
PageRequests ==
  {q \in [kind : {"apply"}, entity : {e1}, row : {1}, expected : Numeric, new : Numeric] :
     q.new # q.expected}
    \cup [kind : {"bulk"}, entity : {e1}, range : {Rows}, new : Numeric]
    \cup [kind : {"restore", "dismiss"}, id : Ids]

\* The middle one of three readings is corrected or interpolated: not the
\* requests of a run, see README.md.
Interpolations ==
  [kind : {"apply"}, entity : {e1}, row : {2}, expected : Values \ Numeric, new : Numeric]
    \cup [kind : {"bulk"}, entity : {e1}, range : {{2}}, new : {Interpolate}]
    \cup [kind : {"restore", "dismiss"}, id : Ids]

Symmetry == Permutations(Threads) \cup Permutations(Numeric)
=============================================================================
