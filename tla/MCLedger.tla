------------------------------ MODULE MCLedger ------------------------------
(* A small ledger: two rows and two readings, either of which may be the     *)
(* one recorded or the one written over it.                                  *)
EXTENDS CorrectionLedger, TLC

Symmetry == Permutations(Rows) \cup Permutations(Numeric)

=============================================================================
