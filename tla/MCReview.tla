------------------------------ MODULE MCReview ------------------------------
(* One states row, two contents of it, two corrections; the add-on and its *)
(* broker connection come and go.                                           *)
EXTENDS NeedsReview, TLC

CONSTANTS r1, x, y
=============================================================================
