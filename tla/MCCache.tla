------------------------------ MODULE MCCache ------------------------------
(* Two web threads, two hours, a cap of one hour for a bulk correction.    *)
EXTENDS StatisticsCache, TLC

CONSTANTS t1, t2, h1, h2

=============================================================================
