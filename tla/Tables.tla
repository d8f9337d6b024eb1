-------------------------------- MODULE Tables --------------------------------
(***************************************************************************)
(* Database tables as functions from a key - the primary key, or the start *)
(* of a bucket - to what the row holds.                                    *)
(***************************************************************************)
EXTENDS Integers, FiniteSetsExt

PartialFun(S, T) == UNION {[D -> T] : D \in SUBSET S}

EmptyFun == [x \in {} |-> x]

Put(f, x, v) == [y \in DOMAIN f \cup {x} |-> IF y = x THEN v ELSE f[y]]

Without(f, x) == [y \in DOMAIN f \ {x} |-> f[y]]

\* Mutant: rows that are not there are inserted.
Upserted(f, g) == [x \in DOMAIN f \cup DOMAIN g |-> IF x \in DOMAIN g THEN g[x] ELSE f[x]]

\* Rows of f rewritten by those of g that f has: an UPDATE.
Updated(f, g) == [x \in DOMAIN f |-> IF x \in DOMAIN g THEN g[x] ELSE f[x]]

Within(f, from, to) == [x \in {y \in DOMAIN f : from <= y /\ y < to} |-> f[x]]

\* SUM over a column.
Total(f) == MapThenSumSet(LAMBDA x : f[x], DOMAIN f)

\* Rows are corrected oldest first.
Oldest(rows) == CHOOSE r \in rows : \A s \in rows : r <= s

=============================================================================
