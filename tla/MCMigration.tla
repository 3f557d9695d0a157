---------------------------- MODULE MCMigration ----------------------------
(***************************************************************************)
(* Migration for TLC: two files of three lines with records of three       *)
(* heights, two of them of one height, and bad lines, in every arrangement. *)
(***************************************************************************)
EXTENDS Migration

CONSTANTS r1, r2, r3, r4

Heights == [r \in Record |-> CASE r \in {r1, r2} -> 1 [] r = r3 -> 2 [] OTHER -> 3]

Lines == [1 .. 3 -> Record \cup {Bad}]
OnceEach(f) == \A k, j \in 1 .. 3 : f[k] = f[j] /\ f[k] # Bad => k = j
Below(f, e) == \A k, j \in 1 .. 3 :
                 f[k] # Bad /\ e[j] # Bad => HeightOf[f[k]] < HeightOf[e[j]]

Arrangements ==
  LET one == {f \in Lines : OnceEach(f) /\ \E k \in 1 .. 3 : f[k] # Bad}
  IN  {fs \in one \X one : Below(fs[1], fs[2])}
=============================================================================
