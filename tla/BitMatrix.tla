------------------------------ MODULE BitMatrix ------------------------------
(***************************************************************************)
(* Square bit matrices: the set of the bits that are set, each the pair of *)
(* its row and its column.                                                 *)
(***************************************************************************)
EXTENDS Naturals

Row(matrix, row) == {bit[2] : bit \in {b \in matrix : b[1] = row}}

\* transitive_closure: pass k adds row k to every row that has bit k.  The passes
\* are made in place, but row k is not changed by pass k.
TransitiveClosure(matrix, size) ==
    LET pass[k \in 0 .. size] ==
            IF k = 0 THEN matrix
            ELSE LET before == pass[k - 1]
                 IN  before \cup {row \in 1 .. size : <<row, k>> \in before} \X Row(before, k)
    IN  pass[size]
=============================================================================
