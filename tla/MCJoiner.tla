------------------------------ MODULE MCJoiner ------------------------------
(* Model values for the run of Joiner. *)
EXTENDS Joiner

Table(nrow, some) ==
  [nrow |-> nrow,
   matching |-> {row \in UNION {{q} \X (0..(nrow[q] - 1)) : q \in Parts} : row \in some}]

(* The smallest partitions there can be, of two sizes: of the slices some    *)
(* match in full, some in part and some not at all.                           *)
Small == [q \in Parts |-> IF q = 1 THEN 6 ELSE 5]
Some == {0} \X Nat \cup {1} \X {2} \cup {2} \X {2, 3} \cup {3} \X {4}

(* One slice finds more rows than its buffer has place for; the next partition *)
(* is too small, so that the process ends before the third.                   *)
Large == [q \in Parts |-> IF q = 0 THEN 8 ELSE 2]

(* The last partition is too small.  Until the main thread finds that, each   *)
(* slice has place in its buffer, but table C is full in the second partition. *)
TooSmall == [q \in Parts |-> IF q = 3 THEN 2 ELSE 5]
All == Parts \X Nat

MCTables == {Table(Small, Some), Table(Large, {0} \X Nat), Table(TooSmall, All)}

(* One build: slices that fill the table and slices that do not, of which one    *)
(* or two end behind the table, and a table with more matches than table C has  *)
(* place for.                                                                 *)
One(nrow, some) == [nrow |-> nrow, matching |-> some]
MCProbeTables ==
  {One(n, some) : n \in 6..8, some \in {0..7, {0, 3, 4, 7}, {1, 2, 6}, {5}}} \cup {One(12, 0..11)}
=============================================================================
