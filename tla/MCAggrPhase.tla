---------------------------- MODULE MCAggrPhase -----------------------------
(* Model values for the run of AggrPhase. *)
EXTENDS AggrPhase

(* Group "a" is in every section, "b" in sections of both threads; and more    *)
(* groups than the buffers of results have place for; and two sections with    *)
(* the same groups, as a result that may be any has then two values only.      *)
Few == <<[g \in {"a"} |-> 1], [g \in {"a", "b"} |-> 2], [g \in {"a", "b"} |-> 4]>>
Alike == <<[g \in {"a"} |-> 1], [g \in {"a", "b"} |-> 2], [g \in {"a", "b"} |-> 2]>>
Many == <<[g \in {"a"} |-> 1], [g \in {"b", "c", "d"} |-> 2], [g \in {"e", "f"} |-> 4]>>

(* The widths of the columns are all the same; or there are as many columns as  *)
(* sections, but the last is narrower than the others; or there are fewer, and   *)
(* the second is the wider one.                                               *)
Same == [i \in 0..2 |-> 4]
Narrow == [i \in 0..2 |-> IF i = 2 THEN 4 ELSE 8]
Different == [i \in 0..1 |-> 4 * (i + 1)]

Case(n, table, layout, first) ==
  [solution |-> n, tab_in |-> [s \in Secs |-> table[s + 1]],
   tab_in_col_size |-> layout, grp_keys_first |-> first]
MCInputs ==
  {Case(1, Few, Same, TRUE), Case(1, Alike, Narrow, TRUE), Case(1, Alike, Different, TRUE),
   Case(1, Few, Same, FALSE),
   Case(2, Few, Same, TRUE), Case(2, Many, Same, TRUE)}
=============================================================================
