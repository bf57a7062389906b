----------------------------- MODULE AggrPhase ------------------------------
(***************************************************************************)
(* The pipelined aggregations of host/database/src/gqe_aggr.cpp: sections of  *)
(* the table (Aggregator::aggr_sol1) or partitions of it (the second part of  *)
(* aggr_sol2) go through the pipeline of PingPong with the kernel gqeAggr.    *)
(*                                                                          *)
(* The first solution merges the groups that a section yields into a map of   *)
(* the thread that takes them out, and the two maps when the threads are       *)
(* joined.  In the second one groups of two partitions are never the same,    *)
(* and the threads copy the columns of the results one after the other to      *)
(* buffers that both share.                                                  *)
(*                                                                          *)
(* The result for a section is the function from its groups to a sum; in the  *)
(* second solution its rows are named by section and number.  A sum is        *)
(* unsigned, as in the code (gqe_aggr.cpp:510), without the limit of 64 bits.  *)
(***************************************************************************)
EXTENDS PingPong, FiniteSets, Functions

CONSTANTS
  Columns,   (* the output columns that are written                         *)
  Inputs,    (* what may be aggregated                                      *)
  ResRows    (* the rows there is place for in a buffer of results          *)

(* The arrays of buffers have eight columns in and sixteen out, the counts of   *)
(* the partitions have 256 places.                                            *)
ASSUME AggrAssumption ==
  /\ Columns \in 1..16
  /\ ResRows \in Nat
  /\ \A i \in Inputs :
       /\ i.solution \in {1, 2}
       /\ i.solution = 2 => Sections <= 256
       /\ \E ncol \in 1..8 : i.tab_in_col_size \in [0..(ncol - 1) -> Nat \ {0}]
       /\ DOMAIN i.tab_in = Secs
       /\ \A s \in Secs : LET groups == DOMAIN i.tab_in[s]
                         IN  IsFiniteSet(groups) /\ i.tab_in[s] \in [groups -> Nat]

Cols == 0..(Columns - 1)
Places == 0..(ResRows - 1)

VARIABLES
  input,          (* the solution (1 or 2); tab_in, for each section its    *)
                  (* groups and their sums; tab_in_col_size, the columns'   *)
                  (* widths; whether no group key is in several columns     *)
  results,        (* what the kernel made of each section                   *)
  work, col, offset,  (* where each out thread is with a result             *)
  merge_map,      (* ping_merge_map and pong_merge_map                      *)
  aggr_sum_nrow,
  tab_aggr_res_col,   (* the buffers of results of the second solution      *)
  tab_out_nrow,   (* the rows of the output, -1 until it is written         *)
  overlapped      (* history: both threads were copying at the same time    *)

solution == input.solution
tab_in == input.tab_in
widths == input.tab_in_col_size
locals == <<work, col, offset>>
output == <<merge_map, aggr_sum_nrow, tab_aggr_res_col>>
own == <<input, results, locals, output, tab_out_nrow, overlapped>>
vars == <<pipe, own>>

NoGroups == [g \in {} |-> 0]

Init ==
  /\ PipeInit /\ lanes = 2
  /\ input \in Inputs
  /\ results = [s \in Secs |-> NoGroups]
  /\ work = [k \in Lanes |-> "offset"]
  /\ col = [k \in Lanes |-> 0]
  /\ offset = [k \in Lanes |-> 0]
  /\ merge_map = [k \in Lanes |-> NoGroups]
  /\ aggr_sum_nrow = 0
  /\ tab_aggr_res_col = [c \in Cols |-> [x \in Places |-> <<>>]]
  /\ tab_out_nrow = -1
  /\ overlapped = FALSE

-----------------------------------------------------------------------------
(* The kernel *)

(* aggr_sol1 copies the same number of bytes of every column: the size of a   *)
(* section of the column whose number is the section's.  Of a wider column     *)
(* that is not the whole section, and of a narrower one it is more than its    *)
(* buffer has place for; behind the last column there is no size to be read.   *)
CopiedWhole ==
  \/ solution = 2
  \/ Secs \subseteq DOMAIN widths /\ \A i, j \in DOMAIN widths : widths[i] = widths[j]

(* Otherwise the buffers hold rows of other sections, or what another column   *)
(* has left there: what the kernel makes of them may be any section's result.  *)
Aggregate(s) ==
  /\ Kernel(s)
  /\ \E r \in IF CopiedWhole THEN {tab_in[s]} ELSE Range(tab_in) : results' = [results EXCEPT ![s] = r]
  /\ UNCHANGED <<input, locals, output, tab_out_nrow, overlapped>>

-----------------------------------------------------------------------------
(* The threads that take results out *)

result(k) ==
  IF host_out[kid(section(k))] = Torn THEN NoGroups ELSE results[host_out[kid(section(k))]]
nrow(k) == Cardinality(DOMAIN result(k))

TakeOut(k) ==
  /\ OutWait(k)
  /\ work' = [work EXCEPT ![k] = "offset"]
  /\ col' = [col EXCEPT ![k] = 0]
  /\ overlapped' = (overlapped \/ \E other \in Lanes \ {k} : outThread[other] = "work")
  /\ UNCHANGED <<input, results, offset, output, tab_out_nrow>>

(* The value of a group that is there already is added to.                   *)
AtGroup(map, g) == IF g \in DOMAIN map THEN map[g] ELSE 0
Merged(map, new) ==
  [g \in DOMAIN map \cup DOMAIN new |-> AtGroup(map, g) + AtGroup(new, g)]
OutMerge(k) ==
  /\ solution = 1 /\ OutDone(k)
  /\ nrow(k) > 0 => input.grp_keys_first
  /\ merge_map' = [merge_map EXCEPT ![k] = Merged(@, result(k))]
  /\ aggr_sum_nrow' = aggr_sum_nrow + nrow(k)
  /\ UNCHANGED <<input, results, locals, tab_aggr_res_col, tab_out_nrow, overlapped>>

OutKeyTooWide(k) ==
  /\ solution = 1 /\ OutExit(k)
  /\ nrow(k) > 0 /\ ~input.grp_keys_first
  /\ UNCHANGED own

(* Before each column the number of rows is read; the rows go to that place,  *)
(* whatever has been added since.  The number of rows of this result is added *)
(* after the last column.                                                    *)
Copying(k) == outThread[k] = "work" /\ solution = 2

OutOffset(k) ==
  /\ Copying(k) /\ work[k] = "offset" /\ col[k] \in Cols
  /\ offset' = [offset EXCEPT ![k] = aggr_sum_nrow]
  /\ work' = [work EXCEPT ![k] = "copy"]
  /\ UNCHANGED <<pipe, input, results, col, output, tab_out_nrow, overlapped>>

Place(k) == offset[k]
OutCopy(k) ==
  /\ Copying(k) /\ work[k] = "copy"
  /\ tab_aggr_res_col' = [tab_aggr_res_col EXCEPT ![col[k]] =
       [x \in Places |-> IF x \in Place(k)..(Place(k) + nrow(k) - 1)
                           THEN <<section(k), x - Place(k)>> ELSE @[x]]]
  /\ col' = [col EXCEPT ![k] = @ + 1]
  /\ work' = [work EXCEPT ![k] = "offset"]
  /\ UNCHANGED <<pipe, input, results, offset, merge_map, aggr_sum_nrow, tab_out_nrow, overlapped>>

(* Mutated: the number read before the last column is added to, or the sum is *)
(* replaced.                                                                  *)
SumOfRead(k) == offset[k] + nrow(k)
OnlyThisResult(k) == nrow(k)
NewSum(k) == aggr_sum_nrow + nrow(k)
OutSum(k) ==
  /\ Copying(k) /\ work[k] = "offset" /\ col[k] = Columns
  /\ OutDone(k)
  /\ aggr_sum_nrow' = NewSum(k)
  /\ UNCHANGED <<input, results, locals, merge_map, tab_aggr_res_col, tab_out_nrow, overlapped>>

-----------------------------------------------------------------------------
(* The main thread writes the output when the threads are joined.            *)

(* Mutated: of a group that both maps have the second value is kept.         *)
Replaced(map, new) ==
  [g \in DOMAIN map \cup DOMAIN new |-> IF g \in DOMAIN new THEN new[g] ELSE map[g]]
Joined(map, new) == Merged(map, new)
Output ==
  /\ step = "done" /\ tab_out_nrow = -1
  /\ \/ /\ solution = 1
        /\ merge_map' = [merge_map EXCEPT ![0] = Joined(@, merge_map[1])]
        /\ tab_out_nrow' = Cardinality(DOMAIN merge_map'[0])
     \/ solution = 2 /\ tab_out_nrow' = aggr_sum_nrow /\ UNCHANGED merge_map
  /\ UNCHANGED <<pipe, input, results, locals, aggr_sum_nrow, tab_aggr_res_col, overlapped>>

-----------------------------------------------------------------------------
MainLoop == Running /\ MainThread /\ UNCHANGED own
OutThread(k) ==
  \/ OutLoop(k) /\ UNCHANGED own
  \/ TakeOut(k) \/ OutMerge(k) \/ OutKeyTooWide(k)
  \/ OutOffset(k) \/ OutCopy(k) \/ OutSum(k)
Execute(s) ==
  \/ (Transfer(s) \/ TransferBack(s)) /\ UNCHANGED own
  \/ Aggregate(s)

Finished ==
  /\ step = "exit" \/ tab_out_nrow # -1
  /\ UNCHANGED vars

Next ==
  \/ MainLoop \/ Output
  \/ Running /\ \E k \in Lanes : InThread(k) /\ UNCHANGED own
  \/ Running /\ \E k \in Lanes : OutThread(k)
  \/ Running /\ \E s \in Secs, c \in Commands : Start(c, s) /\ UNCHANGED own
  \/ Running /\ \E s \in Secs : Execute(s)
  \/ Finished

Spec == Init /\ [][Next]_vars

(* Every thread runs, and the queue executes every command whose events are  *)
(* complete.                                                                  *)
FairSpec ==
  /\ Spec
  /\ WF_vars(MainLoop) /\ WF_vars(Output)
  /\ \A k \in {0, 1} :
       /\ WF_vars(Running /\ InThread(k) /\ UNCHANGED own)
       /\ WF_vars(Running /\ OutThread(k))
  /\ \A s \in Secs :
       /\ WF_vars(Running /\ Execute(s))
       /\ \A c \in Commands : WF_vars(Running /\ Start(c, s) /\ UNCHANGED own)

-----------------------------------------------------------------------------
(* Properties *)

(* The first solution adds up every group over the sections that have it, in  *)
(* whichever map it was, if the columns have one width and there are no more   *)
(* sections than columns, so that sections are copied whole.                  *)
(* A sum over sections is the number of their units, named by the section.    *)
GroupsOf(table, sections) == UNION {DOMAIN table[s] : s \in sections}
Units(table, sections, g) == UNION {{s} \X (1..AtGroup(table[s], g)) : s \in sections}
Totals(table, sections) ==
  [g \in GroupsOf(table, sections) |-> Cardinality(Units(table, sections, g))]
GroupsAddUp ==
  tab_out_nrow # -1 /\ solution = 1 /\ CopiedWhole =>
    merge_map[0] = Totals(tab_in, Secs)

(* The second solution counts the groups of all partitions, although both     *)
(* threads add to the sum.                                                   *)
RowsIn(sections) == UNION {{s} \X DOMAIN results[s] : s \in sections}
AllRows == Cardinality(RowsIn(Secs))
RowsCounted == tab_out_nrow # -1 /\ solution = 2 => tab_out_nrow = AllRows

(* As long as the two threads did not copy at the same time and the buffers   *)
(* have place for all, the rows of a result are in all columns at the same    *)
(* place, one after the other.                                               *)
RowsOfResult(s) == 0..(Cardinality(DOMAIN results[s]) - 1)
RowsAligned ==
  solution = 2 /\ ~overlapped /\ AllRows <= ResRows =>
    \A s \in memcpy_out :
      \E x \in 0..ResRows :
        \A c \in Cols, i \in RowsOfResult(s) :
          x + i \in Places /\ tab_aggr_res_col[c][x + i] = <<s, i>>

(* The aggregation ends. *)
Ends == <>(step = "exit" \/ tab_out_nrow # -1)
=============================================================================
