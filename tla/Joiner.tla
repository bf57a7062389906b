------------------------------- MODULE Joiner -------------------------------
(***************************************************************************)
(* Joiner::join_all (host/database/src/gqe_join.cpp): the join in the         *)
(* solution that the strategy has chosen, one build and many probes (1) or     *)
(* the join of partitions (2), of which PartitionPhase has the first phases    *)
(* and HashJoin the last.  The direct join (0) waits for every command and is  *)
(* left out.                                                                  *)
(***************************************************************************)
EXTENDS HashJoin

CONSTANTS ProbeSlices, ProbeTables  (* Slices and Tables of MultiProbe       *)

(* With no slice join_sol1 divides by zero.                                   *)
ASSUME JoinerAssumption ==
  /\ ProbeSlices \in Nat \ {0}
  /\ ProbeTables \subseteq [nrow : Nat, matching : SUBSET Nat]

VARIABLE solution

(* What the two have in common goes by HashJoin's names. *)
M == INSTANCE MultiProbe WITH
  Slices <- ProbeSlices, Tables <- ProbeTables, i <- e_i,
  table_o <- build_in, table_l <- probe_in, table_out <- probe_out,
  buf_table_o <- buf_build_in, buf_table_l <- buf_probe_in, buf_table_out <- buf_probe_out,
  buf_tmp <- hj_tmp, nrow_all_results <- toutrow, table_out_user <- table_out,
  table_l_nrow <- l_new_part_offset

partitioned == <<p, slice, run, threads>>
joinVars == <<solution, vars>>

JoinInit ==
  \/ /\ solution = 1 /\ M!Init
     /\ p = 0 /\ slice = 0 /\ run = TRUE
     /\ queue = [t \in Threads |-> <<>>] /\ thread = [t \in Threads |-> "idle"]
  \/ solution = 2 /\ Init

join_sol1 == solution = 1 /\ M!Next /\ UNCHANGED <<solution, partitioned>>
join_sol2 == solution = 2 /\ Next /\ UNCHANGED solution
JoinNext == join_sol1 \/ join_sol2

JoinSpec == JoinInit /\ [][JoinNext]_joinVars

-----------------------------------------------------------------------------
(* Properties *)

(* At the end table C has every match once and in order, in either solution:  *)
(* see MultiProbe and HashJoin.                                               *)
MatchesOnce ==
  /\ solution = 1 => M!JoinCorrect
  /\ solution = 2 => JoinCorrect

(* Nothing is left in a queue or still running when the buffers are released,  *)
(* although join_sol2 waits for the last two results only.                    *)
NothingLeft ==
  /\ solution = 1 => M!NoWorkLeft
  /\ solution = 2 => NoWorkLeft
=============================================================================
