----------------------------- MODULE MultiProbe -----------------------------
(***************************************************************************)
(* Joiner::join_sol1 (host/database/src/gqe_join.cpp): the device builds one  *)
(* hash table from all of table O, and probes it with table L slice by slice. *)
(*                                                                          *)
(* One thread does it all.  It copies a slice in and enqueues its transfer    *)
(* while the slices before are probed, takes out the result of the slice      *)
(* before the last, and then enqueues the slice's kernel and the transfer     *)
(* back.  Every buffer of a slice exists twice.                              *)
(*                                                                          *)
(* A buffer holds the numbers of rows of table L, or is torn while it is      *)
(* written; the hash table is there (0) or torn.  In what order the kernel    *)
(* puts the rows that it finds in a slice is its own.                         *)
(***************************************************************************)
EXTENDS Integers, FiniteSets

CONSTANTS
  Slices,     (* slice_num                                                  *)
  TableRows,  (* the rows that table C has place for                        *)
  Tables      (* table L: its number of rows, and which rows find one of
                 table O, those behind its end included                      *)

Torn == -1
TornRows == {Torn}
AllSlices == 0..(Slices - 1)

VARIABLES
  i, step,                    (* where the thread is                        *)
  queued, running, complete,  (* the commands, with their slices            *)
  table_o, table_l, table_out,            (* the host buffers               *)
  buf_table_o, buf_table_l, buf_table_out,  (* the device's side of them     *)
  buf_tmp,                    (* the hash table                             *)
  nrow_all_results, probe_out_nrow_accu,
  table_out_user,             (* which rows were copied to table C, and where *)
  table_l_nrow, matching      (* what table L is: see Tables                *)

events == <<queued, running, complete>>
hostBuffers == <<table_o, table_l, table_out>>
deviceBuffers == <<buf_table_o, buf_table_l, buf_table_out, buf_tmp>>
result == <<nrow_all_results, probe_out_nrow_accu, table_out_user>>
tableL == <<table_l_nrow, matching>>
vars == <<i, step, events, hostBuffers, deviceBuffers, result, tableL>>

Init ==
  /\ i = 0 /\ step = "build"
  /\ queued = {} /\ running = {} /\ complete = {}
  /\ table_o = Torn /\ buf_table_o = Torn /\ buf_tmp = Torn
  /\ table_l = [k \in {0, 1} |-> TornRows]
  /\ buf_table_l = [k \in {0, 1} |-> TornRows]
  /\ table_out = [k \in {0, 1} |-> TornRows]
  /\ buf_table_out = [k \in {0, 1} |-> TornRows]
  /\ nrow_all_results = [s \in AllSlices |-> 0]
  /\ probe_out_nrow_accu = 0
  /\ table_out_user = {}
  /\ \E table \in Tables : table_l_nrow = table.nrow /\ matching = table.matching

k_id(s) == s % 2
Over(kind, s) == s < 0 \/ <<kind, s>> \in complete

(* All slices have the same number of rows, and so the last one may end       *)
(* behind the table.                                                          *)
table_l_slice_nrow == (table_l_nrow + Slices - 1) \div Slices
RowsOfSlice(s) == (s * table_l_slice_nrow)..((s + 1) * table_l_slice_nrow - 1)

-----------------------------------------------------------------------------
(* The thread *)

BuildTable ==
  /\ step = "build"
  /\ table_o' = 0
  /\ queued' = {<<"o_h2d", 0>>, <<"o_krn", 0>>}
  /\ step' = "built"
  /\ UNCHANGED <<i, running, complete, table_l, table_out, deviceBuffers, result, tableL>>

WaitForBuild ==
  /\ step = "built" /\ Over("o_krn", 0)
  /\ step' = "wait"
  /\ UNCHANGED <<i, events, hostBuffers, deviceBuffers, result, tableL>>

(* The host buffer is copied to when the slice that was in it before has been *)
(* probed; mutated, at once.                                                  *)
MayCopyAtOnce(s) == TRUE
MayCopy(s) == Over("l_krn", s - 2)
WaitForProbe ==
  /\ step = "wait" /\ MayCopy(i)
  /\ table_l' = IF i < Slices THEN [table_l EXCEPT ![k_id(i)] = TornRows] ELSE table_l
  /\ step' = IF i < Slices THEN "copy" ELSE "results"
  /\ UNCHANGED <<i, events, table_o, table_out, deviceBuffers, result, tableL>>

CopySlice ==
  /\ step = "copy"
  /\ table_l' = [table_l EXCEPT ![k_id(i)] = RowsOfSlice(i)]
  /\ queued' = queued \cup {<<"l_h2d", i>>}
  /\ step' = "results"
  /\ UNCHANGED <<i, running, complete, table_o, table_out, deviceBuffers, result, tableL>>

(* The rows found go after those of the slices before.  Nothing keeps them     *)
(* from going behind the end of table C; what happens then is open.           *)
found == table_out[k_id(i)]
probe_out_nrow == Cardinality(found)
TakeResult ==
  /\ step = "results" /\ i > 1 /\ Over("l_d2h", i - 2)
  /\ nrow_all_results' = [nrow_all_results EXCEPT ![i - 2] = probe_out_nrow]
  /\ table_out_user' = table_out_user \cup {[at |-> probe_out_nrow_accu, rows |-> found]}
  /\ probe_out_nrow_accu' = probe_out_nrow_accu + probe_out_nrow
  /\ step' = IF probe_out_nrow_accu' <= TableRows THEN "launch" ELSE "lost"
  /\ UNCHANGED <<i, events, hostBuffers, deviceBuffers, tableL>>

NoResult ==
  /\ step = "results" /\ i <= 1
  /\ step' = "launch"
  /\ UNCHANGED <<i, events, hostBuffers, deviceBuffers, result, tableL>>

Rounds == Slices + 2
Launch ==
  /\ step = "launch"
  /\ queued' = IF i < Slices THEN queued \cup {<<"l_krn", i>>, <<"l_d2h", i>>} ELSE queued
  /\ i' = i + 1
  /\ step' = IF i + 1 < Rounds THEN "wait" ELSE "done"
  /\ UNCHANGED <<running, complete, hostBuffers, deviceBuffers, result, tableL>>

-----------------------------------------------------------------------------
(* The out-of-order command queue and the device *)

MayStart(kind, s) ==
  /\ kind = "o_krn" => Over("o_h2d", s)
  /\ kind = "l_h2d" => Over("l_krn", s - 2)
  /\ kind = "l_krn" => Over("l_h2d", s) /\ Over("l_krn", s - 1)
  /\ kind = "l_d2h" => Over("l_krn", s)

(* A command starts to write its target. *)
TornIf(writes, buffer, s) == IF writes THEN [buffer EXCEPT ![k_id(s)] = TornRows] ELSE buffer
Start(kind, s) ==
  /\ <<kind, s>> \in queued /\ MayStart(kind, s)
  /\ queued' = queued \ {<<kind, s>>}
  /\ running' = running \cup {<<kind, s>>}
  /\ buf_table_l' = TornIf(kind = "l_h2d", buf_table_l, s)
  /\ buf_table_out' = TornIf(kind = "l_krn", buf_table_out, s)
  /\ table_out' = TornIf(kind = "l_d2h", table_out, s)
  /\ UNCHANGED <<i, step, complete, table_o, table_l, buf_table_o, buf_tmp, result, tableL>>

Finish(kind, s) ==
  /\ <<kind, s>> \in running
  /\ running' = running \ {<<kind, s>>}
  /\ complete' = complete \cup {<<kind, s>>}
  /\ UNCHANGED <<i, step, queued, table_o, table_l, result, tableL>>

TransferBuild ==
  /\ Finish("o_h2d", 0)
  /\ buf_table_o' = table_o
  /\ UNCHANGED <<table_out, buf_table_l, buf_table_out, buf_tmp>>

Build ==
  /\ Finish("o_krn", 0)
  /\ buf_tmp' = buf_table_o
  /\ UNCHANGED <<table_out, buf_table_o, buf_table_l, buf_table_out>>

TransferSlice(s) ==
  /\ Finish("l_h2d", s)
  /\ buf_table_l' = [buf_table_l EXCEPT ![k_id(s)] = table_l[k_id(s)]]
  /\ UNCHANGED <<table_out, buf_table_o, buf_table_out, buf_tmp>>

Matched(row) == row \in matching
Found(row) == Matched(row) /\ buf_tmp # Torn
Probe(s) ==
  /\ Finish("l_krn", s)
  /\ buf_table_out' = [buf_table_out EXCEPT ![k_id(s)] = {row \in buf_table_l[k_id(s)] : Found(row)}]
  /\ UNCHANGED <<table_out, buf_table_o, buf_table_l, buf_tmp>>

TransferBack(s) ==
  /\ Finish("l_d2h", s)
  /\ table_out' = [table_out EXCEPT ![k_id(s)] = buf_table_out[k_id(s)]]
  /\ UNCHANGED deviceBuffers

-----------------------------------------------------------------------------
MainThread ==
  \/ BuildTable \/ WaitForBuild
  \/ WaitForProbe \/ CopySlice \/ TakeResult \/ NoResult \/ Launch
Device ==
  \/ \E c \in queued : Start(c[1], c[2])
  \/ TransferBuild \/ Build
  \/ \E s \in AllSlices : TransferSlice(s) \/ Probe(s) \/ TransferBack(s)

Stopped == step \in {"done", "lost"} /\ UNCHANGED vars
Next == (step # "lost" /\ (MainThread \/ Device)) \/ Stopped
Spec == Init /\ [][Next]_vars

-----------------------------------------------------------------------------
(* Properties *)

(* At the end table C has, slice by slice, every row of table L that finds    *)
(* one, once, and its number of rows is that of the results.  There are no    *)
(* more, if the slices fill the table; if they do not, those behind its end    *)
(* that seem to find one follow.  A sum of numbers of rows is the number of   *)
(* pairs of a slice and a row's number.                                       *)
Matches == {row \in matching : row < table_l_nrow}
Follows(x, y) ==
  /\ x.at + Cardinality(x.rows) <= y.at
  /\ \A r \in x.rows, s \in y.rows : r < s
Copied == UNION {x.rows : x \in table_out_user}
RowsOut == UNION {{s} \X (1..nrow_all_results[s]) : s \in AllSlices}
out_nrow_sum == Cardinality(RowsOut)
JoinCorrect ==
  step = "done" =>
    /\ Matches \subseteq Copied
    /\ table_l_nrow % Slices = 0 => Copied = Matches
    /\ \A x, y \in table_out_user : x = y \/ Follows(x, y) \/ Follows(y, x)
    /\ \A x \in table_out_user : x.at + Cardinality(x.rows) <= out_nrow_sum
    /\ out_nrow_sum = Cardinality(Copied)

(* Nothing is still running when the buffers are released: the loop goes on     *)
(* for as many rounds as results are behind the slices.                       *)
NoWorkLeft == step = "done" => queued = {} /\ running = {}
=============================================================================
