------------------------------ MODULE HashJoin ------------------------------
(***************************************************************************)
(* The last phase of Joiner::join_sol2 (host/database/src/gqe_join.cpp).    *)
(* For each pair of partitions the device builds a hash table from table O's *)
(* and then probes it with table L's, slice by slice; the rows found go to    *)
(* the end of table C.  The slices of all partitions are counted by e_i.      *)
(*                                                                          *)
(* As in PartitionPhase the main thread enqueues everything at once, four    *)
(* threads copy, and only events order it all.  A build has one buffer of    *)
(* each kind, a probe two: one for even and one for odd e_i.                  *)
(*                                                                          *)
(* A buffer holds a partition, or a set of rows <<partition, row>>, or is     *)
(* Torn while it is written; a table is one column, four bytes wide, as the   *)
(* size of a build's copy supposes.  In what order the kernel puts the rows   *)
(* that it finds in a slice is its own.  The threads' std::queues have no     *)
(* lock: push, front and pop are taken to be atomic.                          *)
(***************************************************************************)
EXTENDS Integers, Sequences, FiniteSets

CONSTANTS
  Partitions,  (* partition_num                                             *)
  Slices,      (* slice_num                                                 *)
  HostRows,    (* the rows that a probe_out buffer has place for            *)
  TableRows,   (* the rows that table C has place for                       *)
  Tables       (* table L: how many rows each partition has, and which of all
                  the rows find one of table O                              *)

Parts == 0..(Partitions - 1)
LastSlice == Partitions * Slices - 1
AllSlices == 0..LastSlice

(* With one slice in all the main thread waits for an event that is not there; *)
(* with one partition it sizes a wait list that is not.  testJoin asks for four. *)
(* toutrow has places for 256 partitions in 32 slices each: a slice behind them  *)
(* would have its count in the place of the next partition's first.              *)
ASSUME HashJoinAssumption ==
  /\ Partitions \in Nat /\ Slices \in Nat
  /\ Partitions * Slices > 1
  /\ Partitions <= 256 /\ Slices <= 32
  /\ HostRows \in Nat /\ TableRows \in Nat
  /\ Tables \subseteq [nrow : [Parts -> Nat], matching : SUBSET (Parts \X Nat)]

Torn == -1
TornRows == {<<Torn, Torn>>}
Threads == {"build_in", "probe_in_ping", "probe_in_pong", "probe_out"}

VARIABLES
  p, slice, e_i, step,        (* where the main thread is                   *)
  run,                        (* q4_run, q5_run_ping, q5_run_pong, q6_run   *)
  queue,                      (* q4, q5_ping, q5_pong, q6: p or e_i of each *)
  thread,                     (* where each thread is                       *)
  queued, running, complete,  (* <<kind, p or e_i>>: what has been enqueued,
                                 what has started, and what is complete     *)
  build_in, probe_in, probe_out,              (* the pinned host buffers    *)
  buf_build_in, buf_probe_in, buf_probe_out,  (* the device's side of them  *)
  hj_tmp,                     (* the partition whose hash table is there    *)
  toutrow, probe_out_nrow_accu,
  table_out,                  (* which rows were copied to table C, and where *)
  l_new_part_offset, matching (* what table L is: see Tables                *)

main == <<p, slice, e_i, step, run>>
threads == <<queue, thread>>
events == <<queued, running, complete>>
hostBuffers == <<build_in, probe_in, probe_out>>
deviceBuffers == <<buf_build_in, buf_probe_in, buf_probe_out, hj_tmp>>
tableL == <<l_new_part_offset, matching>>
result == <<toutrow, probe_out_nrow_accu, table_out>>
vars == <<main, threads, events, hostBuffers, deviceBuffers, result, tableL>>

Init ==
  /\ p = 0 /\ slice = 0 /\ e_i = 0 /\ step = "build" /\ run = TRUE
  /\ queue = [t \in Threads |-> <<>>]
  /\ thread = [t \in Threads |-> "idle"]
  /\ queued = {} /\ running = {} /\ complete = {}
  /\ build_in = Torn /\ buf_build_in = Torn /\ hj_tmp = Torn
  /\ probe_in = [k \in {0, 1} |-> TornRows]
  /\ buf_probe_in = [k \in {0, 1} |-> TornRows]
  /\ probe_out = [k \in {0, 1} |-> TornRows]
  /\ buf_probe_out = [k \in {0, 1} |-> TornRows]
  /\ toutrow = [e \in AllSlices |-> 0]
  /\ probe_out_nrow_accu = 0
  /\ table_out = {}
  /\ \E table \in Tables : l_new_part_offset = table.nrow /\ matching = table.matching

-----------------------------------------------------------------------------
(* The slices of a partition: all have the same number of rows except for the *)
(* last, which has the rest.                                                  *)

PartitionOf(e) == e \div Slices
SliceOf(e) == e % Slices
sid(e) == e % 2

per_slice_nrow(q) == (l_new_part_offset[q] + Slices - 1) \div Slices
slice_nrow(q, s) ==
  IF s = Slices - 1 THEN l_new_part_offset[q] - s * per_slice_nrow(q) ELSE per_slice_nrow(q)

(* Where a slice starts. *)
SliceStart(q, s) == per_slice_nrow(q) * s
RowsOfSlice(q, s) == {q} \X (SliceStart(q, s)..(SliceStart(q, s) + slice_nrow(q, s) - 1))

-----------------------------------------------------------------------------
(* What each command and each copy waits for *)

Over(kind, i) == i < 0 \/ <<kind, i>> \in complete

(* The hash table is not built anew before the last slices of the partition  *)
(* before have been probed with it; mutated, before it has been built.        *)
BuildAfterBuild(q) == Over("build_h2d", q) /\ Over("build_krn", q - 1)
BuildMayStart(q) ==
  /\ Over("build_h2d", q) /\ Over("build_krn", q - 1)
  /\ q > 0 => Over("probe_krn", q * Slices - 1)
  /\ q > 1 => Over("probe_krn", q * Slices - 2)

MayStart(kind, i) ==
  /\ kind = "build_memcpy_in" => Over("build_h2d", i - 1)
  /\ kind = "build_h2d" => Over("build_memcpy_in", i) /\ Over("build_krn", i - 1)
  /\ kind = "build_krn" => BuildMayStart(i)
  /\ kind = "probe_memcpy_in" => Over("probe_h2d", i - 2)
  /\ kind = "probe_h2d" => Over("probe_memcpy_in", i) /\ Over("probe_krn", i - 2)
  /\ kind = "probe_krn" =>
       /\ Over("probe_h2d", i) /\ Over("build_krn", PartitionOf(i))
       /\ Over("probe_krn", i - 1) /\ Over("probe_d2h", i - 2)
  /\ kind = "probe_d2h" => Over("probe_krn", i) /\ Over("probe_memcpy_out", i - 2)
  /\ kind = "probe_memcpy_out" => Over("probe_d2h", i)

-----------------------------------------------------------------------------
(* The main thread: all it does for a build, or for a slice, is one step.  It *)
(* reads nothing there that another thread writes.                            *)

BuildCommands == {"build_h2d", "build_krn"}
ProbeCommands == {"probe_h2d", "probe_krn", "probe_d2h"}

(* The assertions on the size of a partition: NDEBUG is not defined.          *)
TooFewRows(q) == l_new_part_offset[q] <= Slices \/ per_slice_nrow(q) <= Slices
AssertionFails ==
  /\ step = "build" /\ TooFewRows(p)
  /\ step' = "exit"
  /\ UNCHANGED <<p, slice, e_i, run, threads, events, hostBuffers, deviceBuffers, result, tableL>>

EnqueueBuild ==
  /\ step = "build" /\ ~TooFewRows(p)
  /\ queue' = [queue EXCEPT !["build_in"] = Append(@, p)]
  /\ queued' = queued \cup BuildCommands \X {p}
  /\ step' = "probe"
  /\ UNCHANGED <<p, slice, e_i, run, thread, running, complete, hostBuffers, deviceBuffers,
                 result, tableL>>

CopiesIn(k) == IF k = 0 THEN "probe_in_ping" ELSE "probe_in_pong"
EnqueueProbe ==
  /\ step = "probe"
  /\ queue' = [t \in Threads |-> IF t \in {CopiesIn(sid(e_i)), "probe_out"}
                                   THEN Append(queue[t], e_i) ELSE queue[t]]
  /\ queued' = queued \cup ProbeCommands \X {e_i}
  /\ e_i' = e_i + 1
  /\ slice' = IF slice + 1 < Slices THEN slice + 1 ELSE 0
  /\ p' = IF slice + 1 < Slices THEN p ELSE p + 1
  /\ step' = IF slice + 1 < Slices THEN "probe"
             ELSE IF p + 1 < Partitions THEN "build" ELSE "wait"
  /\ UNCHANGED <<run, thread, running, complete, hostBuffers, deviceBuffers, result, tableL>>

(* Mutated: the main thread waits until the results are back from the device. *)
LastTransfers == {"probe_d2h"} \X {e_i - 1, e_i - 2}
LastEvents == {"probe_memcpy_out"} \X {e_i - 1, e_i - 2}
WaitForEvents ==
  /\ step = "wait" /\ LastEvents \subseteq complete
  /\ step' = "stop"
  /\ UNCHANGED <<p, slice, e_i, run, threads, events, hostBuffers, deviceBuffers, result, tableL>>

StopThreads ==
  /\ step = "stop"
  /\ run' = FALSE
  /\ step' = "join"
  /\ UNCHANGED <<p, slice, e_i, threads, events, hostBuffers, deviceBuffers, result, tableL>>

JoinThreads ==
  /\ step = "join"
  /\ \A t \in Threads : thread[t] = "end"
  /\ step' = "done"
  /\ UNCHANGED <<p, slice, e_i, run, threads, events, hostBuffers, deviceBuffers, result, tableL>>

-----------------------------------------------------------------------------
(* The threads *)

CopyOf ==
  [build_in |-> "build_memcpy_in", probe_in_ping |-> "probe_memcpy_in",
   probe_in_pong |-> "probe_memcpy_in", probe_out |-> "probe_memcpy_out"]
CopyInThreads == {"probe_in_ping", "probe_in_pong"}
item(t) == Head(queue[t])

(* A thread whose queue is empty may see the flag cleared, whatever is in    *)
(* the queue by then.                                                         *)
End(t) ==
  /\ thread[t] = "idle" /\ ~run
  /\ thread' = [thread EXCEPT ![t] = "end"]
  /\ UNCHANGED <<main, queue, events, hostBuffers, deviceBuffers, result, tableL>>

Take(t) ==
  /\ thread[t] \in {"idle", "front"} /\ queue[t] # <<>>
  /\ MayStart(CopyOf[t], item(t))
  /\ thread' = [thread EXCEPT ![t] = "copy"]
  /\ build_in' = IF t = "build_in" THEN Torn ELSE build_in
  /\ probe_in' = IF t \in CopyInThreads THEN [probe_in EXCEPT ![sid(item(t))] = TornRows]
                 ELSE probe_in
  /\ UNCHANGED <<main, queue, events, probe_out, deviceBuffers, result, tableL>>

(* The user event is completed by hand, and the item leaves the queue: two   *)
(* steps of the code in one, as nobody else looks at the queue between them.  *)
found == probe_out[sid(item("probe_out"))]
CompleteAndPop(t) ==
  /\ complete' = complete \cup {<<CopyOf[t], item(t)>>}
  /\ queue' = [queue EXCEPT ![t] = Tail(@)]
  /\ thread' = [thread EXCEPT ![t] = IF Len(queue[t]) = 1 THEN "idle" ELSE "front"]

CopyBuildIn ==
  /\ thread["build_in"] = "copy"
  /\ build_in' = item("build_in")
  /\ CompleteAndPop("build_in")
  /\ UNCHANGED <<main, queued, running, probe_in, probe_out, deviceBuffers, result, tableL>>

CopyProbeIn(t) ==
  /\ t \in CopyInThreads /\ thread[t] = "copy"
  /\ probe_in' = [probe_in EXCEPT ![sid(item(t))] =
                    RowsOfSlice(PartitionOf(item(t)), SliceOf(item(t)))]
  /\ CompleteAndPop(t)
  /\ UNCHANGED <<main, queued, running, build_in, probe_out, deviceBuffers, result, tableL>>

(* Too many rows for one of the two buffers end the process.                  *)
probe_out_nrow == Cardinality(found)
Fits == probe_out_nrow <= HostRows /\ probe_out_nrow_accu + probe_out_nrow <= TableRows
OutTooLarge ==
  /\ thread["probe_out"] = "copy" /\ ~Fits
  /\ step' = "exit"
  /\ UNCHANGED <<p, slice, e_i, run, threads, events, hostBuffers, deviceBuffers, result, tableL>>

(* The rows found go after those of the slices before.                        *)
CopyOut ==
  /\ thread["probe_out"] = "copy" /\ Fits
  /\ toutrow' = [toutrow EXCEPT ![item("probe_out")] = probe_out_nrow]
  /\ table_out' = table_out \cup {[at |-> probe_out_nrow_accu, rows |-> found]}
  /\ probe_out_nrow_accu' = probe_out_nrow_accu + probe_out_nrow
  /\ CompleteAndPop("probe_out")
  /\ UNCHANGED <<main, queued, running, hostBuffers, deviceBuffers, tableL>>

-----------------------------------------------------------------------------
(* The out-of-order command queue and the device *)

(* A command starts to write its target. *)
Start(kind, i) ==
  /\ <<kind, i>> \in queued /\ MayStart(kind, i)
  /\ queued' = queued \ {<<kind, i>>}
  /\ running' = running \cup {<<kind, i>>}
  /\ buf_build_in' = IF kind = "build_h2d" THEN Torn ELSE buf_build_in
  /\ hj_tmp' = IF kind = "build_krn" THEN Torn ELSE hj_tmp
  /\ buf_probe_in' = IF kind = "probe_h2d" THEN [buf_probe_in EXCEPT ![sid(i)] = TornRows]
                     ELSE buf_probe_in
  /\ buf_probe_out' = IF kind = "probe_krn" THEN [buf_probe_out EXCEPT ![sid(i)] = TornRows]
                      ELSE buf_probe_out
  /\ probe_out' = IF kind = "probe_d2h" THEN [probe_out EXCEPT ![sid(i)] = TornRows]
                  ELSE probe_out
  /\ UNCHANGED <<main, threads, complete, build_in, probe_in, result, tableL>>

Finish(kind, i) ==
  /\ <<kind, i>> \in running
  /\ running' = running \ {<<kind, i>>}
  /\ complete' = complete \cup {<<kind, i>>}
  /\ UNCHANGED <<main, threads, queued, build_in, probe_in, result, tableL>>

TransferBuild(i) ==
  /\ Finish("build_h2d", i)
  /\ buf_build_in' = build_in
  /\ UNCHANGED <<probe_out, buf_probe_in, buf_probe_out, hj_tmp>>

Build(i) ==
  /\ Finish("build_krn", i)
  /\ hj_tmp' = buf_build_in
  /\ UNCHANGED <<probe_out, buf_build_in, buf_probe_in, buf_probe_out>>

TransferProbe(i) ==
  /\ Finish("probe_h2d", i)
  /\ buf_probe_in' = [buf_probe_in EXCEPT ![sid(i)] = probe_in[sid(i)]]
  /\ UNCHANGED <<probe_out, buf_build_in, buf_probe_out, hj_tmp>>

Matched(row) == row \in matching
Found(row) == Matched(row) /\ row[1] = hj_tmp
Probe(i) ==
  /\ Finish("probe_krn", i)
  /\ buf_probe_out' = [buf_probe_out EXCEPT ![sid(i)] = {row \in buf_probe_in[sid(i)] : Found(row)}]
  /\ UNCHANGED <<probe_out, buf_build_in, buf_probe_in, hj_tmp>>

TransferBack(i) ==
  /\ Finish("probe_d2h", i)
  /\ probe_out' = [probe_out EXCEPT ![sid(i)] = buf_probe_out[sid(i)]]
  /\ UNCHANGED deviceBuffers

-----------------------------------------------------------------------------
MainThread ==
  \/ AssertionFails \/ EnqueueBuild \/ EnqueueProbe
  \/ WaitForEvents \/ StopThreads \/ JoinThreads
Thread(t) == End(t) \/ Take(t) \/ CopyProbeIn(t)
Copying == CopyBuildIn \/ OutTooLarge \/ CopyOut
Execute(i) ==
  TransferBuild(i) \/ Build(i) \/ TransferProbe(i) \/ Probe(i) \/ TransferBack(i)
Commands == (BuildCommands \X Parts) \cup (ProbeCommands \X AllSlices)

Running == step \notin {"done", "exit"}
Finished == ~Running /\ UNCHANGED vars

Next ==
  \/ Running /\ MainThread
  \/ Running /\ \E t \in Threads : Thread(t)
  \/ Running /\ Copying
  \/ Running /\ \E c \in queued : Start(c[1], c[2])
  \/ Running /\ \E c \in running : Execute(c[2])
  \/ Finished

Spec == Init /\ [][Next]_vars

-----------------------------------------------------------------------------
(* Properties *)

(* The hash table is the one of the slice's partition, complete, as long as  *)
(* the slice is probed with it.                                               *)
HashTableKept ==
  \A e \in AllSlices : <<"probe_krn", e>> \in running => hj_tmp = PartitionOf(e)

(* At the end table C has, partition by partition and slice by slice, every  *)
(* row of table L that finds one, once, and its number of rows is theirs:     *)
(* nothing is lost between slices of uneven size, and nothing is taken from   *)
(* a buffer or a hash table that another slice has overwritten.  A sum of     *)
(* numbers of rows is the number of pairs of a slice and a row's number.      *)
Matches == {row \in matching : row[2] < l_new_part_offset[row[1]]}
Precedes(r, s) == r[1] < s[1] \/ (r[1] = s[1] /\ r[2] < s[2])
Follows(x, y) ==
  /\ x.at + Cardinality(x.rows) <= y.at
  /\ \A r \in x.rows, s \in y.rows : Precedes(r, s)
RowsOut == UNION {{e} \X (1..toutrow[e]) : e \in AllSlices}
out_nrow_sum == Cardinality(RowsOut)
JoinCorrect ==
  step = "done" =>
    /\ UNION {x.rows : x \in table_out} = Matches
    /\ \A x, y \in table_out : x = y \/ Follows(x, y) \/ Follows(y, x)
    /\ \A x \in table_out : x.at + Cardinality(x.rows) <= out_nrow_sum
    /\ out_nrow_sum = Cardinality(Matches)

(* No thread leaves work behind, and nothing is still running when the        *)
(* buffers are released, although only two events are waited for.             *)
NoWorkLeft ==
  step = "done" =>
    /\ \A t \in Threads : queue[t] = <<>>
    /\ queued = {} /\ running = {} /\ Commands \subseteq complete

=============================================================================
