--------------------------- MODULE PartitionPhase ---------------------------
(***************************************************************************)
(* The first two phases of Joiner::join_sol2 (host/database/src/            *)
(* gqe_join.cpp), and the first of the aggregation's third solution          *)
(* (gqe_aggr.cpp), which does the same as the second: a table goes through   *)
(* the pipeline of PingPong with the kernel gqePart, and the rows of all      *)
(* sections that belong to one partition are gathered in one buffer.         *)
(*                                                                          *)
(* A partition's buffer is gathered as one column whose rows are named by    *)
(* their section.                                                             *)
(***************************************************************************)
EXTENDS PingPong, FiniteSets

CONSTANTS
  Partitions,  (* partition_num                                             *)
  MaxRows,     (* o_ and l_partition_out_col_part_nrow_max                  *)
  Results      (* the rows of each partition that a section may have        *)

(* The arrays of the partitions' offsets have 256 places.                      *)
ASSUME PartitionAssumption ==
  /\ Partitions \in 1..256
  /\ MaxRows \in Nat
  /\ Results \subseteq [0..(Partitions - 1) -> Nat]

Parts == 0..(Partitions - 1)
Places == 0..(Sections * MaxRows - 1)

VARIABLES
  work,             (* what each lane's out thread does with a partition    *)
  part, offset,     (* the locals p and offset of each lane's out thread    *)
  rows,             (* rows[s][p]: what the kernel found in section s       *)
  new_part_offset,  (* rows claimed in each partition's buffer              *)
  new_part_col      (* those buffers                                        *)

locals == <<work, part, offset>>
gathered == <<new_part_offset, new_part_col>>
vars == <<pipe, locals, rows, gathered>>

Init ==
  /\ PipeInit
  /\ work = [k \in Lanes |-> "check"]
  /\ part = [k \in Lanes |-> 0]
  /\ offset = [k \in Lanes |-> 0]
  /\ rows = [s \in Secs |-> [p \in Parts |-> 0]]
  /\ new_part_offset = [p \in Parts |-> 0]
  /\ new_part_col = [p \in Parts |-> [x \in Places |-> Torn]]

-----------------------------------------------------------------------------
(* The thread that copies results out, partition by partition *)

nrow(k) ==
  IF host_out[kid(section(k))] = Torn THEN 0
  ELSE rows[host_out[kid(section(k))]][part[k]]

TakeOut(k) ==
  /\ OutWait(k)
  /\ work' = [work EXCEPT ![k] = "check"]
  /\ part' = [part EXCEPT ![k] = 0]
  /\ UNCHANGED <<offset, rows, gathered>>

(* A partition with more rows than its place in the buffer ends the process.  *)
Fits(k) == nrow(k) <= MaxRows
OutTooLarge(k) ==
  /\ work[k] = "check" /\ OutExit(k) /\ ~Fits(k)
  /\ UNCHANGED <<locals, rows, gathered>>

(* The offset is read, and then added to: each of the two is atomic.          *)
OutOffset(k) ==
  /\ outThread[k] = "work" /\ work[k] = "check" /\ Fits(k)
  /\ offset' = [offset EXCEPT ![k] = new_part_offset[part[k]]]
  /\ work' = [work EXCEPT ![k] = "claim"]
  /\ UNCHANGED <<pipe, part, rows, gathered>>

(* Mutated: the sum is formed from the value read before.                    *)
SumOfRead(k) == offset[k] + nrow(k)
NewOffset(k) == new_part_offset[part[k]] + nrow(k)
OutClaim(k) ==
  /\ outThread[k] = "work" /\ work[k] = "claim"
  /\ new_part_offset' = [new_part_offset EXCEPT ![part[k]] = NewOffset(k)]
  /\ work' = [work EXCEPT ![k] = "copy"]
  /\ UNCHANGED <<pipe, part, offset, rows, new_part_col>>

(* The rows go to the place read, whatever has been added to it since.       *)
Place(k) == offset[k]
OutCopy(k) ==
  /\ outThread[k] = "work" /\ work[k] = "copy"
  /\ new_part_col' = [new_part_col EXCEPT ![part[k]] =
       [x \in Places |-> IF x \in Place(k)..(Place(k) + nrow(k) - 1)
                           THEN host_out[kid(section(k))] ELSE @[x]]]
  /\ \/ part[k] + 1 < Partitions /\ part' = [part EXCEPT ![k] = @ + 1] /\ UNCHANGED pipe
     \/ part[k] + 1 = Partitions /\ OutDone(k) /\ UNCHANGED part
  /\ work' = [work EXCEPT ![k] = "check"]
  /\ UNCHANGED <<offset, rows, new_part_offset>>

-----------------------------------------------------------------------------
(* The kernel *)

Partition(s) ==
  /\ Kernel(s)
  /\ \E result \in Results : rows' = [rows EXCEPT ![s] = result]
  /\ UNCHANGED <<locals, gathered>>

-----------------------------------------------------------------------------
own == <<locals, rows, gathered>>
OutThread(k) ==
  \/ OutLoop(k) /\ UNCHANGED own
  \/ TakeOut(k) \/ OutTooLarge(k) \/ OutOffset(k) \/ OutClaim(k) \/ OutCopy(k)
Execute(s) ==
  \/ (Transfer(s) \/ TransferBack(s)) /\ UNCHANGED own
  \/ Partition(s)

Finished == ~Running /\ UNCHANGED vars

Next ==
  \/ Running /\ MainThread /\ UNCHANGED own
  \/ Running /\ \E k \in Lanes : InThread(k) /\ UNCHANGED own
  \/ Running /\ \E k \in Lanes : OutThread(k)
  \/ Running /\ \E s \in Secs, c \in Commands : Start(c, s) /\ UNCHANGED own
  \/ Running /\ \E s \in Secs : Execute(s)
  \/ Finished

Spec == Init /\ [][Next]_vars

(* Every thread runs, and the queue executes every command whose events are  *)
(* complete.                                                                  *)
FairSpec ==
  /\ Spec
  /\ WF_vars(Running /\ MainThread /\ UNCHANGED own)
  /\ \A k \in {0, 1} :
       /\ WF_vars(Running /\ k < lanes /\ InThread(k) /\ UNCHANGED own)
       /\ WF_vars(Running /\ k < lanes /\ OutThread(k))
  /\ \A s \in Secs :
       /\ WF_vars(Running /\ Execute(s))
       /\ \A c \in Commands : WF_vars(Running /\ Start(c, s) /\ UNCHANGED own)

-----------------------------------------------------------------------------
(* Properties *)

(* The rows of every section are all in the buffer of their partition, and   *)
(* none is there twice, once the section's copy out is over.                 *)
Gathered(s, p) ==
  Cardinality({x \in Places : new_part_col[p][x] = s}) = rows[s][p]
AllGathered == \A s \in memcpy_out, p \in Parts : Gathered(s, p)

(* With one thread that copies out this is so.  With two threads the numbers *)
(* of rows that the join goes on with are right all the same, although both   *)
(* add to them.  A row is named by its section and its number.                *)
RowsIn(sections, p) == UNION {{s} \X (1..rows[s][p]) : s \in sections}
RowsOf(p) == Cardinality(RowsIn(Secs, p))
RowsGathered ==
  /\ lanes = 1 => AllGathered
  /\ step = "done" => \A p \in Parts : new_part_offset[p] = RowsOf(p)

(* The phase ends. *)
Ends == <>~Running
=============================================================================
