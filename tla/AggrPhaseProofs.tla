----------------------------- MODULE AggrPhaseProofs -----------------------------
(***************************************************************************)
(* Both aggregations of AggrPhase implement the pipeline of PingPong, so that *)
(* what holds of the pipeline holds of them; and what their threads make of    *)
(* the results is right: sums, counts and, in the second solution, the places *)
(* of the rows as long as the threads do not copy at the same time.           *)
(*                                                                          *)
(* The inductive invariant says of the maps, the sum and the buffers of        *)
(* results that they are what the results taken over so far give, whichever    *)
(* thread has taken them and in whatever order.                               *)
(***************************************************************************)
EXTENDS AggrPhase, PingPongProofs

AggrTypes ==
  /\ lanes = 2
  /\ input \in Inputs
  /\ results \in [Secs -> Range(tab_in) \cup {NoGroups}]
  /\ work \in [Lanes -> {"offset", "copy"}]
  /\ col \in [Lanes -> 0..Columns]
  /\ \A k \in Lanes : work[k] = "copy" => col[k] \in Cols
  /\ offset \in [Lanes -> Nat]
  /\ merge_map = [k \in Lanes |-> merge_map[k]]
  /\ aggr_sum_nrow \in Nat
  /\ tab_aggr_res_col \in [Cols -> [Places -> (Secs \X Nat) \cup {<<>>}]]

(* What the kernel has made of the sections, if they are copied whole. *)
Made == CopiedWhole => \A s \in Secs : Done("krn", s) => results[s] = tab_in[s]

(* The sum counts the rows of the results taken over, and each map has the     *)
(* totals of those that its thread has taken over.                            *)
Counted == aggr_sum_nrow = Cardinality(RowsIn(TakenOver))
TakenBy(k) == {s \in TakenOver : Lane(s) = k}
Totalled ==
  solution = 1 /\ CopiedWhole /\ tab_out_nrow = -1 =>
    \A k \in Lanes : merge_map[k] = Totals(tab_in, TakenBy(k))

(* The rows of a result from a place on, as far as the columns have places.    *)
RowsAt(c, s, x) ==
  \A i \in RowsOfResult(s) : x + i \in Places => tab_aggr_res_col[c][x + i] = <<s, i>>

(* While only one thread at a time is at work, it puts the rows behind those   *)
(* counted, and those counted stay where they are.                            *)
InTurn == ~overlapped =>
  \A k, l \in Lanes : outThread[k] = "work" /\ outThread[l] = "work" => k = l
Behind == solution = 2 /\ ~overlapped =>
  \A k \in Lanes : outThread[k] = "work" =>
    /\ work[k] = "copy" => offset[k] = aggr_sum_nrow
    /\ \A c \in Cols : c < col[k] => RowsAt(c, section(k), aggr_sum_nrow)
InPlace == solution = 2 /\ ~overlapped =>
  \A s \in TakenOver : \E x \in Nat :
    /\ x + Cardinality(DOMAIN results[s]) <= aggr_sum_nrow
    /\ \A c \in Cols : RowsAt(c, s, x)

(* The output is written once, when all is over. *)
Written ==
  tab_out_nrow # -1 =>
    /\ step = "done"
    /\ solution = 2 => tab_out_nrow = aggr_sum_nrow
    /\ GroupsAddUp

AInv ==
  /\ AggrTypes /\ Made /\ Counted /\ Totalled
  /\ InTurn /\ Behind /\ InPlace /\ Written

-----------------------------------------------------------------------------
(* The pipeline *)

LEMMA StepImplementsPipe ==
  ASSUME Next
  PROVE  [PipeNext]_pipe
<1>1. ASSUME NEW k \in Lanes, Running, OutThread(k)
      PROVE  PipeNext \/ UNCHANGED pipe
  BY <1>1 DEF OutThread, TakeOut, OutMerge, OutKeyTooWide, OutOffset, OutCopy, OutSum, PipeNext
<1>2. ASSUME NEW s \in Secs, Running, Execute(s)
      PROVE  PipeNext
  BY <1>2 DEF Execute, Aggregate, PipeNext
<1>3. CASE Output \/ Finished
  BY <1>3 DEF Output, Finished, vars
<1> QED BY <1>1, <1>2, <1>3 DEF Next, MainLoop, PipeNext

-----------------------------------------------------------------------------
(* Counting *)

LEMMA ResultsFinite ==
  ASSUME AggrTypes, NEW s \in Secs
  PROVE  /\ IsFiniteSet(DOMAIN results[s]) /\ Cardinality(DOMAIN results[s]) \in Nat
         /\ IsFiniteSet(DOMAIN tab_in[s]) /\ tab_in[s] \in [DOMAIN tab_in[s] -> Nat]
<1>1. ASSUME NEW t \in Secs
      PROVE  IsFiniteSet(DOMAIN tab_in[t]) /\ tab_in[t] \in [DOMAIN tab_in[t] -> Nat]
  BY AggrAssumption DEF AggrTypes, tab_in
<1>2. results[s] = NoGroups \/ \E t \in Secs : results[s] = tab_in[t]
  <2>1. results[s] = NoGroups \/ results[s] \in Range(tab_in)
    BY DEF AggrTypes
  <2>2. DOMAIN tab_in = Secs
    BY AggrAssumption DEF AggrTypes, tab_in
  <2> QED BY <2>1, <2>2 DEF Range
<1>3. DOMAIN NoGroups = {}
  BY DEF NoGroups
<1>4. IsFiniteSet(DOMAIN results[s])
  BY <1>1, <1>2, <1>3, FS_EmptySet
<1> QED BY <1>1, <1>4, FS_CardinalityType

(* Another result adds its rows. *)
LEMMA RowsOfOneMore ==
  ASSUME AggrTypes, NEW S \in SUBSET Secs, NEW s \in Secs, s \notin S
  PROVE  /\ Cardinality(RowsIn(S)) \in Nat
         /\ Cardinality(RowsIn(S \cup {s})) = Cardinality(RowsIn(S)) + Cardinality(DOMAIN results[s])
<1>. DEFINE f == [t \in Secs |-> DOMAIN results[t]]
<1>1. RowsIn(S) = Pairs(f, S) /\ RowsIn(S \cup {s}) = Pairs(f, S \cup {s})
  BY DEF RowsIn, Pairs
<1>2. IsFiniteSet(S) /\ \A t \in Secs : IsFiniteSet(f[t]) /\ f[t] = DOMAIN results[t]
  BY SecsFinite, FS_Subset, ResultsFinite
<1>. HIDE DEF f
<1>3. /\ Cardinality(Pairs(f, S)) \in Nat
      /\ Cardinality(Pairs(f, S \cup {s})) = Cardinality(Pairs(f, S)) + Cardinality(f[s])
  BY <1>2, OneMorePair
<1> QED BY <1>1, <1>2, <1>3

LEMMA RowsOfSome ==
  ASSUME AggrTypes, NEW S \in SUBSET Secs
  PROVE  /\ Cardinality(RowsIn(S)) \in Nat /\ AllRows \in Nat
         /\ Cardinality(RowsIn(S)) <= AllRows
<1>. DEFINE f == [t \in Secs |-> DOMAIN results[t]]
<1>1. RowsIn(Secs) = Pairs(f, Secs) /\ RowsIn(S) \subseteq RowsIn(Secs)
  BY DEF RowsIn, Pairs
<1>2. \A t \in Secs : IsFiniteSet(f[t])
  BY ResultsFinite
<1>. HIDE DEF f
<1>3. IsFiniteSet(RowsIn(Secs))
  BY <1>1, <1>2, SecsFinite, PairsFinite
<1> QED BY <1>1, <1>3, FS_Subset, FS_CardinalityType DEF AllRows

(* The totals of some sections, group by group. *)
LEMMA TotalsAt ==
  ASSUME AggrTypes, NEW S \in SUBSET Secs, NEW g
  PROVE  AtGroup(Totals(tab_in, S), g) = Cardinality(Units(tab_in, S, g))
<1>1. CASE g \in GroupsOf(tab_in, S)
  BY <1>1 DEF AtGroup, Totals
<1>2. CASE g \notin GroupsOf(tab_in, S)
  <2>1. \A s \in S : AtGroup(tab_in[s], g) = 0
    BY <1>2 DEF GroupsOf, AtGroup
  <2>2. Units(tab_in, S, g) = {}
    BY <2>1 DEF Units
  <2> QED BY <1>2, <2>2, FS_EmptySet DEF AtGroup, Totals
<1> QED BY <1>1, <1>2

(* The totals of disjoint sets of sections, merged, are the totals of both.   *)
LEMMA TotalsMerged ==
  ASSUME AggrTypes, NEW S \in SUBSET Secs, NEW T \in SUBSET Secs, S \cap T = {}
  PROVE  Merged(Totals(tab_in, S), Totals(tab_in, T)) = Totals(tab_in, S \cup T)
<1>1. IsFiniteSet(S) /\ IsFiniteSet(T)
  BY SecsFinite, FS_Subset
<1>2. ASSUME NEW g
      PROVE  Cardinality(Units(tab_in, S \cup T, g))
               = AtGroup(Totals(tab_in, S), g) + AtGroup(Totals(tab_in, T), g)
  <2>. DEFINE f == [s \in Secs |-> 1..AtGroup(tab_in[s], g)]
  <2>1. /\ Units(tab_in, S, g) = Pairs(f, S) /\ Units(tab_in, T, g) = Pairs(f, T)
        /\ Units(tab_in, S \cup T, g) = Pairs(f, S \cup T)
    BY DEF Units, Pairs
  <2>2. ASSUME NEW s \in Secs
        PROVE  IsFiniteSet(f[s])
    <3>1. AtGroup(tab_in[s], g) \in Nat
      BY ResultsFinite DEF AtGroup
    <3> QED BY <3>1, FS_Interval
  <2>. HIDE DEF f
  <2>3. Cardinality(Pairs(f, S \cup T)) = Cardinality(Pairs(f, S)) + Cardinality(Pairs(f, T))
    BY <1>1, <2>2, PairsOfBoth
  <2> QED BY <2>1, <2>3, TotalsAt
<1>3. DOMAIN Totals(tab_in, S) = GroupsOf(tab_in, S) /\ DOMAIN Totals(tab_in, T) = GroupsOf(tab_in, T)
  BY DEF Totals
<1>4. GroupsOf(tab_in, S) \cup GroupsOf(tab_in, T) = GroupsOf(tab_in, S \cup T)
  BY DEF GroupsOf
<1> QED BY <1>2, <1>3, <1>4 DEF Merged, Totals

LEMMA TotalsOfOne ==
  ASSUME AggrTypes, NEW s \in Secs
  PROVE  Totals(tab_in, {s}) = tab_in[s]
<1>1. GroupsOf(tab_in, {s}) = DOMAIN tab_in[s]
  BY DEF GroupsOf
<1>2. ASSUME NEW g \in DOMAIN tab_in[s]
      PROVE  Cardinality(Units(tab_in, {s}, g)) = tab_in[s][g]
  <2>1. tab_in[s][g] \in Nat /\ AtGroup(tab_in[s], g) = tab_in[s][g]
    BY <1>2, ResultsFinite DEF AtGroup
  <2>. DEFINE f == [t \in Secs |-> 1..tab_in[t][g]]
  <2>2. Units(tab_in, {s}, g) = Pairs(f, {} \cup {s}) /\ Pairs(f, {}) = {}
    BY <2>1 DEF Units, Pairs
  <2>3. IsFiniteSet(f[s]) /\ Cardinality(f[s]) = tab_in[s][g]
    BY <2>1, FS_Interval
  <2>. HIDE DEF f
  <2>4. Cardinality(Pairs(f, {} \cup {s})) = Cardinality(Pairs(f, {})) + Cardinality(f[s])
    BY <2>3, FS_EmptySet, OneMorePair
  <2>5. Cardinality(Pairs(f, {})) = 0
    BY <2>2, FS_EmptySet
  <2> QED BY <2>1, <2>2, <2>3, <2>4, <2>5
<1>3. tab_in[s] = [g \in DOMAIN tab_in[s] |-> tab_in[s][g]]
  BY ResultsFinite
<1> QED BY <1>1, <1>2, <1>3 DEF Totals

(* A thread finds the result of its section. *)
LEMMA OwnResult ==
  ASSUME IInv, NEW k \in Lanes, outThread[k] = "work"
  PROVE  result(k) = results[section(k)] /\ nrow(k) = Cardinality(DOMAIN results[section(k)])
<1>1. host_out[kid(section(k))] = section(k) /\ section(k) \in Secs
  BY AtWork
<1>2. section(k) # Torn
  BY <1>1, SectionsAssumption DEF Secs, Torn
<1> QED BY <1>1, <1>2 DEF result, nrow

-----------------------------------------------------------------------------
(* Steps that do nothing to the output *)

LEMMA AggrStart ==
  ASSUME Init
  PROVE  AInv
<1>1. TakenOver = {}
  BY DEF Init, PipeInit, TakenOver
<1>2. RowsIn({}) = {}
  BY DEF RowsIn
<1>3. \A k \in Lanes : TakenBy(k) = {} /\ Totals(tab_in, {}) = NoGroups
  BY <1>1 DEF TakenBy, Totals, GroupsOf, NoGroups
<1>4. AggrTypes
  BY AggrAssumption, SectionsAssumption DEF Init, AggrTypes, Cols
<1>5. Made /\ InTurn /\ Behind /\ Written
  BY DEF Init, PipeInit, Made, InTurn, Behind, Written, Done
<1>6. Counted /\ InPlace
  BY <1>1, <1>2, FS_EmptySet DEF Init, Counted, InPlace
<1>7. Totalled
  BY <1>3 DEF Init, Totalled
<1> QED BY <1>4, <1>5, <1>6, <1>7 DEF AInv

Quiet == BesideResults /\ UNCHANGED own

LEMMA QuietStep ==
  ASSUME IInv, AInv, Quiet
  PROVE  AInv'
<1>1. /\ TakenOver' = TakenOver /\ Lanes' = Lanes /\ lanes' = lanes
      /\ \A s \in Secs : Done("krn", s)' => Done("krn", s)
      /\ \A k \in Lanes : outThread'[k] = "work" =>
           outThread[k] = "work" /\ section(k)' = section(k)
  BY BesideFacts DEF Quiet
<1>2. UNCHANGED <<input, results, work, col, offset, merge_map, aggr_sum_nrow, tab_aggr_res_col,
                  tab_out_nrow, overlapped>>
  BY DEF Quiet, own, locals, output
<1>3. AggrTypes'
  BY <1>1, <1>2 DEF AInv, AggrTypes, tab_in
<1>4. Made'
  BY <1>1, <1>2 DEF AInv, Made, CopiedWhole, solution, widths, tab_in
<1>5. Counted'
  BY <1>1, <1>2 DEF AInv, Counted, RowsIn
<1>6. Totalled'
  BY <1>1, <1>2 DEF AInv, Totalled, TakenBy, Lane, CopiedWhole, solution, widths, tab_in
<1>7. InTurn'
  BY <1>1, <1>2 DEF AInv, InTurn
<1>8. Behind'
  BY <1>1, <1>2 DEF AInv, Behind, RowsAt, RowsOfResult, solution
<1>9. InPlace'
  BY <1>1, <1>2 DEF AInv, InPlace, RowsAt, RowsOfResult, solution
<1>10. Written'
  BY <1>2 DEF AInv, Written, Quiet, BesideResults, Running
<1> QED BY <1>3, <1>4, <1>5, <1>6, <1>7, <1>8, <1>9, <1>10 DEF AInv

LEMMA TakeOutStep ==
  ASSUME IInv, AInv, Running, NEW k \in Lanes, TakeOut(k)
  PROVE  AInv'
<1>. AggrTypes /\ PipeTypeOK
  BY DEF AInv, IInv
<1>1. UNCHANGED <<input, results, offset, merge_map, aggr_sum_nrow, tab_aggr_res_col, tab_out_nrow,
                  lanes, outQueue, complete>>
  BY DEF TakeOut, OutWait, output, commands
<1>2. TakenOver' = TakenOver /\ Lanes' = Lanes
  BY <1>1, NothingTaken DEF TakeOut, Lanes
<1>3. \A l \in Lanes : /\ work'[l] = IF l = k THEN "offset" ELSE work[l]
                       /\ col'[l] = IF l = k THEN 0 ELSE col[l]
                       /\ outThread'[l] = IF l = k THEN "work" ELSE outThread[l]
  BY DEF TakeOut, OutWait, AggrTypes, PipeTypeOK
<1>4. ~overlapped' => ~overlapped /\ \A l \in Lanes \ {k} : outThread[l] # "work"
  BY DEF TakeOut
<1>5. AggrTypes'
  <2>1. work' \in [Lanes -> {"offset", "copy"}] /\ col' \in [Lanes -> 0..Columns]
    BY AggrAssumption DEF TakeOut, AggrTypes
  <2> QED BY <1>1, <1>2, <1>3, <2>1 DEF AggrTypes, tab_in
<1>6. Made'
  BY <1>1 DEF AInv, Made, CopiedWhole, solution, widths, tab_in, Done
<1>7. Counted'
  BY <1>1, <1>2 DEF AInv, Counted, RowsIn
<1>8. Totalled'
  BY <1>1, <1>2 DEF AInv, Totalled, TakenBy, Lane, CopiedWhole, solution, widths, tab_in
<1>9. InTurn' /\ Behind'
  BY <1>2, <1>3, <1>4, AggrAssumption DEF InTurn, Behind, Cols
<1>10. InPlace'
  BY <1>1, <1>2, <1>4 DEF AInv, InPlace, RowsAt, RowsOfResult, solution
<1>11. Written'
  BY <1>1 DEF AInv, Written, Running
<1> QED BY <1>5, <1>6, <1>7, <1>8, <1>9, <1>10, <1>11 DEF AInv

(* The kernel works on a section whose result nobody has before him. *)
LEMMA AggregateStep ==
  ASSUME IInv, AInv, Running, NEW s \in Secs, Aggregate(s)
  PROVE  AInv'
<1>. AggrTypes /\ PipeTypeOK
  BY DEF AInv, IInv
<1>1. UNCHANGED <<input, work, col, offset, merge_map, aggr_sum_nrow, tab_aggr_res_col, tab_out_nrow,
                  overlapped, lanes, outQueue, outThread, memcpy_out>>
  BY DEF Aggregate, Kernel, Finish, locals, output, outside
<1>2. TakenOver' = TakenOver /\ Lanes' = Lanes /\ \A k \in Lanes : section(k)' = section(k)
  BY <1>1 DEF TakenOver, Lanes, section
<1>3. ~Done("krn", s) /\ \A t \in Secs : Done("krn", t)' => t = s \/ Done("krn", t)
  BY DEF Aggregate, Kernel, Finish, IInv, Events, Once, Executing, Done, Commands
<1>4. /\ s \notin TakenOver
      /\ \A k \in Lanes : outThread[k] = "work" => section(k) # s /\ section(k) \in Secs
  <2>1. s \notin memcpy_out
    BY <1>3 DEF IInv, Waited, WaitedOut, WaitedD2h, Started
  <2>2. \A k \in Lanes : outThread[k] = "event" => outQueue[k][1] # s
    BY <1>3 DEF IInv, Queues, OutBusy, Waited, WaitedD2h, Started
  <2> QED BY <1>3, <2>1, <2>2, AtWork DEF TakenOver
<1>5. PICK r \in Range(tab_in) : results' = [results EXCEPT ![s] = r] /\ (CopiedWhole => r = tab_in[s])
  <2>1. tab_in[s] \in Range(tab_in)
    BY AggrAssumption DEF AggrTypes, Range, tab_in
  <2> QED BY <2>1 DEF Aggregate
<1>6. results'[s] = r /\ \A t \in Secs \ {s} : results'[t] = results[t]
  BY <1>5 DEF AggrTypes
<1>7. AggrTypes'
  <2>1. results' \in [Secs -> Range(tab_in) \cup {NoGroups}]
    BY <1>5 DEF AggrTypes
  <2> QED BY <1>1, <1>2, <2>1 DEF AggrTypes, tab_in
<1>8. Made'
  BY <1>1, <1>3, <1>5, <1>6 DEF AInv, Made, CopiedWhole, solution, widths, tab_in
<1>9. TakenOver \subseteq Secs \ {s}
  BY <1>4 DEF TakenOver
<1>10. Counted'
  <2>1. RowsIn(TakenOver)' = RowsIn(TakenOver)
    BY <1>2, <1>6, <1>9 DEF RowsIn
  <2> QED BY <1>1, <2>1 DEF AInv, Counted
<1>11. Totalled'
  BY <1>1, <1>2 DEF AInv, Totalled, TakenBy, Lane, CopiedWhole, solution, widths, tab_in
<1>12. InTurn'
  BY <1>1, <1>2 DEF AInv, InTurn
<1>13. Behind'
  <2>. SUFFICES ASSUME solution = 2, ~overlapped, NEW k \in Lanes, outThread[k] = "work"
                PROVE  /\ work[k] = "copy" => offset[k] = aggr_sum_nrow
                       /\ \A c \in Cols : c < col[k] => RowsAt(c, section(k), aggr_sum_nrow)'
    BY <1>1, <1>2 DEF Behind, solution
  <2>1. section(k) \in Secs \ {s} /\ section(k)' = section(k) /\ aggr_sum_nrow' = aggr_sum_nrow
    BY <1>1, <1>2, <1>4
  <2>2. /\ work[k] = "copy" => offset[k] = aggr_sum_nrow
        /\ \A c \in Cols : c < col[k] => RowsAt(c, section(k), aggr_sum_nrow)
    BY DEF AInv, Behind
  <2>3. \A c \in Cols : c < col[k] => RowsAt(c, section(k), aggr_sum_nrow)'
    BY <1>1, <1>6, <2>1, <2>2 DEF RowsAt, RowsOfResult
  <2> QED BY <2>2, <2>3
<1>14. InPlace'
  <2>. SUFFICES ASSUME solution = 2, ~overlapped, NEW t \in TakenOver
                PROVE  \E x \in Nat :
                         /\ x + Cardinality(DOMAIN results'[t]) <= aggr_sum_nrow
                         /\ \A c \in Cols : RowsAt(c, t, x)'
    BY <1>1, <1>2 DEF InPlace, solution
  <2>1. PICK x \in Nat : /\ x + Cardinality(DOMAIN results[t]) <= aggr_sum_nrow
                         /\ \A c \in Cols : RowsAt(c, t, x)
    BY DEF AInv, InPlace
  <2>2. results'[t] = results[t]
    BY <1>6, <1>9
  <2> QED BY <1>1, <2>1, <2>2 DEF RowsAt, RowsOfResult
<1>15. Written'
  BY <1>1 DEF AInv, Written, Running
<1> QED BY <1>7, <1>8, <1>10, <1>11, <1>12, <1>13, <1>14, <1>15 DEF AInv

-----------------------------------------------------------------------------
(* Steps of the threads that take results out *)

(* What was taken over, and one more. *)
LEMMA TakenSecs ==
  ASSUME IInv, NEW k \in Lanes, OutDone(k)
  PROVE  /\ outThread[k] = "work" /\ section(k) \in Secs /\ section(k) \notin TakenOver
         /\ TakenOver \in SUBSET Secs /\ Lane(section(k)) = k
         /\ TakenOver' = TakenOver \cup {section(k)}
         /\ UNCHANGED <<lanes, outQueue, complete, step>> /\ Lanes' = Lanes
         /\ \A l \in Lanes : outThread'[l] = IF l = k THEN "event" ELSE outThread[l]
<1>1. outThread[k] = "work" /\ UNCHANGED <<lanes, outQueue, complete, step>> /\ Lanes' = Lanes
  BY DEF OutDone, main, commands, Lanes
<1>2. \A l \in Lanes : outThread'[l] = IF l = k THEN "event" ELSE outThread[l]
  BY DEF OutDone, IInv, PipeTypeOK
<1>3. TakenOver \in SUBSET Secs
  BY DEF TakenOver
<1> QED BY <1>1, <1>2, <1>3, AtWork, OneTaken

(* The rows counted grow by those of the result. *)
LEMMA CountedStep ==
  ASSUME IInv, AInv, NEW k \in Lanes, OutDone(k), UNCHANGED results,
         aggr_sum_nrow' = aggr_sum_nrow + nrow(k)
  PROVE  Counted' /\ aggr_sum_nrow' \in Nat
<1>. AggrTypes
  BY DEF AInv
<1>1. /\ outThread[k] = "work" /\ section(k) \in Secs /\ section(k) \notin TakenOver
      /\ TakenOver \in SUBSET Secs /\ TakenOver' = TakenOver \cup {section(k)}
  BY TakenSecs
<1>2. nrow(k) = Cardinality(DOMAIN results[section(k)]) /\ nrow(k) \in Nat
  BY <1>1, OwnResult, ResultsFinite
<1>3. Cardinality(RowsIn(TakenOver \cup {section(k)}))
        = Cardinality(RowsIn(TakenOver)) + Cardinality(DOMAIN results[section(k)])
  BY <1>1, RowsOfOneMore
<1>4. RowsIn(TakenOver)' = RowsIn(TakenOver \cup {section(k)})
  BY <1>1 DEF RowsIn
<1>5. aggr_sum_nrow = Cardinality(RowsIn(TakenOver)) /\ aggr_sum_nrow \in Nat
  BY DEF AInv, Counted, AggrTypes
<1> QED BY <1>2, <1>3, <1>4, <1>5 DEF Counted

LEMMA OutMergeStep ==
  ASSUME IInv, AInv, Running, NEW k \in Lanes, OutMerge(k)
  PROVE  AInv'
<1>. AggrTypes /\ PipeTypeOK
  BY DEF AInv, IInv
<1>1. /\ outThread[k] = "work" /\ section(k) \in Secs /\ section(k) \notin TakenOver
      /\ TakenOver \in SUBSET Secs /\ Lane(section(k)) = k
      /\ TakenOver' = TakenOver \cup {section(k)}
      /\ UNCHANGED <<lanes, outQueue, complete, step>> /\ Lanes' = Lanes
      /\ \A l \in Lanes : outThread'[l] = IF l = k THEN "event" ELSE outThread[l]
  BY TakenSecs DEF OutMerge
<1>2. /\ UNCHANGED <<input, results, work, col, offset, tab_aggr_res_col, tab_out_nrow, overlapped>>
      /\ solution = 1 /\ tab_out_nrow' = tab_out_nrow /\ aggr_sum_nrow' = aggr_sum_nrow + nrow(k)
      /\ merge_map' = [merge_map EXCEPT ![k] = Merged(@, result(k))]
  BY DEF OutMerge, locals
<1>3. Counted' /\ aggr_sum_nrow' \in Nat
  BY <1>2, CountedStep DEF OutMerge
<1>4. \A l \in Lanes : merge_map'[l] = IF l = k THEN Merged(merge_map[k], result(k)) ELSE merge_map[l]
  BY <1>2 DEF AggrTypes
<1>5. AggrTypes'
  <2>1. merge_map' = [l \in Lanes |-> merge_map'[l]]
    BY <1>2 DEF AggrTypes
  <2> QED BY <1>1, <1>2, <1>3, <2>1 DEF AggrTypes, tab_in
<1>6. Made'
  BY <1>1, <1>2 DEF AInv, Made, CopiedWhole, solution, widths, tab_in, Done
<1>7. Totalled'
  <2>. SUFFICES ASSUME CopiedWhole, tab_out_nrow = -1, NEW l \in Lanes
                PROVE  merge_map'[l] = Totals(tab_in, TakenBy(l)')
    BY <1>1, <1>2 DEF Totalled, CopiedWhole, solution, widths, tab_in
  <2>1. merge_map[l] = Totals(tab_in, TakenBy(l))
    BY <1>2 DEF AInv, Totalled
  <2>2. CASE l # k
    <3>1. TakenBy(l)' = TakenBy(l)
      BY <1>1, <2>2 DEF TakenBy, Lane
    <3> QED BY <1>4, <2>1, <2>2, <3>1
  <2>3. CASE l = k
    <3>1. TakenBy(k)' = TakenBy(k) \cup {section(k)} /\ section(k) \notin TakenBy(k)
          /\ TakenBy(k) \in SUBSET Secs
      BY <1>1 DEF TakenBy, Lane
    <3>2. result(k) = tab_in[section(k)]
      <4>1. result(k) = results[section(k)] /\ Done("krn", section(k))
        BY <1>1, OwnResult, AtWork
      <4> QED BY <1>1, <4>1 DEF AInv, Made
    <3>3. Merged(Totals(tab_in, TakenBy(k)), Totals(tab_in, {section(k)}))
            = Totals(tab_in, TakenBy(k) \cup {section(k)})
      BY <1>1, <3>1, TotalsMerged
    <3>4. Totals(tab_in, {section(k)}) = result(k)
      BY <1>1, <3>2, TotalsOfOne
    <3> QED BY <1>4, <2>1, <2>3, <3>1, <3>3, <3>4
  <2> QED BY <2>2, <2>3
<1>8. InTurn'
  BY <1>1, <1>2 DEF AInv, InTurn
<1>9. Behind' /\ InPlace'
  BY <1>2 DEF Behind, InPlace, solution
<1>10. Written'
  BY <1>2 DEF AInv, Written, Running
<1> QED BY <1>3, <1>5, <1>6, <1>7, <1>8, <1>9, <1>10 DEF AInv

LEMMA OutOffsetStep ==
  ASSUME IInv, AInv, Running, NEW k \in Lanes, OutOffset(k)
  PROVE  AInv'
<1>. AggrTypes
  BY DEF AInv
<1>1. /\ UNCHANGED pipe /\ work[k] = "offset" /\ col[k] \in Cols
      /\ UNCHANGED <<input, results, col, merge_map, aggr_sum_nrow, tab_aggr_res_col, tab_out_nrow, overlapped>>
  BY DEF OutOffset, output
<1>2. /\ UNCHANGED <<lanes, step, outQueue, outThread, memcpy_out, complete>> /\ Lanes' = Lanes
      /\ TakenOver' = TakenOver /\ \A l \in Lanes : section(l)' = section(l)
  BY <1>1 DEF pipe, main, outside, commands, Lanes, TakenOver, section
<1>3. \A l \in Lanes : /\ work'[l] = IF l = k THEN "copy" ELSE work[l]
                       /\ offset'[l] = IF l = k THEN aggr_sum_nrow ELSE offset[l]
  BY DEF OutOffset, AggrTypes
<1>4. AggrTypes'
  <2>1. work' \in [Lanes -> {"offset", "copy"}] /\ offset' \in [Lanes -> Nat]
    BY DEF OutOffset, AggrTypes
  <2> QED BY <1>1, <1>2, <1>3, <2>1 DEF AggrTypes, tab_in
<1>5. Made' /\ Counted' /\ InTurn'
  BY <1>1, <1>2 DEF AInv, Made, Counted, InTurn, RowsIn, CopiedWhole, solution, widths, tab_in, Done
<1>6. Totalled'
  BY <1>1, <1>2 DEF AInv, Totalled, TakenBy, Lane, CopiedWhole, solution, widths, tab_in
<1>7. Behind'
  BY <1>1, <1>2, <1>3 DEF AInv, Behind, RowsAt, RowsOfResult, solution
<1>8. InPlace'
  BY <1>1, <1>2 DEF AInv, InPlace, RowsAt, RowsOfResult, solution
<1>9. Written'
  BY <1>1 DEF AInv, Written, Running
<1> QED BY <1>4, <1>5, <1>6, <1>7, <1>8, <1>9 DEF AInv

(* The rows of a column go to the place read, which is behind all that have    *)
(* been counted, if no other thread is at work.                               *)
LEMMA OutCopyStep ==
  ASSUME IInv, AInv, Running, NEW k \in Lanes, OutCopy(k)
  PROVE  AInv'
<1>. AggrTypes
  BY DEF AInv
<1>1. /\ UNCHANGED pipe /\ work[k] = "copy" /\ outThread[k] = "work"
      /\ UNCHANGED <<input, results, offset, merge_map, aggr_sum_nrow, tab_out_nrow, overlapped>>
  BY DEF OutCopy, Copying
<1>2. /\ UNCHANGED <<lanes, step, outQueue, outThread, memcpy_out, complete>> /\ Lanes' = Lanes
      /\ TakenOver' = TakenOver /\ \A l \in Lanes : section(l)' = section(l)
  BY <1>1 DEF pipe, main, outside, commands, Lanes, TakenOver, section
<1>3. \A l \in Lanes : /\ work'[l] = IF l = k THEN "offset" ELSE work[l]
                       /\ col'[l] = IF l = k THEN col[k] + 1 ELSE col[l]
  BY DEF OutCopy, AggrTypes
<1>4. /\ section(k) \in Secs /\ nrow(k) = Cardinality(DOMAIN results[section(k)]) /\ nrow(k) \in Nat
      /\ offset[k] \in Nat /\ col[k] \in Cols
  BY <1>1, AtWork, OwnResult, ResultsFinite DEF AggrTypes
<1>5. \A c \in Cols, x \in Places :
        tab_aggr_res_col'[c][x] =
          IF c = col[k] /\ x \in offset[k]..(offset[k] + nrow(k) - 1)
          THEN <<section(k), x - offset[k]>> ELSE tab_aggr_res_col[c][x]
  BY <1>4 DEF OutCopy, Place, AggrTypes
<1>6. AggrTypes'
  <2>1. work' \in [Lanes -> {"offset", "copy"}]
    BY DEF OutCopy, AggrTypes
  <2>2. col' \in [Lanes -> 0..Columns]
    <3>1. col[k] + 1 \in 0..Columns
      BY <1>4, AggrAssumption DEF Cols
    <3> QED BY <3>1 DEF OutCopy, AggrTypes
  <2>3. \A l \in Lanes : work'[l] = "copy" => col'[l] \in Cols
    BY <1>3 DEF AggrTypes
  <2>4. tab_aggr_res_col' \in [Cols -> [Places -> (Secs \X Nat) \cup {<<>>}]]
    <3>1. \A x \in Places : x \in offset[k]..(offset[k] + nrow(k) - 1) =>
            <<section(k), x - offset[k]>> \in Secs \X Nat
      BY <1>4
    <3>2. tab_aggr_res_col[col[k]] \in [Places -> (Secs \X Nat) \cup {<<>>}]
      BY <1>4 DEF AggrTypes
    <3>3. [x \in Places |-> IF x \in offset[k]..(offset[k] + nrow(k) - 1)
                            THEN <<section(k), x - offset[k]>> ELSE tab_aggr_res_col[col[k]][x]]
            \in [Places -> (Secs \X Nat) \cup {<<>>}]
      BY <3>1, <3>2
    <3> QED BY <1>4, <3>3 DEF OutCopy, Place, AggrTypes
  <2> QED BY <1>1, <1>2, <2>1, <2>2, <2>3, <2>4 DEF AggrTypes, tab_in
<1>7. Made' /\ Counted' /\ InTurn'
  BY <1>1, <1>2 DEF AInv, Made, Counted, InTurn, RowsIn, CopiedWhole, solution, widths, tab_in, Done
<1>8. Totalled'
  BY <1>1, <1>2 DEF AInv, Totalled, TakenBy, Lane, CopiedWhole, solution, widths, tab_in
<1>9. ASSUME solution = 2, ~overlapped
      PROVE  /\ offset[k] = aggr_sum_nrow /\ aggr_sum_nrow \in Nat
             /\ \A c \in Cols : c < col[k] => RowsAt(c, section(k), aggr_sum_nrow)
             /\ \A l \in Lanes : outThread[l] = "work" => l = k
  BY <1>1, <1>9 DEF AInv, Behind, InTurn, AggrTypes
<1>10. Behind'
  <2>. SUFFICES ASSUME solution = 2, ~overlapped, NEW c \in Cols, c < col[k] + 1,
                       NEW i \in RowsOfResult(section(k)), aggr_sum_nrow + i \in Places
                PROVE  tab_aggr_res_col'[c][aggr_sum_nrow + i] = <<section(k), i>>
    BY <1>1, <1>2, <1>3, <1>9 DEF Behind, RowsAt, RowsOfResult, solution
  <2>1. i \in 0..(nrow(k) - 1) /\ offset[k] = aggr_sum_nrow
    BY <1>4, <1>9 DEF RowsOfResult
  <2>2. CASE c = col[k]
    <3>1. PICK n \in Nat, x \in Nat : n = nrow(k) /\ x = offset[k]
      BY <1>4
    <3>2. i \in 0..(n - 1) /\ aggr_sum_nrow + i = x + i /\ x + i \in Places
      BY <2>1, <3>1
    <3>3. x + i \in x..(x + n - 1) /\ (x + i) - x = i
      BY <3>2
    <3>4. tab_aggr_res_col'[c][x + i] = <<section(k), (x + i) - x>>
      BY <1>5, <2>2, <3>1, <3>2, <3>3
    <3> QED BY <3>2, <3>3, <3>4
  <2>3. CASE c # col[k]
    <3>1. c < col[k]
      BY <1>4, <2>3 DEF Cols
    <3>2. RowsAt(c, section(k), aggr_sum_nrow)
      BY <1>9, <3>1
    <3> QED BY <1>5, <2>3, <3>2 DEF RowsAt
  <2> QED BY <2>2, <2>3
<1>11. InPlace'
  <2>. SUFFICES ASSUME solution = 2, ~overlapped, NEW t \in TakenOver
                PROVE  \E x \in Nat :
                         /\ x + Cardinality(DOMAIN results[t]) <= aggr_sum_nrow
                         /\ \A c \in Cols : RowsAt(c, t, x)'
    BY <1>1, <1>2 DEF InPlace, solution
  <2>1. PICK x \in Nat : /\ x + Cardinality(DOMAIN results[t]) <= aggr_sum_nrow
                         /\ \A c \in Cols : RowsAt(c, t, x)
    BY DEF AInv, InPlace
  <2>2. PICK n \in Nat : n = Cardinality(DOMAIN results[t])
    BY ResultsFinite DEF TakenOver
  <2>3. ASSUME NEW c \in Cols, NEW i \in 0..(n - 1), x + i \in Places
        PROVE  tab_aggr_res_col'[c][x + i] = <<t, i>>
    <3>1. x + i < offset[k]
      BY <1>9, <2>1, <2>2
    <3>2. tab_aggr_res_col[c][x + i] = <<t, i>>
      BY <2>1, <2>2, <2>3 DEF RowsAt, RowsOfResult
    <3>3. ~(x + i \in offset[k]..(offset[k] + nrow(k) - 1))
      BY <1>4, <3>1
    <3> QED BY <1>5, <2>3, <3>2, <3>3
  <2> QED BY <1>1, <2>1, <2>2, <2>3 DEF RowsAt, RowsOfResult
<1>12. Written'
  BY <1>1 DEF AInv, Written, Running
<1> QED BY <1>6, <1>7, <1>8, <1>10, <1>11, <1>12 DEF AInv

(* After the last column the rows are counted, and stand where they are. *)
LEMMA OutSumStep ==
  ASSUME IInv, AInv, Running, NEW k \in Lanes, OutSum(k)
  PROVE  AInv'
<1>. AggrTypes
  BY DEF AInv
<1>1. /\ outThread[k] = "work" /\ section(k) \in Secs /\ section(k) \notin TakenOver
      /\ TakenOver \in SUBSET Secs /\ TakenOver' = TakenOver \cup {section(k)}
      /\ UNCHANGED <<lanes, outQueue, complete, step>> /\ Lanes' = Lanes
      /\ \A l \in Lanes : outThread'[l] = IF l = k THEN "event" ELSE outThread[l]
  BY TakenSecs DEF OutSum
<1>2. /\ UNCHANGED <<input, results, work, col, offset, merge_map, tab_aggr_res_col, tab_out_nrow, overlapped>>
      /\ solution = 2 /\ col[k] = Columns /\ aggr_sum_nrow' = aggr_sum_nrow + nrow(k)
  BY DEF OutSum, Copying, locals, NewSum
<1>3. Counted' /\ aggr_sum_nrow' \in Nat
  BY <1>2, CountedStep DEF OutSum
<1>4. AggrTypes'
  BY <1>1, <1>2, <1>3 DEF AggrTypes, tab_in
<1>5. Made'
  BY <1>1, <1>2 DEF AInv, Made, CopiedWhole, solution, widths, tab_in, Done
<1>6. Totalled'
  BY <1>2 DEF Totalled, solution
<1>7. InTurn'
  BY <1>1, <1>2 DEF AInv, InTurn
<1>8. Behind'
  <2>1. ASSUME ~overlapped, NEW l \in Lanes, outThread'[l] = "work"
        PROVE  FALSE
    BY <1>1, <2>1 DEF AInv, InTurn
  <2> QED BY <1>1, <1>2, <2>1 DEF Behind
<1>9. InPlace'
  <2>. SUFFICES ASSUME ~overlapped, NEW t \in TakenOver'
                PROVE  \E x \in Nat :
                         /\ x + Cardinality(DOMAIN results[t]) <= aggr_sum_nrow + nrow(k)
                         /\ \A c \in Cols : RowsAt(c, t, x)'
    BY <1>2 DEF InPlace, solution
  <2>1. PICK m \in Nat, n \in Nat : m = aggr_sum_nrow /\ n = nrow(k)
    BY <1>1, OwnResult, ResultsFinite DEF AggrTypes
  <2>2. \A c \in Cols, s \in Secs, x \in Nat : RowsAt(c, s, x) => RowsAt(c, s, x)'
    BY <1>2 DEF RowsAt, RowsOfResult
  <2>3. CASE t = section(k)
    <3>1. \A c \in Cols : c < Columns
      BY AggrAssumption DEF Cols
    <3>2. \A c \in Cols : RowsAt(c, section(k), aggr_sum_nrow)
      BY <1>1, <1>2, <3>1 DEF AInv, Behind
    <3>3. m + Cardinality(DOMAIN results[t]) <= aggr_sum_nrow + nrow(k)
      BY <1>1, <2>1, <2>3, OwnResult
    <3>4. \A c \in Cols : RowsAt(c, t, m)
      BY <2>1, <2>3, <3>2 DEF RowsAt
    <3> QED BY <1>1, <2>2, <2>3, <3>3, <3>4
  <2>4. CASE t \in TakenOver
    <3>1. PICK x \in Nat : /\ x + Cardinality(DOMAIN results[t]) <= aggr_sum_nrow
                           /\ \A c \in Cols : RowsAt(c, t, x)
      BY <1>2, <2>4 DEF AInv, InPlace
    <3>2. t \in Secs /\ Cardinality(DOMAIN results[t]) \in Nat
      BY <1>1, <2>4, ResultsFinite
    <3>3. x + Cardinality(DOMAIN results[t]) <= aggr_sum_nrow + nrow(k)
      <4>1. PICK r \in Nat : r = Cardinality(DOMAIN results[t])
        BY <3>2
      <4>2. x + r <= m
        BY <2>1, <3>1, <4>1
      <4>3. x + r <= m + n
        BY <4>2
      <4> QED BY <2>1, <4>1, <4>3
    <3> QED BY <2>2, <3>1, <3>2, <3>3
  <2> QED BY <1>1, <2>3, <2>4
<1>10. Written'
  BY <1>2 DEF AInv, Written, Running, OutSum
<1> QED BY <1>3, <1>4, <1>5, <1>6, <1>7, <1>8, <1>9, <1>10 DEF AInv

-----------------------------------------------------------------------------
(* The output *)

LEMMA OutputStep ==
  ASSUME IInv, AInv, Output
  PROVE  AInv'
<1>. AggrTypes
  BY DEF AInv
<1>1. /\ step = "done" /\ tab_out_nrow = -1 /\ UNCHANGED pipe
      /\ UNCHANGED <<input, results, work, col, offset, aggr_sum_nrow, tab_aggr_res_col, overlapped>>
  BY DEF Output, locals
<1>2. /\ UNCHANGED <<lanes, step, outQueue, outThread, memcpy_out, complete>> /\ Lanes' = Lanes
      /\ TakenOver' = TakenOver /\ \A l \in Lanes : section(l)' = section(l)
  BY <1>1 DEF pipe, main, outside, commands, Lanes, TakenOver, section
<1>3. TakenOver = Secs
  BY <1>1, AllTaken
<1>4. AggrTypes'
  <2>1. merge_map' = [k \in Lanes |-> merge_map'[k]]
    BY DEF Output, AggrTypes
  <2> QED BY <1>1, <1>2, <2>1 DEF AggrTypes, tab_in
<1>5. Made' /\ Counted' /\ InTurn'
  BY <1>1, <1>2 DEF AInv, Made, Counted, InTurn, RowsIn, CopiedWhole, solution, widths, tab_in, Done
<1>6. Behind'
  BY <1>1, <1>2 DEF AInv, Behind, RowsAt, RowsOfResult, solution
<1>7. InPlace'
  BY <1>1, <1>2 DEF AInv, InPlace, RowsAt, RowsOfResult, solution
<1>8. ASSUME solution = 1, CopiedWhole
      PROVE  merge_map'[0] = Totals(tab_in, Secs)
  <2>1. Lanes = {0, 1}
    BY DEF Lanes, AggrTypes
  <2>2. merge_map[0] = Totals(tab_in, TakenBy(0)) /\ merge_map[1] = Totals(tab_in, TakenBy(1))
    BY <1>1, <1>8, <2>1 DEF AInv, Totalled
  <2>3. TakenBy(0) \cup TakenBy(1) = Secs /\ TakenBy(0) \cap TakenBy(1) = {}
        /\ TakenBy(0) \in SUBSET Secs /\ TakenBy(1) \in SUBSET Secs
    <3>1. \A s \in Secs : Lane(s) \in {0, 1}
      BY <2>1, LaneType DEF AggrTypes
    <3> QED BY <1>3, <3>1 DEF TakenBy
  <2>4. merge_map'[0] = Merged(merge_map[0], merge_map[1])
    BY <1>8, <2>1 DEF Output, Joined, AggrTypes
  <2> QED BY <2>2, <2>3, <2>4, TotalsMerged
<1>9. IsFiniteSet(GroupsOf(tab_in, Secs))
  <2>. DEFINE f == [s \in Secs |-> DOMAIN tab_in[s]]
              T == {DOMAIN tab_in[s] : s \in Secs}
  <2>1. f \in Surjection(Secs, T)
    BY DEF Surjection
  <2>2. IsFiniteSet(T) /\ \A G \in T : IsFiniteSet(G)
    BY <2>1, SecsFinite, FS_Surjection, ResultsFinite
  <2> QED BY <2>2, FS_UNION DEF GroupsOf
<1>10. CASE tab_out_nrow' = -1
  <2>1. ASSUME solution = 1, CopiedWhole
        PROVE  FALSE
    <3>1. DOMAIN merge_map'[0] = GroupsOf(tab_in, Secs)
      BY <1>8, <2>1 DEF Totals
    <3>2. tab_out_nrow' \in Nat
      BY <1>9, <2>1, <3>1, FS_CardinalityType DEF Output
    <3> QED BY <1>10, <3>2
  <2>2. Totalled'
    BY <1>1, <1>2, <2>1 DEF Totalled, CopiedWhole, solution, widths
  <2>3. Written'
    BY <1>10 DEF Written
  <2> QED BY <1>4, <1>5, <1>6, <1>7, <2>2, <2>3 DEF AInv
<1>11. CASE tab_out_nrow' # -1
  <2>1. Totalled'
    BY <1>11 DEF Totalled
  <2>2. GroupsAddUp'
    BY <1>1, <1>8 DEF GroupsAddUp, CopiedWhole, solution, widths, tab_in
  <2>3. solution = 2 => tab_out_nrow' = aggr_sum_nrow
    BY DEF Output
  <2>4. Written'
    BY <1>1, <1>2, <2>2, <2>3 DEF Written, solution
  <2> QED BY <1>4, <1>5, <1>6, <1>7, <2>1, <2>4 DEF AInv
<1> QED BY <1>10, <1>11

-----------------------------------------------------------------------------
(* The theorems *)

LEMMA NothingMoves ==
  ASSUME IInv, AInv, UNCHANGED vars
  PROVE  AInv'
<1>1. /\ UNCHANGED <<lanes, step, outQueue, outThread, memcpy_out, complete>> /\ Lanes' = Lanes
      /\ TakenOver' = TakenOver /\ \A l \in Lanes : section(l)' = section(l)
  BY DEF vars, pipe, main, outside, commands, Lanes, TakenOver, section
<1>2. UNCHANGED <<input, results, work, col, offset, merge_map, aggr_sum_nrow, tab_aggr_res_col,
                  tab_out_nrow, overlapped>>
  BY DEF vars, own, locals, output
<1>3. AggrTypes'
  BY <1>1, <1>2 DEF AInv, AggrTypes, tab_in
<1>4. Made' /\ Counted' /\ InTurn'
  BY <1>1, <1>2 DEF AInv, Made, Counted, InTurn, RowsIn, CopiedWhole, solution, widths, tab_in, Done
<1>5. Totalled'
  BY <1>1, <1>2 DEF AInv, Totalled, TakenBy, Lane, CopiedWhole, solution, widths, tab_in
<1>6. Behind'
  BY <1>1, <1>2 DEF AInv, Behind, RowsAt, RowsOfResult, solution
<1>7. InPlace'
  BY <1>1, <1>2 DEF AInv, InPlace, RowsAt, RowsOfResult, solution
<1>8. Written'
  BY <1>1, <1>2 DEF AInv, Written, GroupsAddUp, CopiedWhole, solution, widths, tab_in
<1> QED BY <1>3, <1>4, <1>5, <1>6, <1>7, <1>8 DEF AInv

LEMMA AggrInductive ==
  ASSUME IInv, AInv, [Next]_vars
  PROVE  AInv'
<1>1. CASE UNCHANGED vars \/ Finished
  BY <1>1, NothingMoves DEF Finished
<1>2. CASE MainLoop
  <2>1. Quiet
    BY <1>2 DEF MainLoop, Quiet, BesideResults
  <2> QED BY <2>1, QuietStep
<1>3. CASE Output
  BY <1>3, OutputStep
<1>4. ASSUME NEW k \in Lanes, Running, InThread(k), UNCHANGED own
      PROVE  AInv'
  <2>1. Quiet
    BY <1>4 DEF Quiet, BesideResults
  <2> QED BY <2>1, QuietStep
<1>5. ASSUME NEW k \in Lanes, Running, OutThread(k)
      PROVE  AInv'
  <2>1. CASE OutLoop(k) /\ UNCHANGED own
    <3>1. Quiet
      BY <1>5, <2>1 DEF Quiet, BesideResults
    <3> QED BY <3>1, QuietStep
  <2>2. CASE OutKeyTooWide(k)
    <3>1. Quiet
      BY <1>5, <2>2 DEF OutKeyTooWide, Quiet, BesideResults
    <3> QED BY <3>1, QuietStep
  <2> QED BY <1>5, <2>1, <2>2, TakeOutStep, OutMergeStep, OutOffsetStep, OutCopyStep, OutSumStep
          DEF OutThread
<1>6. ASSUME NEW s \in Secs, NEW c \in Commands, Running, Start(c, s), UNCHANGED own
      PROVE  AInv'
  <2>1. Quiet
    BY <1>6 DEF Quiet, BesideResults
  <2> QED BY <2>1, QuietStep
<1>7. ASSUME NEW s \in Secs, Running, Execute(s)
      PROVE  AInv'
  <2>1. CASE (Transfer(s) \/ TransferBack(s)) /\ UNCHANGED own
    <3>1. Quiet
      BY <1>7, <2>1 DEF Quiet, BesideResults
    <3> QED BY <3>1, QuietStep
  <2> QED BY <1>7, <2>1, AggregateStep DEF Execute
<1> QED BY <1>1, <1>2, <1>3, <1>4, <1>5, <1>6, <1>7 DEF Next

(* aggr_sol1 and the second phase of aggr_sol2 are the pipeline. *)
THEOREM AggrImplementsPipe == Spec => PipeSpec
<1>1. Init => PipeInit
  BY DEF Init
<1>2. [Next]_vars => [PipeNext]_pipe
  BY StepImplementsPipe DEF vars
<1> QED BY <1>1, <1>2, PTL DEF Spec, PipeSpec

(* No buffer of an aggregation is overwritten before its reader is done. *)
THEOREM AggrKeepsBuffers == Spec => []BuffersKept
BY AggrImplementsPipe, PipeKeepsBuffers

(* When an aggregation writes its output, the result of every section has     *)
(* been taken out and all queues are empty.                                   *)
THEOREM AggrLeavesNoWork == Spec => []NoWorkLeft
BY AggrImplementsPipe, PipeLeavesNoWork

LEMMA AggrInvariant == Spec => [](IInv /\ AInv)
<1>1. Init => AInv
  BY AggrStart
<1>2. IInv /\ AInv /\ [Next]_vars => AInv'
  BY AggrInductive
<1> QED BY <1>1, <1>2, AggrImplementsPipe, PipeInvariant, PTL DEF Spec

(* aggr_sol1: whichever thread has merged a section's groups, and in whatever  *)
(* order, every group of the output has its sum over all sections, if all      *)
(* columns have one width and there are no more sections than columns.         *)
THEOREM AggrAddsUp == Spec => []GroupsAddUp
<1>1. AInv => GroupsAddUp
  BY DEF AInv, Written, GroupsAddUp
<1> QED BY <1>1, AggrInvariant, PTL

(* aggr_sol2: the output has as many rows as all results together, although    *)
(* two threads add to the sum.                                                *)
THEOREM AggrCountsRows == Spec => []RowsCounted
<1>1. ASSUME IInv, AInv
      PROVE  RowsCounted
  <2>1. SUFFICES ASSUME tab_out_nrow # -1, solution = 2
                 PROVE  tab_out_nrow = AllRows
    BY DEF RowsCounted
  <2>2. step = "done" /\ tab_out_nrow = aggr_sum_nrow
    BY <1>1, <2>1 DEF AInv, Written
  <2>3. TakenOver = Secs
    BY <1>1, <2>2, AllTaken
  <2> QED BY <1>1, <2>2, <2>3 DEF AInv, Counted, AllRows
<1> QED BY <1>1, AggrInvariant, PTL

(* aggr_sol2: as long as its two threads have not copied at the same time and  *)
(* the buffers have place for all, a result's rows are in all columns at the   *)
(* same place.                                                               *)
THEOREM AggrAlignsRows == Spec => []RowsAligned
<1>1. ASSUME IInv, AInv
      PROVE  RowsAligned
  <2>. SUFFICES ASSUME solution = 2, ~overlapped, AllRows <= ResRows, NEW s \in memcpy_out
                PROVE  \E x \in 0..ResRows :
                         \A c \in Cols, i \in RowsOfResult(s) :
                           x + i \in Places /\ tab_aggr_res_col[c][x + i] = <<s, i>>
    BY DEF RowsAligned
  <2>1. AggrTypes /\ s \in Secs /\ s \in TakenOver /\ TakenOver \in SUBSET Secs
    BY <1>1 DEF AInv, IInv, PipeTypeOK, TakenOver
  <2>2. PICK x \in Nat : /\ x + Cardinality(DOMAIN results[s]) <= aggr_sum_nrow
                         /\ \A c \in Cols : RowsAt(c, s, x)
    BY <1>1, <2>1 DEF AInv, InPlace
  <2>3. aggr_sum_nrow <= AllRows /\ AllRows \in Nat /\ aggr_sum_nrow \in Nat
    BY <1>1, <2>1, RowsOfSome DEF AInv, Counted, AggrTypes
  <2>4. PICK n \in Nat : n = Cardinality(DOMAIN results[s])
    BY <2>1, ResultsFinite
  <2>5. x + n <= ResRows /\ ResRows \in Nat
    <3>1. PICK m \in Nat : m = AllRows
      BY <2>3
    <3> QED BY <2>2, <2>3, <2>4, <3>1, AggrAssumption
  <2>6. \A i \in 0..(n - 1) : x + i \in Places
    BY <2>5 DEF Places
  <2>7. x \in 0..ResRows /\ RowsOfResult(s) = 0..(n - 1)
    BY <2>4, <2>5 DEF RowsOfResult
  <2> QED BY <2>2, <2>6, <2>7 DEF RowsAt
<1> QED BY <1>1, AggrInvariant, PTL
=============================================================================
