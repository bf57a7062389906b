------------------------- MODULE PartitionPhaseProofs -------------------------
(***************************************************************************)
(* The partition phase implements the pipeline of PingPong: with what the    *)
(* threads do to the gathered buffers left out, every step is a step of the  *)
(* pipeline or none.  And the rows are gathered as they should be: the numbers *)
(* are right for one and for two threads, and with one thread the rows are     *)
(* all there too.                                                            *)
(*                                                                          *)
(* A thread takes a result over partition by partition, so the invariant says *)
(* for each partition which sections have claimed their place there and which *)
(* have been copied to it.                                                    *)
(***************************************************************************)
EXTENDS PartitionPhase, PingPongProofs

PhaseTypes ==
  /\ work \in [Lanes -> {"check", "claim", "copy"}]
  /\ part \in [Lanes -> Parts]
  /\ offset \in [Lanes -> Nat]
  /\ rows \in [Secs -> [Parts -> Nat]]
  /\ new_part_offset \in [Parts -> Nat]
  /\ new_part_col \in [Parts -> [Places -> Secs \cup {Torn}]]

(* The sections whose rows of partition p have their place, or are there.     *)
HasClaimed(k, p) ==
  outThread[k] = "work" /\ (p < part[k] \/ (p = part[k] /\ work[k] = "copy"))
HasCopied(k, p) == outThread[k] = "work" /\ p < part[k]
Claimed(p) == TakenOver \cup {section(k) : k \in {l \in Lanes : HasClaimed(l, p)}}
Copied(p) == TakenOver \cup {section(k) : k \in {l \in Lanes : HasCopied(l, p)}}

(* No section has more rows than its place; the process would have ended.     *)
Fitting ==
  /\ \A p \in Parts : \A s \in Claimed(p) : rows[s][p] <= MaxRows
  /\ \A k \in Lanes : outThread[k] = "work" /\ work[k] # "check" =>
       rows[section(k)][part[k]] <= MaxRows

(* The offset of a partition counts the rows that have been claimed. *)
Counted == \A p \in Parts : new_part_offset[p] = Cardinality(RowsIn(Claimed(p), p))

(* With one thread, the offset read is the one added to,                      *)
ReadAndAdded ==
  outThread[0] = "work" =>
    /\ work[0] = "claim" => offset[0] = new_part_offset[part[0]]
    /\ work[0] = "copy" =>
         offset[0] + rows[section(0)][part[0]] = new_part_offset[part[0]]
(* and the rows copied are those of the sections before, each section's from   *)
(* a place on, up to where the next are put.                                  *)
Filled(p) ==
  IF outThread[0] = "work" /\ part[0] = p /\ work[0] = "copy"
  THEN offset[0] ELSE new_part_offset[p]
From(s, p, x) ==
  \A y \in Places : new_part_col[p][y] = s <=> y \in x..(x + rows[s][p] - 1)
InPlace ==
  \A p \in Parts :
    /\ \A s \in Copied(p) : \E x \in Nat : x + rows[s][p] <= Filled(p) /\ From(s, p, x)
    /\ \A y \in Places : new_part_col[p][y] \in Copied(p) \cup {Torn}

PInv == PhaseTypes /\ Fitting /\ Counted /\ (lanes = 1 => ReadAndAdded /\ InPlace)

-----------------------------------------------------------------------------
(* The pipeline *)

LEMMA StepImplementsPipe ==
  ASSUME Next
  PROVE  [PipeNext]_pipe
<1>1. ASSUME NEW k \in Lanes, Running, OutThread(k)
      PROVE  PipeNext \/ UNCHANGED pipe
  BY <1>1 DEF OutThread, TakeOut, OutTooLarge, OutOffset, OutClaim, OutCopy, PipeNext
<1>2. ASSUME NEW s \in Secs, Running, Execute(s)
      PROVE  PipeNext
  BY <1>2 DEF Execute, Partition, PipeNext
<1> QED BY <1>1, <1>2 DEF Next, PipeNext, Finished, vars

-----------------------------------------------------------------------------
(* Claiming and counting *)

LEMMA OwnRows ==
  ASSUME IInv, PhaseTypes, NEW k \in Lanes, outThread[k] = "work"
  PROVE  /\ nrow(k) = rows[section(k)][part[k]] /\ nrow(k) \in Nat
         /\ section(k) \in Secs /\ part[k] \in Parts
         /\ host_out[kid(section(k))] = section(k)
<1>1. host_out[kid(section(k))] = section(k) /\ section(k) \in Secs
  BY AtWork
<1>2. section(k) # Torn
  BY <1>1, SectionsAssumption DEF Secs, Torn
<1> QED BY <1>1, <1>2 DEF nrow, PhaseTypes

LEMMA ClaimedSecs ==
  ASSUME IInv, NEW p
  PROVE  /\ Claimed(p) \in SUBSET Secs /\ Copied(p) \subseteq Claimed(p)
         /\ \A s \in Claimed(p) : Done("krn", s)
<1>1. \A s \in TakenOver : Done("krn", s)
  BY DEF IInv, Queues, OutBusy, Waited, WaitedOut, WaitedD2h, Started, TakenOver
<1>2. \A k \in Lanes : outThread[k] = "work" => section(k) \in Secs /\ Done("krn", section(k))
  BY AtWork
<1>3. TakenOver \subseteq Secs
  BY DEF TakenOver
<1> QED BY <1>1, <1>2, <1>3 DEF Claimed, Copied, HasClaimed, HasCopied

(* A section is before one thread only. *)
LEMMA NotYet ==
  ASSUME IInv, NEW k \in Lanes, outThread[k] = "work", NEW p
  PROVE  /\ ~HasClaimed(k, p) => section(k) \notin Claimed(p)
         /\ ~HasCopied(k, p) => section(k) \notin Copied(p)
<1>1. section(k) \notin TakenOver /\ Lane(section(k)) = k
  BY AtWork
<1>2. ASSUME NEW l \in Lanes, outThread[l] = "work", section(l) = section(k)
      PROVE  l = k
  BY <1>1, <1>2, AtWork
<1> QED BY <1>1, <1>2 DEF Claimed, Copied, HasClaimed, HasCopied

LEMMA RowsOfOneMore ==
  ASSUME PhaseTypes, NEW p \in Parts, NEW S \in SUBSET Secs, NEW s \in Secs, s \notin S
  PROVE  /\ Cardinality(RowsIn(S, p)) \in Nat
         /\ Cardinality(RowsIn(S \cup {s}, p)) = Cardinality(RowsIn(S, p)) + rows[s][p]
<1>. DEFINE f == [t \in Secs |-> 1..rows[t][p]]
<1>1. RowsIn(S, p) = Pairs(f, S) /\ RowsIn(S \cup {s}, p) = Pairs(f, S \cup {s})
  BY DEF RowsIn, Pairs
<1>2. IsFiniteSet(S)
  BY SecsFinite, FS_Subset
<1>3. ASSUME NEW t \in Secs
      PROVE  IsFiniteSet(f[t]) /\ Cardinality(f[t]) = rows[t][p]
  <2>1. PICK r \in Nat : r = rows[t][p]
    BY DEF PhaseTypes
  <2>2. IsFiniteSet(1..r) /\ Cardinality(1..r) = r
    BY FS_Interval
  <2> QED BY <2>1, <2>2
<1>. HIDE DEF f
<1>4. /\ Cardinality(Pairs(f, S)) \in Nat
      /\ Cardinality(Pairs(f, S \cup {s})) = Cardinality(Pairs(f, S)) + Cardinality(f[s])
  BY <1>2, <1>3, OneMorePair
<1> QED BY <1>1, <1>3, <1>4

(* The rows that fit are never more than the buffer's places. *)
LEMMA RowsFit ==
  ASSUME PhaseTypes, NEW p \in Parts, NEW S \in SUBSET Secs, \A s \in S : rows[s][p] <= MaxRows
  PROVE  Cardinality(RowsIn(S, p)) <= Sections * MaxRows
<1>1. \A s \in S : rows[s][p] \in Nat /\ 1..rows[s][p] \subseteq 1..MaxRows
  BY PartitionAssumption DEF PhaseTypes
<1>2. RowsIn(S, p) \subseteq Secs \X (1..MaxRows)
  BY <1>1 DEF RowsIn
<1>3. IsFiniteSet(1..MaxRows) /\ Cardinality(1..MaxRows) = MaxRows
  BY PartitionAssumption, FS_Interval
<1>4. IsFiniteSet(Secs \X (1..MaxRows)) /\ Cardinality(Secs \X (1..MaxRows)) = Sections * MaxRows
  BY <1>3, SecsFinite, FS_Product
<1> QED BY <1>2, <1>4, FS_Subset

-----------------------------------------------------------------------------
(* Steps that gather nothing *)

(* Nothing that the invariant is about has changed, but for what a thread has  *)
(* read or begun with.                                                        *)
SameClaims ==
  /\ TakenOver' = TakenOver /\ UNCHANGED <<lanes, rows, gathered>> /\ Lanes' = Lanes
  /\ \A k \in Lanes :
       /\ outThread[k] = "work" => outThread'[k] = "work" /\ section(k)' = section(k)
       /\ \A p \in Parts : (HasClaimed(k, p)' <=> HasClaimed(k, p)) /\ (HasCopied(k, p)' <=> HasCopied(k, p))

LEMMA SameClaimsMean ==
  ASSUME SameClaims, NEW p \in Parts
  PROVE  Claimed(p)' = Claimed(p) /\ Copied(p)' = Copied(p)
BY DEF SameClaims, Claimed, Copied, HasClaimed, HasCopied

LEMMA SameClaimsCount ==
  ASSUME PInv, SameClaims
  PROVE  /\ Counted'
         /\ \A p \in Parts : \A s \in Claimed(p)' : rows'[s][p] <= MaxRows
<1>1. UNCHANGED <<rows, new_part_offset>>
  BY DEF SameClaims, gathered
<1>2. \A p \in Parts : Claimed(p)' = Claimed(p)
  BY SameClaimsMean
<1> QED BY <1>1, <1>2 DEF PInv, Counted, Fitting, RowsIn

LEMMA SameClaimsInPlace ==
  ASSUME PInv, SameClaims, lanes = 1, \A p \in Parts : Filled(p)' = Filled(p)
  PROVE  InPlace'
<1>1. UNCHANGED <<rows, new_part_col>>
  BY DEF SameClaims, gathered
<1>2. \A p \in Parts : Copied(p)' = Copied(p)
  BY SameClaimsMean
<1> QED BY <1>1, <1>2 DEF PInv, InPlace, From

PhaseQuiet == BesideResults /\ UNCHANGED own

LEMMA PhaseQuietStep ==
  ASSUME IInv, PInv, PhaseQuiet
  PROVE  PInv'
<1>1. /\ TakenOver' = TakenOver /\ Lanes' = Lanes /\ lanes' = lanes
      /\ \A k \in Lanes : outThread'[k] = "work" <=> outThread[k] = "work"
      /\ \A k \in Lanes : outThread[k] = "work" => section(k)' = section(k)
  BY BesideFacts DEF PhaseQuiet
<1>2. UNCHANGED <<work, part, offset, rows, new_part_offset, new_part_col>>
  BY DEF PhaseQuiet, own, locals, gathered
<1>3. SameClaims
  BY <1>1, <1>2 DEF SameClaims, HasClaimed, HasCopied, gathered
<1>4. PhaseTypes'
  BY <1>1, <1>2 DEF PInv, PhaseTypes
<1>5. Counted' /\ Fitting'
  BY <1>1, <1>2, <1>3, SameClaimsCount DEF PInv, Fitting
<1>6. ASSUME lanes = 1
      PROVE  ReadAndAdded' /\ InPlace'
  <2>1. 0 \in Lanes
    BY <1>6 DEF Lanes
  <2>2. ReadAndAdded'
    BY <1>1, <1>2, <1>6, <2>1 DEF PInv, ReadAndAdded
  <2>3. \A p \in Parts : Filled(p)' = Filled(p)
    BY <1>1, <1>2, <2>1 DEF Filled
  <2> QED BY <1>3, <1>6, <2>2, <2>3, SameClaimsInPlace
<1> QED BY <1>1, <1>4, <1>5, <1>6 DEF PInv

LEMMA TakeOutStep ==
  ASSUME IInv, PInv, Running, NEW k \in Lanes, TakeOut(k)
  PROVE  PInv'
<1>. PhaseTypes /\ PipeTypeOK
  BY DEF PInv, IInv
<1>1. UNCHANGED <<offset, rows, new_part_offset, new_part_col, lanes, outQueue>> /\ Lanes' = Lanes
  BY DEF TakeOut, OutWait, gathered, Lanes
<1>2. TakenOver' = TakenOver /\ \A l \in Lanes : section(l)' = section(l)
  BY <1>1, NothingTaken DEF TakeOut, section
<1>3. /\ outThread[k] # "work"
      /\ \A l \in Lanes : /\ work'[l] = IF l = k THEN "check" ELSE work[l]
                          /\ part'[l] = IF l = k THEN 0 ELSE part[l]
                          /\ outThread'[l] = IF l = k THEN "work" ELSE outThread[l]
  BY DEF TakeOut, OutWait, PhaseTypes, PipeTypeOK
<1>4. SameClaims
  <2>1. \A p \in Parts : ~(p < 0)
    BY DEF Parts
  <2> QED BY <1>1, <1>2, <1>3, <2>1 DEF SameClaims, HasClaimed, HasCopied, gathered
<1>5. PhaseTypes'
  <2>1. work' \in [Lanes -> {"check", "claim", "copy"}] /\ part' \in [Lanes -> Parts]
    <3>1. 0 \in Parts
      BY PartitionAssumption DEF Parts
    <3> QED BY <3>1 DEF TakeOut, PhaseTypes
  <2> QED BY <1>1, <2>1 DEF PhaseTypes
<1>6. Counted' /\ Fitting'
  BY <1>1, <1>2, <1>3, <1>4, SameClaimsCount DEF PInv, Fitting
<1>7. ASSUME lanes = 1
      PROVE  ReadAndAdded' /\ InPlace'
  <2>1. k = 0
    BY <1>7 DEF Lanes
  <2>2. ReadAndAdded'
    BY <1>3, <2>1 DEF ReadAndAdded
  <2>3. \A p \in Parts : Filled(p)' = Filled(p)
    BY <1>1, <1>3, <2>1 DEF Filled
  <2> QED BY <1>4, <1>7, <2>2, <2>3, SameClaimsInPlace
<1> QED BY <1>1, <1>5, <1>6, <1>7 DEF PInv

LEMMA OutOffsetStep ==
  ASSUME IInv, PInv, Running, NEW k \in Lanes, OutOffset(k)
  PROVE  PInv'
<1>. PhaseTypes
  BY DEF PInv
<1>1. /\ UNCHANGED pipe /\ UNCHANGED <<part, rows, new_part_offset, new_part_col>>
      /\ outThread[k] = "work" /\ work[k] = "check" /\ nrow(k) <= MaxRows
  BY DEF OutOffset, gathered, Fits
<1>2. /\ UNCHANGED <<lanes, outQueue, outThread, memcpy_out>> /\ Lanes' = Lanes
      /\ TakenOver' = TakenOver /\ \A l \in Lanes : section(l)' = section(l)
  BY <1>1 DEF pipe, outside, Lanes, TakenOver, section
<1>3. \A l \in Lanes : /\ work'[l] = IF l = k THEN "claim" ELSE work[l]
                       /\ offset'[l] = IF l = k THEN new_part_offset[part[k]] ELSE offset[l]
  BY DEF OutOffset, PhaseTypes
<1>4. SameClaims
  BY <1>1, <1>2, <1>3 DEF SameClaims, HasClaimed, HasCopied, gathered
<1>5. PhaseTypes'
  <2>1. work' \in [Lanes -> {"check", "claim", "copy"}] /\ offset' \in [Lanes -> Nat]
    BY DEF OutOffset, PhaseTypes
  <2> QED BY <1>1, <1>2, <2>1 DEF PhaseTypes
<1>6. rows[section(k)][part[k]] <= MaxRows
  BY <1>1, OwnRows
<1>7. Counted' /\ Fitting'
  BY <1>1, <1>2, <1>3, <1>4, <1>6, SameClaimsCount DEF PInv, Fitting
<1>8. ASSUME lanes = 1
      PROVE  ReadAndAdded' /\ InPlace'
  <2>1. k = 0
    BY <1>8 DEF Lanes
  <2>2. ReadAndAdded'
    BY <1>1, <1>3, <2>1 DEF ReadAndAdded
  <2>3. \A p \in Parts : Filled(p)' = Filled(p)
    BY <1>1, <1>2, <1>3, <2>1 DEF Filled
  <2> QED BY <1>4, <1>8, <2>2, <2>3, SameClaimsInPlace
<1> QED BY <1>2, <1>5, <1>7, <1>8 DEF PInv

(* The kernel works on a section that nobody has claimed a place for. *)
LEMMA PartitionStep ==
  ASSUME IInv, PInv, Running, NEW s \in Secs, Partition(s)
  PROVE  PInv'
<1>. PhaseTypes
  BY DEF PInv
<1>1. UNCHANGED <<work, part, offset, new_part_offset, new_part_col, lanes, outQueue, outThread, memcpy_out>>
  BY DEF Partition, Kernel, Finish, locals, gathered, outside
<1>2. TakenOver' = TakenOver /\ Lanes' = Lanes /\ \A k \in Lanes : section(k)' = section(k)
  BY <1>1 DEF TakenOver, Lanes, section
<1>3. \A p \in Parts : Claimed(p)' = Claimed(p) /\ Copied(p)' = Copied(p)
  BY <1>1, <1>2 DEF Claimed, Copied, HasClaimed, HasCopied
<1>4. ~Done("krn", s)
  BY DEF Partition, Kernel, Finish, IInv, Events, Once, Executing, Commands
<1>5. /\ \A p \in Parts : Claimed(p) \in SUBSET Secs /\ s \notin Claimed(p) /\ s \notin Copied(p)
                          /\ Copied(p) \in SUBSET Secs
      /\ \A k \in Lanes : outThread[k] = "work" => section(k) # s /\ section(k) \in Secs
  BY <1>4, ClaimedSecs, AtWork
<1>6. /\ rows' \in [Secs -> [Parts -> Nat]]
      /\ \A t \in Secs \ {s} : rows'[t] = rows[t]
  BY PartitionAssumption DEF Partition, PhaseTypes, Parts
<1>7. PhaseTypes'
  BY <1>1, <1>2, <1>6 DEF PhaseTypes
<1>8. Fitting'
  <2>1. \A p \in Parts : \A t \in Claimed(p) : rows'[t] = rows[t]
    BY <1>5, <1>6
  <2>2. \A k \in Lanes : outThread[k] = "work" => rows'[section(k)] = rows[section(k)]
    BY <1>5, <1>6
  <2> QED BY <1>1, <1>2, <1>3, <2>1, <2>2 DEF PInv, Fitting
<1>9. Counted'
  <2>1. ASSUME NEW p \in Parts
        PROVE  RowsIn(Claimed(p), p)' = RowsIn(Claimed(p), p)
    <3>1. \A t \in Claimed(p) : rows'[t] = rows[t]
      BY <1>5, <1>6
    <3> QED BY <1>3, <3>1 DEF RowsIn
  <2> QED BY <1>1, <2>1 DEF PInv, Counted
<1>10. ASSUME lanes = 1
       PROVE  ReadAndAdded' /\ InPlace'
  <2>1. 0 \in Lanes
    BY <1>10 DEF Lanes
  <2>2. ReadAndAdded'
    BY <1>1, <1>2, <1>5, <1>6, <1>10, <2>1 DEF PInv, ReadAndAdded
  <2>3. \A p \in Parts : Filled(p)' = Filled(p)
    BY <1>1 DEF Filled
  <2>4. ASSUME NEW p \in Parts, NEW t \in Copied(p)
        PROVE  \E x \in Nat : x + rows'[t][p] <= Filled(p)' /\ From(t, p, x)'
    <3>1. PICK x \in Nat : x + rows[t][p] <= Filled(p) /\ From(t, p, x)
      BY <1>10, <2>4 DEF PInv, InPlace
    <3>2. rows'[t] = rows[t]
      BY <1>5, <1>6
    <3> QED BY <1>1, <2>3, <3>1, <3>2 DEF From
  <2> QED BY <1>1, <1>3, <1>10, <2>2, <2>4 DEF PInv, InPlace
<1> QED BY <1>1, <1>7, <1>8, <1>9, <1>10 DEF PInv

-----------------------------------------------------------------------------
(* Claiming a place *)

LEMMA OutClaimStep ==
  ASSUME IInv, PInv, Running, NEW k \in Lanes, OutClaim(k)
  PROVE  PInv'
<1>. PhaseTypes
  BY DEF PInv
<1>1. /\ UNCHANGED pipe /\ UNCHANGED <<part, offset, rows, new_part_col>>
      /\ outThread[k] = "work" /\ work[k] = "claim"
  BY DEF OutClaim
<1>. PICK s \in Secs, q \in Parts : s = section(k) /\ q = part[k]
  BY <1>1, OwnRows
<1>2. /\ UNCHANGED <<lanes, outQueue, outThread, memcpy_out>> /\ Lanes' = Lanes
      /\ TakenOver' = TakenOver /\ \A l \in Lanes : section(l)' = section(l)
  BY <1>1 DEF pipe, outside, Lanes, TakenOver, section
<1>3. /\ nrow(k) = rows[s][q] /\ s \in Secs /\ q \in Parts
      /\ rows[s][q] \in Nat /\ rows[s][q] <= MaxRows
  BY <1>1, OwnRows DEF PInv, Fitting, PhaseTypes
<1>4. /\ \A l \in Lanes : work'[l] = IF l = k THEN "copy" ELSE work[l]
      /\ \A p \in Parts : new_part_offset'[p] =
           IF p = q THEN new_part_offset[q] + rows[s][q] ELSE new_part_offset[p]
  BY <1>3 DEF OutClaim, NewOffset, PhaseTypes
<1>5. /\ Claimed(q)' = Claimed(q) \cup {s} /\ s \notin Claimed(q)
      /\ \A p \in Parts \ {q} : Claimed(p)' = Claimed(p)
      /\ \A p \in Parts : Copied(p)' = Copied(p)
  <2>1. \A p \in Parts : HasClaimed(k, p)' <=> HasClaimed(k, p) \/ p = q
    BY <1>1, <1>2, <1>4 DEF HasClaimed
  <2>2. \A l \in Lanes \ {k} : \A p \in Parts : HasClaimed(l, p)' <=> HasClaimed(l, p)
    BY <1>1, <1>2, <1>4 DEF HasClaimed
  <2>3. \A l \in Lanes : \A p \in Parts : HasCopied(l, p)' <=> HasCopied(l, p)
    BY <1>1, <1>2 DEF HasCopied
  <2>4. ~HasClaimed(k, q)
    BY <1>1, <1>3 DEF HasClaimed, Parts
  <2>5. s \notin Claimed(q)
    BY <1>1, <2>4, NotYet
  <2> QED BY <1>2, <1>3, <2>1, <2>2, <2>3, <2>5 DEF Claimed, Copied
<1>6. PhaseTypes'
  <2>1. work' \in [Lanes -> {"check", "claim", "copy"}]
    BY DEF OutClaim, PhaseTypes
  <2>2. new_part_offset' \in [Parts -> Nat]
    <3>1. new_part_offset[q] + rows[s][q] \in Nat
      BY <1>3 DEF PhaseTypes
    <3> QED BY <1>3, <3>1 DEF OutClaim, NewOffset, PhaseTypes
  <2> QED BY <1>1, <1>2, <2>1, <2>2 DEF PhaseTypes
<1>7. Fitting'
  BY <1>1, <1>2, <1>3, <1>4, <1>5 DEF PInv, Fitting
<1>8. Counted'
  <2>1. ASSUME NEW p \in Parts \ {q}
        PROVE  new_part_offset'[p] = Cardinality(RowsIn(Claimed(p), p))'
    BY <1>1, <1>4, <1>5 DEF PInv, Counted, RowsIn
  <2>2. new_part_offset'[q] = Cardinality(RowsIn(Claimed(q) \cup {s}, q))
    BY <1>3, <1>4, <1>5, ClaimedSecs, RowsOfOneMore DEF PInv, Counted
  <2>3. RowsIn(Claimed(q) \cup {s}, q) = RowsIn(Claimed(q), q)'
    BY <1>1, <1>5 DEF RowsIn
  <2> QED BY <2>1, <2>2, <2>3 DEF Counted
<1>9. ASSUME lanes = 1
      PROVE  ReadAndAdded' /\ InPlace'
  <2>1. k = 0
    BY <1>9 DEF Lanes
  <2>2. offset[0] = new_part_offset[q] /\ offset[0] \in Nat
    BY <1>1, <1>9, <2>1 DEF PInv, ReadAndAdded, PhaseTypes
  <2>3. ReadAndAdded'
    BY <1>1, <1>2, <1>3, <1>4, <2>1, <2>2 DEF ReadAndAdded
  <2>4. \A p \in Parts : Filled(p)' = Filled(p)
    BY <1>1, <1>2, <1>4, <2>1, <2>2 DEF Filled
  <2>5. InPlace'
    BY <1>1, <1>5, <1>9, <2>4 DEF PInv, InPlace, From
  <2> QED BY <2>3, <2>5
<1> QED BY <1>2, <1>6, <1>7, <1>8, <1>9 DEF PInv

-----------------------------------------------------------------------------
(* Copying *)

(* What has been claimed stays, and one more section has been copied. *)
LEMMA OutCopyClaims ==
  ASSUME IInv, PInv, NEW k \in Lanes, OutCopy(k)
  PROVE  /\ UNCHANGED <<lanes, outQueue, memcpy_out>> /\ Lanes' = Lanes
         /\ \A p \in Parts : Claimed(p)' = Claimed(p)
         /\ \A p \in Parts : Copied(p)' = IF p = part[k] THEN Copied(p) \cup {section(k)} ELSE Copied(p)
         /\ \A l \in Lanes : /\ section(l)' = section(l)
                             /\ outThread'[l] = "work" => outThread[l] = "work"
                             /\ l # k => /\ outThread'[l] = outThread[l] /\ part'[l] = part[l]
                             /\ work'[l] = IF l = k THEN "check" ELSE work[l]
         /\ part' \in [Lanes -> Parts]
<1>. PhaseTypes /\ PipeTypeOK
  BY DEF PInv, IInv
<1>1. outThread[k] = "work" /\ work[k] = "copy" /\ part[k] \in Parts
  BY DEF OutCopy, PhaseTypes
<1>2. \A l \in Lanes : work'[l] = IF l = k THEN "check" ELSE work[l]
  BY DEF OutCopy, PhaseTypes
<1>3. CASE part[k] + 1 < Partitions /\ part' = [part EXCEPT ![k] = @ + 1] /\ UNCHANGED pipe
  <2>1. /\ UNCHANGED <<lanes, outQueue, outThread, memcpy_out>> /\ Lanes' = Lanes
        /\ TakenOver' = TakenOver /\ \A l \in Lanes : section(l)' = section(l)
    BY <1>3 DEF pipe, outside, Lanes, TakenOver, section
  <2>2. part[k] + 1 \in Parts
    BY <1>1, <1>3, PartitionAssumption DEF Parts
  <2>3. part' \in [Lanes -> Parts] /\ \A l \in Lanes : part'[l] = IF l = k THEN part[k] + 1 ELSE part[l]
    BY <1>3, <2>2 DEF PhaseTypes
  <2>4. \A p \in Parts : p < part[k] + 1 <=> p < part[k] \/ p = part[k]
    BY <1>1 DEF Parts
  <2>5. \A p \in Parts : \A l \in Lanes : HasClaimed(l, p)' <=> HasClaimed(l, p)
    BY <1>1, <1>2, <2>1, <2>3, <2>4 DEF HasClaimed
  <2>6. \A p \in Parts : HasCopied(k, p)' <=> HasCopied(k, p) \/ p = part[k]
    BY <1>1, <2>1, <2>3, <2>4 DEF HasCopied
  <2>7. \A p \in Parts : \A l \in Lanes \ {k} : HasCopied(l, p)' <=> HasCopied(l, p)
    BY <2>1, <2>3 DEF HasCopied
  <2>8. \A p \in Parts : Claimed(p)' = Claimed(p)
    BY <2>1, <2>5 DEF Claimed
  <2>9. \A p \in Parts : p = part[k] => Copied(p)' = Copied(p) \cup {section(k)}
    BY <1>1, <2>1, <2>6, <2>7 DEF Copied
  <2>10. \A p \in Parts \ {part[k]} : Copied(p)' = Copied(p)
    BY <2>1, <2>6, <2>7 DEF Copied
  <2> QED BY <1>2, <2>1, <2>3, <2>8, <2>9, <2>10
<1>4. CASE part[k] + 1 = Partitions /\ OutDone(k) /\ UNCHANGED part
  <2>1. /\ UNCHANGED <<lanes, outQueue, memcpy_out>> /\ Lanes' = Lanes
        /\ TakenOver' = TakenOver \cup {section(k)} /\ \A l \in Lanes : section(l)' = section(l)
    BY <1>4, OneTaken DEF OutDone, Lanes, section
  <2>2. \A l \in Lanes : outThread'[l] = IF l = k THEN "event" ELSE outThread[l]
    BY <1>4 DEF OutDone, PipeTypeOK
  <2>3. \A p \in Parts : p < part[k] \/ p = part[k]
    BY <1>1, <1>4, PartitionAssumption DEF Parts
  <2>4. \A p \in Parts : /\ HasClaimed(k, p) /\ ~HasClaimed(k, p)'
                         /\ (p # part[k] => HasCopied(k, p)) /\ ~HasCopied(k, p)'
    BY <1>1, <2>2, <2>3 DEF HasClaimed, HasCopied
  <2>5. \A p \in Parts : \A l \in Lanes \ {k} :
          (HasClaimed(l, p)' <=> HasClaimed(l, p)) /\ (HasCopied(l, p)' <=> HasCopied(l, p))
    BY <1>2, <1>4, <2>2 DEF HasClaimed, HasCopied
  <2>6. \A p \in Parts : Claimed(p)' = Claimed(p)
    BY <2>1, <2>4, <2>5 DEF Claimed
  <2>7. \A p \in Parts : p = part[k] => Copied(p)' = Copied(p) \cup {section(k)}
    BY <1>1, <2>1, <2>4, <2>5 DEF Copied
  <2>8. \A p \in Parts \ {part[k]} : Copied(p)' = Copied(p)
    BY <2>1, <2>4, <2>5 DEF Copied
  <2> QED BY <1>2, <1>4, <2>1, <2>2, <2>6, <2>7, <2>8 DEF PhaseTypes
<1> QED BY <1>3, <1>4 DEF OutCopy

LEMMA OutCopyStep ==
  ASSUME IInv, PInv, Running, NEW k \in Lanes, OutCopy(k)
  PROVE  PInv'
<1>. PhaseTypes
  BY DEF PInv
<1>1. /\ UNCHANGED <<offset, rows, new_part_offset>>
      /\ outThread[k] = "work" /\ work[k] = "copy"
  BY DEF OutCopy
<1>. PICK s \in Secs, q \in Parts, place \in Nat : s = section(k) /\ q = part[k] /\ place = offset[k]
  BY <1>1, OwnRows DEF PhaseTypes
<1>2. /\ lanes' = lanes /\ Lanes' = Lanes
      /\ \A p \in Parts : Claimed(p)' = Claimed(p)
      /\ Copied(q)' = Copied(q) \cup {s}
      /\ \A p \in Parts \ {q} : Copied(p)' = Copied(p)
      /\ \A l \in Lanes : /\ section(l)' = section(l)
                          /\ outThread'[l] = "work" => outThread[l] = "work"
                          /\ l # k => /\ outThread'[l] = outThread[l] /\ part'[l] = part[l]
                          /\ work'[l] = IF l = k THEN "check" ELSE work[l]
      /\ part' \in [Lanes -> Parts]
  BY OutCopyClaims
<1>3. /\ nrow(k) = rows[s][q] /\ s \in Secs /\ q \in Parts
      /\ rows[s][q] \in Nat /\ rows[s][q] <= MaxRows /\ host_out[kid(s)] = s
  BY <1>1, OwnRows DEF PInv, Fitting, PhaseTypes
<1>4. /\ \A p \in Parts \ {q} : new_part_col'[p] = new_part_col[p]
      /\ \A y \in Places : new_part_col'[q][y] =
           IF y \in place..(place + rows[s][q] - 1) THEN s ELSE new_part_col[q][y]
  <2>1. new_part_col' = [new_part_col EXCEPT ![q] =
          [x \in Places |-> IF x \in place..(place + rows[s][q] - 1) THEN s ELSE @[x]]]
    BY <1>3 DEF OutCopy, Place
  <2> QED BY <2>1 DEF PhaseTypes
<1>5. PhaseTypes'
  <2>1. work' \in [Lanes -> {"check", "claim", "copy"}]
    BY DEF OutCopy, PhaseTypes
  <2>2. new_part_col' \in [Parts -> [Places -> Secs \cup {Torn}]]
    BY <1>3 DEF OutCopy, PhaseTypes
  <2> QED BY <1>1, <1>2, <2>1, <2>2 DEF PhaseTypes
<1>6. Fitting'
  BY <1>1, <1>2 DEF PInv, Fitting
<1>7. Counted'
  BY <1>1, <1>2 DEF PInv, Counted, RowsIn
<1>8. ASSUME lanes = 1
      PROVE  ReadAndAdded' /\ InPlace'
  <2>1. k = 0 /\ 0 \in Lanes
    BY <1>8 DEF Lanes
  <2>2. ReadAndAdded'
    BY <1>2, <2>1 DEF ReadAndAdded
  <2>3. /\ place + rows[s][q] = new_part_offset[q] /\ new_part_offset[q] \in Nat
        /\ Filled(q) = place /\ Filled(q)' = new_part_offset[q]
    BY <1>1, <1>2, <1>3, <1>8, <2>1 DEF PInv, ReadAndAdded, Filled, PhaseTypes
  <2>4. \A p \in Parts \ {q} : Filled(p) = new_part_offset[p] /\ Filled(p)' = new_part_offset[p]
    BY <1>1, <1>2, <2>1 DEF Filled
  <2>5. ASSUME NEW p \in Parts \ {q}
        PROVE  /\ \A t \in Copied(p)' : \E x \in Nat : x + rows'[t][p] <= Filled(p)' /\ From(t, p, x)'
               /\ \A y \in Places : new_part_col'[p][y] \in Copied(p)' \cup {Torn}
    BY <1>1, <1>2, <1>4, <1>8, <2>4 DEF PInv, InPlace, From
  <2>6. s \notin Copied(q) /\ \A y \in Places : new_part_col[q][y] # s
    <3>1. ~HasCopied(k, q)
      BY <1>3 DEF HasCopied, Parts
    <3>2. s # Torn
      BY <1>3, SectionsAssumption DEF Secs, Torn
    <3> QED BY <1>1, <1>3, <1>8, <3>1, <3>2, NotYet DEF PInv, InPlace
  <2>7. From(s, q, place)'
    BY <1>1, <1>4, <2>1, <2>6 DEF From
  <2>8. ASSUME NEW t \in Copied(q)
        PROVE  \E x \in Nat : x + rows[t][q] <= new_part_offset[q] /\ From(t, q, x)'
    <3>1. PICK x \in Nat : x + rows[t][q] <= place /\ From(t, q, x)
      BY <1>3, <1>8, <2>3, <2>8 DEF PInv, InPlace
    <3>2. t \in Secs /\ rows[t][q] \in Nat
      BY <1>3, <2>8, ClaimedSecs DEF PhaseTypes
    <3>3. PICK r \in Nat, m \in Nat : r = rows[t][q] /\ m = rows[s][q]
      BY <1>3, <3>2
    <3>4. x + r <= place /\ x + r <= new_part_offset[q]
      BY <1>3, <2>1, <2>3, <3>1, <3>3
    <3>5. ASSUME NEW y \in Places
          PROVE  new_part_col'[q][y] = t <=> y \in x..(x + r - 1)
      <4>1. y \in Int /\ place \in Nat
        BY <1>3, <2>1 DEF Places
      <4>2. CASE y \in place..(place + m - 1)
        <5>1. new_part_col'[q][y] = s /\ t # s
          BY <1>4, <2>1, <2>6, <2>8, <3>3, <4>2
        <5> QED BY <3>4, <4>1, <4>2, <5>1
      <4>3. CASE ~(y \in place..(place + m - 1))
        BY <1>4, <2>1, <3>1, <3>3, <4>3 DEF From
      <4> QED BY <4>2, <4>3
    <3>6. From(t, q, x)'
      BY <1>1, <3>3, <3>5 DEF From
    <3> QED BY <3>3, <3>4, <3>6
  <2>9. /\ \A t \in Copied(q)' : \E x \in Nat : x + rows'[t][q] <= Filled(q)' /\ From(t, q, x)'
        /\ \A y \in Places : new_part_col'[q][y] \in Copied(q)' \cup {Torn}
    <3>1. place + rows[s][q] <= new_part_offset[q] /\ place \in Nat
      BY <1>3, <2>1, <2>3
    <3>2. \A y \in Places : new_part_col[q][y] \in Copied(q) \cup {Torn}
      BY <1>3, <1>8 DEF PInv, InPlace
    <3> QED BY <1>1, <1>2, <1>4, <2>3, <2>7, <2>8, <3>1, <3>2
  <2> QED BY <1>2, <2>2, <2>5, <2>9 DEF InPlace
<1> QED BY <1>2, <1>5, <1>6, <1>7, <1>8 DEF PInv

-----------------------------------------------------------------------------
(* The theorems *)

LEMMA PhaseStart ==
  ASSUME Init
  PROVE  PInv
<1>1. TakenOver = {} /\ \A k \in Lanes : outThread[k] = "idle"
  BY DEF Init, PipeInit, TakenOver
<1>2. \A p \in Parts : Claimed(p) = {} /\ Copied(p) = {}
  BY <1>1 DEF Claimed, Copied, HasClaimed, HasCopied
<1>3. \A p \in Parts : RowsIn({}, p) = {}
  BY DEF RowsIn
<1>4. PhaseTypes
  BY PartitionAssumption DEF Init, PhaseTypes, Parts
<1>5. Fitting
  BY <1>1, <1>2 DEF Fitting
<1>6. Counted
  BY <1>2, <1>3, FS_EmptySet DEF Init, Counted
<1>7. lanes = 1 => ReadAndAdded /\ InPlace
  BY <1>1, <1>2 DEF Init, ReadAndAdded, InPlace, Lanes
<1> QED BY <1>4, <1>5, <1>6, <1>7 DEF PInv

LEMMA NothingMoves ==
  ASSUME PInv, UNCHANGED vars
  PROVE  PInv'
<1>1. /\ UNCHANGED <<lanes, outQueue, outThread, memcpy_out>> /\ Lanes' = Lanes
      /\ TakenOver' = TakenOver /\ \A l \in Lanes : section(l)' = section(l)
  BY DEF vars, pipe, outside, Lanes, TakenOver, section
<1>2. UNCHANGED <<work, part, offset, rows, new_part_offset, new_part_col>>
  BY DEF vars, locals, gathered
<1>3. SameClaims
  BY <1>1, <1>2 DEF SameClaims, HasClaimed, HasCopied, gathered
<1>4. PhaseTypes'
  BY <1>1, <1>2 DEF PInv, PhaseTypes
<1>5. Counted' /\ Fitting'
  BY <1>1, <1>2, <1>3, SameClaimsCount DEF PInv, Fitting
<1>6. ASSUME lanes = 1
      PROVE  ReadAndAdded' /\ InPlace'
  <2>1. 0 \in Lanes
    BY <1>6 DEF Lanes
  <2>2. ReadAndAdded'
    BY <1>1, <1>2, <1>6, <2>1 DEF PInv, ReadAndAdded
  <2>3. \A p \in Parts : Filled(p)' = Filled(p)
    BY <1>1, <1>2, <2>1 DEF Filled
  <2> QED BY <1>3, <1>6, <2>2, <2>3, SameClaimsInPlace
<1> QED BY <1>1, <1>4, <1>5, <1>6 DEF PInv

LEMMA PhaseInductive ==
  ASSUME IInv, PInv, [Next]_vars
  PROVE  PInv'
<1>1. CASE UNCHANGED vars \/ Finished
  BY <1>1, NothingMoves DEF Finished
<1>2. ASSUME Running, UNCHANGED own,
             \/ MainThread
             \/ \E k \in Lanes : InThread(k) \/ OutLoop(k) \/ OutExit(k)
             \/ \E s \in Secs : \/ Transfer(s) \/ TransferBack(s)
                                \/ \E c \in Commands : Start(c, s)
      PROVE  PInv'
  <2>1. PhaseQuiet
    BY <1>2 DEF PhaseQuiet, BesideResults
  <2> QED BY <2>1, PhaseQuietStep
<1>3. ASSUME NEW k \in Lanes, Running, OutThread(k)
      PROVE  PInv'
  <2>1. CASE OutLoop(k) /\ UNCHANGED own
    BY <1>2, <1>3, <2>1
  <2>2. CASE OutTooLarge(k)
    <3>1. OutExit(k) /\ UNCHANGED own
      BY <2>2 DEF OutTooLarge, own
    <3> QED BY <1>2, <1>3, <3>1
  <2> QED BY <1>3, <2>1, <2>2, TakeOutStep, OutOffsetStep, OutClaimStep, OutCopyStep DEF OutThread
<1>4. ASSUME NEW s \in Secs, Running, Execute(s)
      PROVE  PInv'
  <2>1. CASE (Transfer(s) \/ TransferBack(s)) /\ UNCHANGED own
    BY <1>2, <1>4, <2>1
  <2> QED BY <1>4, <2>1, PartitionStep DEF Execute
<1> QED BY <1>1, <1>2, <1>3, <1>4 DEF Next

(* The partition phases of Joiner::join_sol2 are the pipeline. *)
THEOREM PhaseImplementsPipe == Spec => PipeSpec
<1>1. Init => PipeInit
  BY DEF Init
<1>2. [Next]_vars => [PipeNext]_pipe
  BY StepImplementsPipe DEF vars
<1> QED BY <1>1, <1>2, PTL DEF Spec, PipeSpec

(* For any number of sections and partitions, whatever rows the kernel finds, *)
(* no host or device buffer of the partition phase is overwritten while the    *)
(* copy, the transfer or the kernel that reads it is not over.                 *)
THEOREM PhaseKeepsBuffers == Spec => []BuffersKept
BY PhaseImplementsPipe, PipeKeepsBuffers

(* join_sol2 goes on to the join with every section partitioned, although it   *)
(* has waited for the events of the last two sections only.                    *)
THEOREM PhaseLeavesNoWork == Spec => []NoWorkLeft
BY PhaseImplementsPipe, PipeLeavesNoWork

LEMMA PhaseInvariant == Spec => [](IInv /\ PInv)
<1>1. Init => PInv
  BY PhaseStart
<1>2. IInv /\ PInv /\ [Next]_vars => PInv'
  BY PhaseInductive
<1> QED BY <1>1, <1>2, PhaseImplementsPipe, PipeInvariant, PTL DEF Spec

(* With one thread the rows that were copied lie in the buffer from their      *)
(* place on, and the buffer has places for them.                              *)
LEMMA InvAllGathered ==
  ASSUME IInv, PInv, lanes = 1
  PROVE  AllGathered
<1>. PhaseTypes
  BY DEF PInv
<1>. SUFFICES ASSUME NEW s \in memcpy_out, NEW p \in Parts
              PROVE  Gathered(s, p)
  BY DEF AllGathered
<1>1. s \in Secs /\ s \in Copied(p)
  BY DEF IInv, PipeTypeOK, Copied, TakenOver
<1>2. PICK x \in Nat : x + rows[s][p] <= Filled(p) /\ From(s, p, x)
  BY <1>1 DEF PInv, InPlace
<1>3. PICK r \in Nat, n \in Nat : r = rows[s][p] /\ n = new_part_offset[p]
  BY <1>1 DEF PhaseTypes
<1>4. x + r <= n
  <2>1. CASE outThread[0] = "work" /\ part[0] = p /\ work[0] = "copy"
    <3>1. 0 \in Lanes
      BY DEF Lanes
    <3>2. offset[0] + rows[section(0)][p] = n /\ rows[section(0)][p] \in Nat /\ offset[0] \in Nat
      BY <1>3, <2>1, <3>1, OwnRows DEF PInv, ReadAndAdded, PhaseTypes
    <3>3. x + r <= offset[0]
      BY <1>2, <1>3, <2>1 DEF Filled
    <3> QED BY <3>2, <3>3
  <2>2. CASE ~(outThread[0] = "work" /\ part[0] = p /\ work[0] = "copy")
    BY <1>2, <1>3, <2>2 DEF Filled
  <2> QED BY <2>1, <2>2
<1>5. n <= Sections * MaxRows
  BY <1>3, ClaimedSecs, RowsFit DEF PInv, Counted, Fitting
<1>6. {y \in Places : new_part_col[p][y] = s} = x..(x + r - 1)
  <2>1. PICK all \in Nat : all = Sections * MaxRows
    BY SectionsAssumption, PartitionAssumption
  <2>2. x..(x + r - 1) \subseteq Places
    BY <1>4, <1>5, <2>1 DEF Places
  <2> QED BY <1>2, <1>3, <2>2 DEF From
<1>7. Cardinality(x..(x + r - 1)) = r
  <2>1. x + r - 1 \in Int /\ Cardinality(x..(x + r - 1)) = IF x > x + r - 1 THEN 0 ELSE (x + r - 1) - x + 1
    BY FS_Interval
  <2> QED BY <2>1
<1> QED BY <1>3, <1>6, <1>7 DEF Gathered

(* Whatever the kernel finds, the numbers of rows that join_sol2 and the        *)
(* aggregation go on with are right, for one and for two threads that copy out; *)
(* and with one thread each section's rows are in their partition's buffer,    *)
(* none missing and none twice.                                               *)
THEOREM PhaseGathersRows == Spec => []RowsGathered
<1>1. ASSUME IInv, PInv
      PROVE  RowsGathered
  <2>1. ASSUME step = "done", NEW p \in Parts
        PROVE  new_part_offset[p] = RowsOf(p)
    <3>1. Claimed(p) = Secs
      BY <1>1, <2>1, AllTaken, ClaimedSecs DEF Claimed
    <3> QED BY <1>1, <3>1 DEF PInv, Counted, RowsOf
  <2> QED BY <1>1, <2>1, InvAllGathered DEF RowsGathered
<1> QED BY <1>1, PhaseInvariant, PTL
=============================================================================
