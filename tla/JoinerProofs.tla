---------------------------- MODULE JoinerProofs ----------------------------
(***************************************************************************)
(* Theorems about the join, for any number of partitions and slices: every    *)
(* slice is probed with the hash table of its own partition, nothing is left   *)
(* over when the buffers are released, and table C then has every match once.  *)
(*                                                                          *)
(* The inductive invariant has four parts.  Of the events: a command runs    *)
(* once, after all it waits for, and the commands of one kind run in order.   *)
(* Of the buffers: each of build_in, buf_build_in and hj_tmp holds what its   *)
(* last writer put there as long as a reader is due.  Of the end: what the    *)
(* threads' queues hold, and which results are over when one of them is.  Of  *)
(* the rows: what a slice leaves in a buffer stays until it has been read, and *)
(* table C is made up of the slices whose results have been copied out.  The  *)
(* solution with one build has the same parts under names of its own.         *)
(***************************************************************************)
EXTENDS Joiner, FiniteSetTheorems, TLAPS

Queued(kind, i) == <<kind, i>> \in queued
Executing(kind, i) == <<kind, i>> \in running
Complete(kind, i) == <<kind, i>> \in complete
Started(kind, i) == Executing(kind, i) \/ Complete(kind, i)

CommandKinds == BuildCommands \cup ProbeCommands
CopyKinds == {"build_memcpy_in", "probe_memcpy_in", "probe_memcpy_out"}
Steps == {"build", "probe", "wait", "stop", "join", "done", "exit"}

(* How many partitions the main thread has enqueued the build of, at most. *)
builds == IF step \in {"probe", "exit"} THEN p + 1 ELSE p

Types ==
  /\ p \in Nat /\ e_i \in Nat /\ slice \in Nat /\ step \in Steps
  /\ queued \subseteq CommandKinds \X Nat /\ running \subseteq CommandKinds \X Nat
  /\ complete \subseteq (CommandKinds \cup CopyKinds) \X Nat
  /\ queue \in [Threads -> Seq(Nat)]
  /\ thread \in [Threads -> {"idle", "front", "copy", "end"}]

(* What the main thread is about to enqueue is not there yet. *)
Fresh ==
  \A i \in Nat :
    /\ \A kind \in BuildCommands : Queued(kind, i) \/ Started(kind, i) => i < builds
    /\ \A kind \in ProbeCommands : Queued(kind, i) \/ Started(kind, i) => i < e_i

Once ==
  \A kind \in CommandKinds, i \in Nat :
    /\ Queued(kind, i) => ~Started(kind, i)
    /\ Executing(kind, i) => ~Complete(kind, i)

Waited ==
  \A kind \in CommandKinds, i \in Nat :
    Started(kind, i) => MayStart(kind, i)

Ordered ==
  \A kind \in BuildCommands \cup {"probe_krn"}, i, j \in Nat :
    Started(kind, i) /\ j < i => Complete(kind, j)

Events == Fresh /\ Once /\ Waited /\ Ordered

(* The items of the thread that copies table O's partitions are in order,     *)
(* after those it is done with.                                               *)
InOrder ==
  LET q4 == queue["build_in"] IN
  /\ \A j \in 1..Len(q4) : q4[j] < builds
  /\ \A j, k \in 1..Len(q4) : j < k => q4[j] < q4[k]
  /\ \A i \in Nat : Complete("build_memcpy_in", i) =>
       i < builds /\ \A j \in 1..Len(q4) : i < q4[j]

(* While it copies, nothing it has copied before is still to be transferred. *)
Copying4 ==
  thread["build_in"] = "copy" =>
    \A i \in Nat : Complete("build_memcpy_in", i) => Complete("build_h2d", i)

HostBufferKept ==
  \A i \in Nat :
    Complete("build_memcpy_in", i) /\ ~Complete("build_h2d", i) => build_in = i

DeviceBufferKept ==
  \A i \in Nat :
    Complete("build_h2d", i) /\ (\A j \in Nat : j > i => ~Started("build_h2d", j))
      => buf_build_in = i

TableKept ==
  \A i \in Nat :
    Complete("build_krn", i) /\ (\A j \in Nat : j > i => ~Started("build_krn", j))
      => hj_tmp = i

Buffers == InOrder /\ Copying4 /\ HostBufferKept /\ DeviceBufferKept /\ TableKept

(* A thread copies the first item of its queue. *)
Holding == \A t \in Threads : thread[t] = "copy" => queue[t] # <<>>

IInv == Types /\ Holding /\ Events /\ Buffers

-----------------------------------------------------------------------------
(* What the waiting comes to *)

LEMMA SlicesCounted ==
  ASSUME NEW q \in Nat, NEW e \in Nat, PartitionOf(e) < q
  PROVE  PartitionOf(e) \in Nat /\ q * Slices - 1 \in Nat /\ e <= q * Slices - 1
<1> DEFINE k == e \div Slices
<1>1. Slices \in Nat /\ Slices > 0
  BY HashJoinAssumption
<1>2. k \in Int /\ e < Slices * k + Slices /\ k >= 0
  BY <1>1
<1>3. k + 1 <= q
  BY <1>2 DEF PartitionOf
<1> HIDE DEF k
<1>4. Slices * (k + 1) <= Slices * q
  BY <1>1, <1>2, <1>3
<1>5. Slices * (k + 1) = Slices * k + Slices
  BY <1>1, <1>2
<1>6. e < Slices * q
  BY <1>1, <1>2, <1>4, <1>5
<1>7. Slices * q = q * Slices /\ Slices * q \in Int
  BY <1>1
<1> QED
  BY <1>2, <1>6, <1>7 DEF k, PartitionOf

LEMMA LastOfPartition ==
  ASSUME NEW q \in Nat, q > 0
  PROVE  q * Slices - 1 \in Nat
BY HashJoinAssumption

LEMMA WaitsOfBuildTransfer ==
  ASSUME NEW i \in Nat, MayStart("build_h2d", i)
  PROVE  Complete("build_memcpy_in", i) /\ (i > 0 => Complete("build_krn", i - 1))
BY DEF MayStart, Over, Complete

LEMMA WaitsOfBuild ==
  ASSUME NEW i \in Nat, MayStart("build_krn", i)
  PROVE  /\ Complete("build_h2d", i)
         /\ i > 0 => Complete("build_krn", i - 1) /\ Complete("probe_krn", i * Slices - 1)
<1>1. BuildMayStart(i)
  BY DEF MayStart
<1>2. i > 0 => Over("probe_krn", i * Slices - 1) /\ ~(i * Slices - 1 < 0)
  BY <1>1, LastOfPartition DEF BuildMayStart
<1>3. i > 0 => Complete("probe_krn", i * Slices - 1)
  BY <1>2 DEF Over, Complete
<1> QED
  BY <1>1, <1>3 DEF BuildMayStart, Over, Complete

LEMMA WaitsOfProbe ==
  ASSUME NEW i \in Nat, MayStart("probe_krn", i)
  PROVE  /\ PartitionOf(i) \in Nat /\ Complete("build_krn", PartitionOf(i))
         /\ i > 0 => Complete("probe_krn", i - 1)
<1>1. Slices \in Nat /\ Slices > 0
  BY HashJoinAssumption
<1>2. PartitionOf(i) \in Nat
  BY <1>1 DEF PartitionOf
<1>3. Over("build_krn", PartitionOf(i)) /\ Over("probe_krn", i - 1)
  BY DEF MayStart
<1> QED
  BY <1>2, <1>3 DEF Over, Complete

(* While a slice is probed no build of a later partition has started, and     *)
(* that of its own is over.                                                   *)
LEMMA HashTableOfSlice == IInv => HashTableKept
<1> SUFFICES ASSUME IInv, NEW e \in AllSlices, Executing("probe_krn", e)
             PROVE  hj_tmp = PartitionOf(e)
  BY DEF HashTableKept, Executing
<1> DEFINE q == PartitionOf(e)
<1>1. e \in Nat
  BY DEF IInv, Types, Executing
<1>2. q \in Nat /\ Complete("build_krn", q)
  BY <1>1, WaitsOfProbe DEF IInv, Events, Waited, Started, CommandKinds, ProbeCommands
<1>3. ~Complete("probe_krn", e)
  BY <1>1 DEF IInv, Events, Once, CommandKinds, ProbeCommands
<1>4. ASSUME NEW j \in Nat, j > q, Started("build_krn", j)
      PROVE  FALSE
  <2>1. Complete("probe_krn", j * Slices - 1)
    <3>1. MayStart("build_krn", j)
      BY <1>4 DEF IInv, Events, Waited, CommandKinds, BuildCommands
    <3> QED
      BY <3>1, <1>2, <1>4, WaitsOfBuild
  <2>2. j * Slices - 1 \in Nat /\ e <= j * Slices - 1
    BY <1>1, <1>4, SlicesCounted
  <2>3. e # j * Slices - 1
    BY <2>1, <1>3
  <2>4. e < j * Slices - 1
    BY <1>1, <2>2, <2>3
  <2> QED
    BY <1>1, <1>3, <2>1, <2>2, <2>4 DEF IInv, Events, Ordered, Started
<1> QED
  BY <1>2, <1>4 DEF IInv, Buffers, TableKept

-----------------------------------------------------------------------------
(* The events *)

LEMMA MayStartKept ==
  ASSUME complete \subseteq complete', NEW kind, NEW i, MayStart(kind, i)
  PROVE  MayStart(kind, i)'
BY DEF MayStart, BuildMayStart, Over

LEMMA EventsUnchanged ==
  ASSUME Events, UNCHANGED <<events, e_i>>, builds \in Nat, builds' \in Nat, builds' >= builds
  PROVE  Events'
<1>1. UNCHANGED <<queued, running, complete, e_i>>
  BY DEF events
<1>2. Fresh'
  BY <1>1 DEF Events, Fresh, Queued, Executing, Complete, Started
<1>3. Once' /\ Ordered'
  BY <1>1 DEF Events, Once, Ordered, Queued, Executing, Complete, Started
<1>4. Waited'
  BY <1>1, MayStartKept DEF Events, Waited, Executing, Complete, Started
<1> QED
  BY <1>2, <1>3, <1>4 DEF Events

LEMMA EventsOfCopy ==
  ASSUME Events, UNCHANGED <<queued, running, e_i, builds>>,
         NEW kind \in CopyKinds, NEW n, complete' = complete \cup {<<kind, n>>}
  PROVE  Events'
<1>1. \A k \in CommandKinds, i \in Nat :
        /\ Queued(k, i)' <=> Queued(k, i)
        /\ Executing(k, i)' <=> Executing(k, i)
        /\ Complete(k, i)' <=> Complete(k, i)
        /\ Started(k, i)' <=> Started(k, i)
  BY DEF Queued, Executing, Complete, Started, CommandKinds, CopyKinds, BuildCommands, ProbeCommands
<1>2. Fresh'
  BY <1>1 DEF Events, Fresh, CommandKinds
<1>3. Once'
  BY <1>1 DEF Events, Once
<1>4. Ordered'
  BY <1>1 DEF Events, Ordered, CommandKinds, ProbeCommands
<1>5. Waited'
  BY <1>1, MayStartKept DEF Events, Waited
<1> QED
  BY <1>2, <1>3, <1>4, <1>5 DEF Events

LEMMA EventsOfEnqueue ==
  ASSUME Events, UNCHANGED <<running, complete>>,
         builds \in Nat, builds' \in Nat, e_i \in Nat, e_i' \in Nat,
         builds' >= builds, e_i' >= e_i,
         NEW kinds, NEW n \in Nat, queued' = queued \cup (kinds \X {n}),
         \/ kinds = BuildCommands /\ n = builds /\ builds' = builds + 1
         \/ kinds = ProbeCommands /\ n = e_i /\ e_i' = e_i + 1
  PROVE  Events'
<1>1. \A k \in CommandKinds, i \in Nat :
        /\ Queued(k, i)' <=> Queued(k, i) \/ (k \in kinds /\ i = n)
        /\ Executing(k, i)' <=> Executing(k, i)
        /\ Complete(k, i)' <=> Complete(k, i)
        /\ Started(k, i)' <=> Started(k, i)
  BY DEF Queued, Executing, Complete, Started
<1>2. \A k \in kinds : k \in CommandKinds /\ ~Started(k, n)
  BY DEF Events, Fresh, CommandKinds
<1>3. BuildCommands \cap ProbeCommands = {}
  BY DEF BuildCommands, ProbeCommands
<1>4. Fresh'
  <2>1. ASSUME NEW i \in Nat, NEW k \in BuildCommands, (Queued(k, i) \/ Started(k, i))'
        PROVE  i < builds'
    BY <1>1, <1>3, <2>1 DEF Events, Fresh, CommandKinds
  <2>2. ASSUME NEW i \in Nat, NEW k \in ProbeCommands, (Queued(k, i) \/ Started(k, i))'
        PROVE  i < e_i'
    BY <1>1, <1>3, <2>2 DEF Events, Fresh, CommandKinds
  <2> QED
    BY <2>1, <2>2 DEF Fresh
<1>5. Once'
  BY <1>1, <1>2 DEF Events, Once
<1>6. Ordered'
  BY <1>1 DEF Events, Ordered, CommandKinds, ProbeCommands
<1>7. Waited'
  BY <1>1, MayStartKept DEF Events, Waited
<1> QED
  BY <1>4, <1>5, <1>6, <1>7 DEF Events

(* A command that may start comes after all others of its kind. *)
LEMMA InOrderOfKind ==
  ASSUME Events, NEW kind \in BuildCommands \cup {"probe_krn"}, NEW i \in Nat,
         MayStart(kind, i), NEW j \in Nat, j < i
  PROVE  Complete(kind, j)
<1>1. i - 1 \in Nat /\ i > 0 /\ (j < i - 1 \/ j = i - 1)
  OBVIOUS
<1>2. Complete(kind, i - 1)
  <2>1. CASE kind = "build_h2d"
    <3>1. Complete("build_krn", i - 1)
      BY <1>1, <2>1, WaitsOfBuildTransfer
    <3>2. MayStart("build_krn", i - 1)
      BY <1>1, <3>1 DEF Events, Waited, Started, CommandKinds, BuildCommands
    <3> QED
      BY <1>1, <2>1, <3>2, WaitsOfBuild
  <2>2. CASE kind = "build_krn"
    BY <1>1, <2>2, WaitsOfBuild
  <2>3. CASE kind = "probe_krn"
    BY <1>1, <2>3, WaitsOfProbe
  <2> QED
    BY <2>1, <2>2, <2>3 DEF BuildCommands
<1> QED
  BY <1>1, <1>2 DEF Events, Ordered, Started

LEMMA EventsOfStart ==
  ASSUME Events, NEW kind \in CommandKinds, NEW n \in Nat, Start(kind, n),
         UNCHANGED builds
  PROVE  Events'
<1>0. /\ <<kind, n>> \in queued /\ MayStart(kind, n)
      /\ queued' = queued \ {<<kind, n>>} /\ running' = running \cup {<<kind, n>>}
      /\ UNCHANGED <<complete, e_i>>
  BY DEF Start, main
<1>1. \A k \in CommandKinds, i \in Nat :
        /\ Queued(k, i)' <=> Queued(k, i) /\ ~(k = kind /\ i = n)
        /\ Executing(k, i)' <=> Executing(k, i) \/ (k = kind /\ i = n)
        /\ Complete(k, i)' <=> Complete(k, i)
        /\ Started(k, i)' <=> Started(k, i) \/ (k = kind /\ i = n)
  BY <1>0 DEF Queued, Executing, Complete, Started
<1>2. Queued(kind, n) /\ ~Started(kind, n)
  BY <1>0 DEF Events, Once, Queued
<1>3. Fresh'
  BY <1>0, <1>1, <1>2 DEF Events, Fresh, CommandKinds
<1>4. Once'
  BY <1>1, <1>2 DEF Events, Once, Started
<1>5. Ordered'
  BY <1>0, <1>1, InOrderOfKind DEF Events, Ordered, CommandKinds, ProbeCommands
<1>6. Waited'
  BY <1>0, <1>1, MayStartKept DEF Events, Waited
<1> QED
  BY <1>3, <1>4, <1>5, <1>6 DEF Events

LEMMA EventsOfFinish ==
  ASSUME Events, NEW kind \in CommandKinds, NEW n \in Nat, Finish(kind, n),
         UNCHANGED builds
  PROVE  Events'
<1>0. /\ Executing(kind, n) /\ running' = running \ {<<kind, n>>}
      /\ complete' = complete \cup {<<kind, n>>} /\ UNCHANGED <<queued, e_i>>
  BY DEF Finish, main, Executing
<1>1. \A k \in CommandKinds, i \in Nat :
        /\ Queued(k, i)' <=> Queued(k, i)
        /\ Executing(k, i)' <=> Executing(k, i) /\ ~(k = kind /\ i = n)
        /\ Complete(k, i)' <=> Complete(k, i) \/ (k = kind /\ i = n)
  BY <1>0 DEF Queued, Executing, Complete
<1>2. \A k \in CommandKinds, i \in Nat : Started(k, i)' <=> Started(k, i)
  BY <1>0, <1>1 DEF Started
<1>3. Fresh'
  BY <1>0, <1>1, <1>2 DEF Events, Fresh, CommandKinds
<1>4. Once'
  BY <1>1, <1>2 DEF Events, Once
<1>5. Ordered'
  BY <1>1, <1>2 DEF Events, Ordered, CommandKinds, ProbeCommands
<1>6. complete \subseteq complete'
  BY <1>0
<1>7. Waited'
  BY <1>2, <1>6, MayStartKept DEF Events, Waited
<1> QED
  BY <1>3, <1>4, <1>5, <1>7 DEF Events

-----------------------------------------------------------------------------
(* The buffers *)

BuildKinds == {"build_memcpy_in", "build_h2d", "build_krn"}

LEMMA BuffersUntouched ==
  ASSUME Buffers, builds \in Nat, builds' \in Nat, builds' >= builds,
         queue["build_in"] \in Seq(Nat),
         UNCHANGED <<queue["build_in"], build_in, buf_build_in, hj_tmp>>,
         thread["build_in"]' = "copy" => thread["build_in"] = "copy",
         \A kind \in BuildKinds, i \in Nat :
           /\ Complete(kind, i)' <=> Complete(kind, i)
           /\ Started(kind, i)' <=> Started(kind, i)
  PROVE  Buffers'
<1>1. InOrder'
  BY DEF Buffers, InOrder, BuildKinds
<1>2. Copying4'
  BY DEF Buffers, Copying4, BuildKinds
<1>3. HostBufferKept'
  BY DEF Buffers, HostBufferKept, BuildKinds
<1>4. DeviceBufferKept'
  BY DEF Buffers, DeviceBufferKept, BuildKinds
<1>5. TableKept'
  BY DEF Buffers, TableKept, BuildKinds
<1> QED
  BY <1>1, <1>2, <1>3, <1>4, <1>5 DEF Buffers

LEMMA BuffersOfEnqueueBuild ==
  ASSUME Types, Buffers, EnqueueBuild
  PROVE  Buffers'
<1> DEFINE q4 == queue["build_in"]
<1>0. /\ q4 \in Seq(Nat) /\ p \in Nat /\ builds = p /\ builds' = p + 1
      /\ q4' = Append(q4, p)
      /\ UNCHANGED <<build_in, buf_build_in, hj_tmp, thread, running, complete>>
  BY DEF Types, EnqueueBuild, builds, Threads, hostBuffers, deviceBuffers
<1>1. \A kind \in BuildKinds, i \in Nat :
           /\ Complete(kind, i)' <=> Complete(kind, i)
           /\ Started(kind, i)' <=> Started(kind, i)
  BY <1>0 DEF Complete, Started, Executing
<1>2. /\ Len(q4') = Len(q4) + 1
      /\ \A j \in 1..Len(q4) : q4'[j] = q4[j] /\ q4[j] < p /\ q4[j] \in Nat
      /\ q4'[Len(q4) + 1] = p
  BY <1>0 DEF Buffers, InOrder
<1> HIDE DEF q4
<1>3. Len(q4) \in Nat /\ \A j \in 1..Len(q4') : j \in 1..Len(q4) \/ j = Len(q4) + 1
  BY <1>0, <1>2
<1>4. \A j \in 1..Len(q4') : q4'[j] < builds'
  BY <1>0, <1>2, <1>3
<1>5. ASSUME NEW j \in 1..Len(q4'), NEW k \in 1..Len(q4'), j < k
      PROVE  q4'[j] < q4'[k]
  <2>1. j \in 1..Len(q4)
    BY <1>2, <1>3, <1>5
  <2>2. CASE k \in 1..Len(q4)
    <3>1. q4[j] < q4[k]
      BY <1>5, <2>1, <2>2 DEF Buffers, InOrder, q4
    <3> QED
      BY <1>2, <2>1, <2>2, <3>1
  <2>3. CASE k = Len(q4) + 1
    BY <1>2, <2>1, <2>3
  <2> QED
    BY <1>3, <2>2, <2>3
<1>6. ASSUME NEW i \in Nat, Complete("build_memcpy_in", i)'
      PROVE  i < builds' /\ \A j \in 1..Len(q4') : i < q4'[j]
  <2>1. i < p /\ \A j \in 1..Len(q4) : i < q4[j]
    BY <1>0, <1>1, <1>6 DEF Buffers, InOrder, BuildKinds, q4
  <2> QED
    BY <1>0, <1>2, <1>3, <2>1
<1>7. InOrder'
  BY <1>4, <1>5, <1>6 DEF InOrder, q4
<1>8. Copying4'
  BY <1>0, <1>1 DEF Buffers, Copying4, BuildKinds
<1>9. HostBufferKept' /\ DeviceBufferKept' /\ TableKept'
  BY <1>0, <1>1 DEF Buffers, HostBufferKept, DeviceBufferKept, TableKept, BuildKinds
<1> QED
  BY <1>7, <1>8, <1>9 DEF Buffers

LEMMA BuffersOfTake ==
  ASSUME Types, Events, Buffers, Take("build_in")
  PROVE  Buffers'
<1> DEFINE q4 == queue["build_in"]
<1>0. /\ q4 \in Seq(Nat) /\ q4 # <<>> /\ Head(q4) = q4[1] /\ 1 \in 1..Len(q4)
      /\ q4[1] \in Nat
  BY DEF Types, Take, Threads
<1>1. /\ MayStart("build_memcpy_in", q4[1]) /\ build_in' = Torn
      /\ thread' = [thread EXCEPT !["build_in"] = "copy"]
      /\ UNCHANGED <<step, p, queue, running, complete, buf_build_in, hj_tmp>>
  BY <1>0 DEF Take, CopyOf, item, main, events, deviceBuffers
<1>2. UNCHANGED builds
  BY <1>1 DEF builds
<1>3. \A kind \in BuildKinds, i \in Nat :
           /\ Complete(kind, i)' <=> Complete(kind, i)
           /\ Started(kind, i)' <=> Started(kind, i)
  BY <1>1 DEF Complete, Started, Executing
<1>4. ASSUME NEW i \in Nat, Complete("build_memcpy_in", i)
      PROVE  Complete("build_h2d", i)
  <2>1. i < q4[1]
    BY <1>0, <1>4 DEF Buffers, InOrder
  <2>2. q4[1] - 1 \in Nat /\ (i = q4[1] - 1 \/ i < q4[1] - 1)
    BY <1>0, <2>1
  <2>3. Complete("build_h2d", q4[1] - 1)
    BY <1>1, <2>2 DEF MayStart, Over, Complete
  <2> QED
    BY <2>2, <2>3 DEF Events, Ordered, Started, BuildCommands
<1>5. InOrder'
  BY <1>1, <1>2, <1>3 DEF Buffers, InOrder, BuildKinds
<1>6. Copying4'
  BY <1>0, <1>1, <1>3, <1>4 DEF Copying4, BuildKinds
<1>7. HostBufferKept'
  BY <1>3, <1>4 DEF HostBufferKept, BuildKinds
<1>8. DeviceBufferKept' /\ TableKept'
  BY <1>1, <1>3 DEF Buffers, DeviceBufferKept, TableKept, BuildKinds
<1> QED
  BY <1>5, <1>6, <1>7, <1>8 DEF Buffers

LEMMA BuffersOfCopyBuildIn ==
  ASSUME Types, Holding, Events, Buffers, CopyBuildIn
  PROVE  Buffers'
<1> DEFINE q4 == queue["build_in"]
<1>1. /\ q4 \in Seq(Nat) /\ q4 # <<>> /\ Head(q4) = q4[1] /\ 1 \in 1..Len(q4)
      /\ q4[1] \in Nat
  BY DEF Types, CopyBuildIn, Threads, Holding
<1>2. /\ build_in' = q4[1] /\ complete' = complete \cup {<<"build_memcpy_in", q4[1]>>}
      /\ q4' = Tail(q4) /\ thread["build_in"]' # "copy"
      /\ UNCHANGED <<step, p, running, buf_build_in, hj_tmp>>
  BY <1>1 DEF CopyBuildIn, CompleteAndPop, CopyOf, item, Types, Threads, main, deviceBuffers
<1>3. UNCHANGED builds
  BY <1>2 DEF builds
<1>4. \A i \in Nat :
        /\ Complete("build_h2d", i)' <=> Complete("build_h2d", i)
        /\ Complete("build_krn", i)' <=> Complete("build_krn", i)
        /\ Started("build_h2d", i)' <=> Started("build_h2d", i)
        /\ Started("build_krn", i)' <=> Started("build_krn", i)
        /\ Complete("build_memcpy_in", i)' <=> Complete("build_memcpy_in", i) \/ i = q4[1]
  BY <1>2 DEF Complete, Started, Executing
<1>5. Len(q4) \in Nat /\ Len(q4') = Len(q4) - 1 /\ \A j \in 1..Len(q4') : q4'[j] = q4[j + 1]
  BY <1>1, <1>2
<1>6. \A j \in 1..Len(q4') : j + 1 \in 1..Len(q4) /\ q4[1] < q4[j + 1]
  BY <1>1, <1>5 DEF Buffers, InOrder
<1>7. InOrder'
  <2>1. \A j \in 1..Len(q4') : q4'[j] < builds'
    BY <1>3, <1>5, <1>6 DEF Buffers, InOrder
  <2>2. \A j, k \in 1..Len(q4') : j < k => q4'[j] < q4'[k]
    BY <1>5, <1>6 DEF Buffers, InOrder
  <2>3. ASSUME NEW i \in Nat, Complete("build_memcpy_in", i)'
        PROVE  i < builds' /\ \A j \in 1..Len(q4') : i < q4'[j]
    <3>1. CASE Complete("build_memcpy_in", i)
      BY <1>3, <1>5, <1>6, <3>1 DEF Buffers, InOrder
    <3>2. CASE i = q4[1]
      BY <1>1, <1>3, <1>5, <1>6, <3>2 DEF Buffers, InOrder
    <3> QED
      BY <1>4, <2>3, <3>1, <3>2
  <2> QED
    BY <2>1, <2>2, <2>3 DEF InOrder
<1>8. Copying4'
  BY <1>2 DEF Copying4
<1>9. HostBufferKept'
  <2>1. \A i \in Nat : Complete("build_memcpy_in", i) => Complete("build_h2d", i)
    BY DEF Buffers, Copying4, CopyBuildIn
  <2> QED
    BY <1>2, <1>4, <2>1 DEF HostBufferKept
<1>10. DeviceBufferKept' /\ TableKept'
  BY <1>2, <1>4 DEF Buffers, DeviceBufferKept, TableKept
<1> QED
  BY <1>7, <1>8, <1>9, <1>10 DEF Buffers

(* A transfer or a build that starts overwrites what nobody needs any more:   *)
(* those after it have not started, and those before it are over.             *)
LEMMA BuffersOfStart ==
  ASSUME Types, Events, Buffers, NEW kind \in CommandKinds, NEW n \in Nat, Start(kind, n)
  PROVE  Buffers'
<1>0. /\ Queued(kind, n)
      /\ running' = running \cup {<<kind, n>>}
      /\ UNCHANGED <<step, p, queue, thread, complete, build_in>>
  BY DEF Start, main, threads, Queued
<1>1. UNCHANGED builds /\ builds \in Nat
  BY <1>0 DEF builds, Types
<1>2. ~Complete(kind, n)
  BY <1>0 DEF Events, Once, Started
<1>3. \A k \in BuildKinds, i \in Nat :
        /\ Complete(k, i)' <=> Complete(k, i)
        /\ Started(k, i)' <=> Started(k, i) \/ (k = kind /\ i = n)
  BY <1>0 DEF Complete, Started, Executing
<1>4. InOrder' /\ Copying4' /\ HostBufferKept'
  BY <1>0, <1>1, <1>3 DEF Buffers, InOrder, Copying4, HostBufferKept, BuildKinds
<1>5. ASSUME kind \in BuildCommands, NEW i \in Nat, Complete(kind, i)
      PROVE  i < n
  <2>1. i # n
    BY <1>2, <1>5
  <2>2. ~(n < i)
    BY <1>2, <1>5 DEF Events, Ordered, Started
  <2> QED
    BY <2>1, <2>2
<1>6. DeviceBufferKept'
  <2>1. CASE kind = "build_h2d"
    BY <1>3, <1>5, <2>1 DEF DeviceBufferKept, BuildKinds, BuildCommands
  <2>2. CASE kind # "build_h2d"
    <3>1. UNCHANGED buf_build_in
      BY <2>2 DEF Start
    <3> QED
      BY <1>3, <2>2, <3>1 DEF Buffers, DeviceBufferKept, BuildKinds
  <2> QED
    BY <2>1, <2>2
<1>7. TableKept'
  <2>1. CASE kind = "build_krn"
    BY <1>3, <1>5, <2>1 DEF TableKept, BuildKinds, BuildCommands
  <2>2. CASE kind # "build_krn"
    <3>1. UNCHANGED hj_tmp
      BY <2>2 DEF Start
    <3> QED
      BY <1>3, <2>2, <3>1 DEF Buffers, TableKept, BuildKinds
  <2> QED
    BY <2>1, <2>2
<1> QED
  BY <1>4, <1>6, <1>7 DEF Buffers

LEMMA FinishOfBuildKind ==
  ASSUME Types, NEW kind \in CommandKinds, NEW n \in Nat, Finish(kind, n)
  PROVE  /\ Executing(kind, n)
         /\ UNCHANGED <<step, p, queue, thread, build_in, builds>>
         /\ \A k \in BuildKinds, i \in Nat :
              /\ Complete(k, i)' <=> Complete(k, i) \/ (k = kind /\ i = n)
              /\ Started(k, i)' <=> Started(k, i)
<1>1. /\ Executing(kind, n)
      /\ running' = running \ {<<kind, n>>} /\ complete' = complete \cup {<<kind, n>>}
      /\ UNCHANGED <<step, p, queue, thread, build_in>>
  BY DEF Finish, main, threads, Executing
<1>2. UNCHANGED builds
  BY <1>1 DEF builds
<1>3. \A k \in BuildKinds, i \in Nat :
        /\ Complete(k, i)' <=> Complete(k, i) \/ (k = kind /\ i = n)
        /\ Started(k, i)' <=> Started(k, i)
  BY <1>1 DEF Complete, Started, Executing
<1> QED
  BY <1>1, <1>2, <1>3

(* What is transferred is the partition that has been copied in. *)
LEMMA BuffersOfTransferBuild ==
  ASSUME Types, Events, Buffers, NEW n \in Nat, TransferBuild(n)
  PROVE  Buffers'
<1>1. /\ Executing("build_h2d", n)
      /\ UNCHANGED <<queue, thread, build_in, builds, hj_tmp>> /\ buf_build_in' = build_in
      /\ \A k \in BuildKinds, i \in Nat :
           /\ Complete(k, i)' <=> Complete(k, i) \/ (k = "build_h2d" /\ i = n)
           /\ Started(k, i)' <=> Started(k, i)
  BY FinishOfBuildKind DEF TransferBuild, CommandKinds, BuildCommands
<1>2. ~Complete("build_h2d", n) /\ Started("build_h2d", n)
  BY <1>1 DEF Events, Once, Started, CommandKinds, BuildCommands
<1>3. Complete("build_memcpy_in", n)
  BY <1>2, WaitsOfBuildTransfer DEF Events, Waited, CommandKinds, BuildCommands
<1>4. build_in = n
  BY <1>2, <1>3 DEF Buffers, HostBufferKept
<1>5. InOrder' /\ Copying4' /\ HostBufferKept' /\ TableKept'
  BY <1>1 DEF Buffers, InOrder, Copying4, HostBufferKept, TableKept, BuildKinds
<1>6. DeviceBufferKept'
  <2>1. ASSUME NEW i \in Nat, Complete("build_h2d", i)',
               \A j \in Nat : j > i => ~Started("build_h2d", j)'
        PROVE  i = n
    <3>1. ~(n > i)
      BY <1>1, <1>2, <2>1 DEF BuildKinds
    <3>2. CASE Complete("build_h2d", i)
      BY <1>2, <3>1, <3>2 DEF Events, Ordered, Started, BuildCommands
    <3> QED
      BY <1>1, <2>1, <3>2 DEF BuildKinds
  <2> QED
    BY <1>1, <1>4, <2>1 DEF DeviceBufferKept
<1> QED
  BY <1>5, <1>6 DEF Buffers

(* What the hash table is built from is the partition of the build. *)
LEMMA BuffersOfBuild ==
  ASSUME Types, Events, Buffers, NEW n \in Nat, Build(n)
  PROVE  Buffers'
<1>1. /\ Executing("build_krn", n)
      /\ UNCHANGED <<queue, thread, build_in, builds, buf_build_in>> /\ hj_tmp' = buf_build_in
      /\ \A k \in BuildKinds, i \in Nat :
           /\ Complete(k, i)' <=> Complete(k, i) \/ (k = "build_krn" /\ i = n)
           /\ Started(k, i)' <=> Started(k, i)
  BY FinishOfBuildKind DEF Build, CommandKinds, BuildCommands
<1>2. ~Complete("build_krn", n) /\ Started("build_krn", n)
  BY <1>1 DEF Events, Once, Started, CommandKinds, BuildCommands
<1>3. Complete("build_h2d", n)
  BY <1>2, WaitsOfBuild DEF Events, Waited, CommandKinds, BuildCommands
<1>4. ASSUME NEW j \in Nat, j > n, Started("build_h2d", j)
      PROVE  FALSE
  <2>1. Complete("build_krn", j - 1)
    BY <1>4, WaitsOfBuildTransfer DEF Events, Waited, CommandKinds, BuildCommands
  <2>2. j - 1 \in Nat /\ (n = j - 1 \/ n < j - 1)
    BY <1>4
  <2> QED
    BY <1>2, <2>1, <2>2 DEF Events, Ordered, Started, BuildCommands
<1>5. buf_build_in = n
  BY <1>3, <1>4 DEF Buffers, DeviceBufferKept
<1>6. InOrder' /\ Copying4' /\ HostBufferKept' /\ DeviceBufferKept'
  BY <1>1 DEF Buffers, InOrder, Copying4, HostBufferKept, DeviceBufferKept, BuildKinds
<1>7. TableKept'
  <2>1. ASSUME NEW i \in Nat, Complete("build_krn", i)',
               \A j \in Nat : j > i => ~Started("build_krn", j)'
        PROVE  i = n
    <3>1. ~(n > i)
      BY <1>1, <1>2, <2>1 DEF BuildKinds
    <3>2. CASE Complete("build_krn", i)
      BY <1>2, <3>1, <3>2 DEF Events, Ordered, Started, BuildCommands
    <3> QED
      BY <1>1, <2>1, <3>2 DEF BuildKinds
  <2> QED
    BY <1>1, <1>5, <2>1 DEF TableKept
<1> QED
  BY <1>6, <1>7 DEF Buffers

-----------------------------------------------------------------------------
(* The steps *)

LEMMA AppendIsNotEmpty ==
  ASSUME NEW q \in Seq(Nat), NEW i \in Nat
  PROVE  Append(q, i) # <<>>
<1>1. Len(Append(q, i)) = Len(q) + 1 /\ Len(q) \in Nat
  OBVIOUS
<1>2. Len(<<>>) = 0
  OBVIOUS
<1> QED
  BY <1>1, <1>2

(* A step that leaves the events, the queues and the buffers of the build     *)
(* alone.                                                                     *)
LEMMA Still ==
  ASSUME IInv, UNCHANGED <<p, e_i, slice, queue, events, build_in, buf_build_in, hj_tmp>>,
         step' \in Steps, builds' >= builds,
         thread' \in [Threads -> {"idle", "front", "copy", "end"}],
         thread'["build_in"] = "copy" => thread["build_in"] = "copy",
         Holding'
  PROVE  IInv'
<1>1. UNCHANGED <<queued, running, complete>>
  BY DEF events
<1>2. Types'
  BY <1>1 DEF IInv, Types
<1>3. builds \in Nat /\ builds' \in Nat
  BY <1>2 DEF IInv, Types, builds
<1>4. Events'
  BY <1>3, EventsUnchanged DEF IInv
<1>5. \A kind \in BuildKinds, i \in Nat :
           /\ Complete(kind, i)' <=> Complete(kind, i)
           /\ Started(kind, i)' <=> Started(kind, i)
  BY <1>1 DEF Complete, Started, Executing
<1>6. queue["build_in"] \in Seq(Nat)
  BY DEF IInv, Types, Threads
<1>7. Buffers'
  BY <1>3, <1>5, <1>6, BuffersUntouched DEF IInv
<1> QED
  BY <1>2, <1>4, <1>7 DEF IInv

LEMMA StillSteps ==
  ASSUME IInv,
         \/ AssertionFails \/ WaitForEvents \/ StopThreads \/ JoinThreads \/ OutTooLarge
         \/ \E t \in Threads : End(t) \/ (t # "build_in" /\ Take(t))
  PROVE  IInv'
<1>1. /\ UNCHANGED <<p, e_i, slice, queue, events, build_in, buf_build_in, hj_tmp>>
      /\ step' \in Steps
      /\ step' = step \/ step' = "exit" \/ (step # "probe" /\ step' # "probe" /\ step # "exit")
      /\ \/ UNCHANGED thread
         \/ \E t \in Threads : thread' = [thread EXCEPT ![t] = "end"]
         \/ \E t \in Threads \ {"build_in"} :
              thread' = [thread EXCEPT ![t] = "copy"] /\ queue[t] # <<>>
  <2>1. CASE AssertionFails \/ WaitForEvents \/ StopThreads \/ JoinThreads \/ OutTooLarge
    BY <2>1 DEF AssertionFails, WaitForEvents, StopThreads, JoinThreads, OutTooLarge, Steps,
                threads, hostBuffers, deviceBuffers
  <2>2. ASSUME NEW t \in Threads, End(t)
        PROVE  <1>1!:
    BY <2>2 DEF End, main, hostBuffers, deviceBuffers, IInv, Types
  <2>3. ASSUME NEW t \in Threads, t # "build_in", Take(t)
        PROVE  <1>1!:
    BY <2>3 DEF Take, main, deviceBuffers, IInv, Types
  <2> QED
    BY <2>1, <2>2, <2>3
<1>2. p \in Nat /\ thread \in [Threads -> {"idle", "front", "copy", "end"}]
  BY DEF IInv, Types
<1>3. builds' >= builds
  BY <1>1, <1>2 DEF builds
<1>4. /\ thread' \in [Threads -> {"idle", "front", "copy", "end"}]
      /\ thread'["build_in"] = "copy" => thread["build_in"] = "copy"
  BY <1>1, <1>2 DEF Threads
<1>5. Holding'
  <2>1. CASE UNCHANGED thread
    BY <1>1, <2>1 DEF IInv, Holding
  <2>2. ASSUME NEW t \in Threads, thread' = [thread EXCEPT ![t] = "end"]
        PROVE  Holding'
    BY <1>1, <1>2, <2>2 DEF IInv, Holding
  <2>3. ASSUME NEW t \in Threads \ {"build_in"}, thread' = [thread EXCEPT ![t] = "copy"],
               queue[t] # <<>>
        PROVE  Holding'
    BY <1>1, <1>2, <2>3 DEF IInv, Holding
  <2> QED
    BY <1>1, <2>1, <2>2, <2>3
<1> QED
  BY <1>1, <1>3, <1>4, <1>5, Still

LEMMA EnqueueBuildStep == IInv /\ EnqueueBuild => IInv'
<1> SUFFICES ASSUME IInv, EnqueueBuild PROVE IInv'
  OBVIOUS
<1>1. /\ p \in Nat /\ e_i \in Nat /\ builds = p /\ builds' = p + 1
      /\ UNCHANGED <<p, e_i, slice, thread, running, complete>> /\ step' = "probe"
      /\ queued' = queued \cup (BuildCommands \X {p})
      /\ queue' = [queue EXCEPT !["build_in"] = Append(@, p)]
  BY DEF IInv, Types, EnqueueBuild, builds
<1>2. Events'
  BY <1>1, EventsOfEnqueue DEF IInv
<1>3. Types'
  <2>1. queue["build_in"] \in Seq(Nat) /\ Append(queue["build_in"], p) \in Seq(Nat)
    BY <1>1 DEF IInv, Types, Threads
  <2>3. queue' \in [Threads -> Seq(Nat)]
    BY <1>1, <2>1 DEF IInv, Types
  <2>2. queued' \subseteq CommandKinds \X Nat
    BY <1>1 DEF IInv, Types, CommandKinds
  <2> QED
    BY <1>1, <2>2, <2>3 DEF IInv, Types, Steps
<1>4. Holding'
  <2>1. queue["build_in"] \in Seq(Nat) /\ queue \in [Threads -> Seq(Nat)]
    BY DEF IInv, Types, Threads
  <2>2. Append(queue["build_in"], p) # <<>>
    BY <1>1, <2>1, AppendIsNotEmpty DEF Threads
  <2>3. \A t \in Threads : queue'[t] = IF t = "build_in" THEN Append(queue[t], p) ELSE queue[t]
    BY <1>1, <2>1
  <2> QED
    BY <1>1, <2>2, <2>3 DEF IInv, Holding
<1> QED
  BY <1>2, <1>3, <1>4, BuffersOfEnqueueBuild DEF IInv

LEMMA EnqueueProbeStep == IInv /\ EnqueueProbe => IInv'
<1> SUFFICES ASSUME IInv, EnqueueProbe PROVE IInv'
  OBVIOUS
<1>1. /\ p \in Nat /\ e_i \in Nat /\ slice \in Nat /\ e_i' = e_i + 1
      /\ UNCHANGED <<thread, running, complete, build_in, buf_build_in, hj_tmp>>
      /\ queued' = queued \cup (ProbeCommands \X {e_i})
  BY DEF IInv, Types, EnqueueProbe, hostBuffers, deviceBuffers
<1>2. builds = p + 1 /\ builds' = p + 1
  BY <1>1 DEF EnqueueProbe, builds
<1>3. p' \in Nat /\ slice' \in Nat /\ step' \in Steps
  BY <1>1 DEF EnqueueProbe, Steps
<1>4. /\ CopiesIn(sid(e_i)) \in Threads /\ CopiesIn(sid(e_i)) # "build_in"
      /\ "probe_out" \in Threads /\ "build_in" \in Threads
  BY DEF CopiesIn, Threads
<1>5. queue' \in [Threads -> Seq(Nat)] /\ UNCHANGED queue["build_in"]
  <2>1. \A t \in Threads : queue[t] \in Seq(Nat) /\ Append(queue[t], e_i) \in Seq(Nat)
    BY <1>1 DEF IInv, Types
  <2> QED
    BY <1>4, <2>1 DEF EnqueueProbe
<1>6. Events'
  BY <1>1, <1>2, EventsOfEnqueue DEF IInv
<1>7. Types'
  <2>1. queued' \subseteq CommandKinds \X Nat
    BY <1>1 DEF IInv, Types, CommandKinds
  <2> QED
    BY <1>1, <1>3, <1>5, <2>1 DEF IInv, Types
<1>8. \A kind \in BuildKinds, i \in Nat :
           /\ Complete(kind, i)' <=> Complete(kind, i)
           /\ Started(kind, i)' <=> Started(kind, i)
  BY <1>1 DEF Complete, Started, Executing
<1>9. queue["build_in"] \in Seq(Nat)
  BY <1>4 DEF IInv, Types
<1>10. Buffers'
  BY <1>1, <1>2, <1>5, <1>8, <1>9, BuffersUntouched DEF IInv
<1>11. Holding'
  <2>1. \A t \in Threads : Append(queue[t], e_i) # <<>>
    BY <1>1, AppendIsNotEmpty DEF IInv, Types
  <2>2. \A t \in Threads : queue'[t] = Append(queue[t], e_i) \/ queue'[t] = queue[t]
    BY DEF EnqueueProbe
  <2> QED
    BY <1>1, <2>1, <2>2 DEF IInv, Holding
<1> QED
  BY <1>6, <1>7, <1>10, <1>11 DEF IInv

LEMMA CopyEnds ==
  ASSUME Types, Holding, NEW t \in Threads, CompleteAndPop(t), thread[t] = "copy",
         UNCHANGED <<main, queued, running>>
  PROVE  /\ Types' /\ Holding'
         /\ complete' = complete \cup {<<CopyOf[t], item(t)>>}
         /\ CopyOf[t] \in CopyKinds
         /\ UNCHANGED <<queued, running, e_i, builds>>
         /\ t # "build_in" => /\ UNCHANGED <<queue["build_in"], thread["build_in"]>>
                              /\ CopyOf[t] # "build_memcpy_in"
<1>1. UNCHANGED <<p, slice, e_i, step>>
  BY DEF main
<1>2. queue[t] \in Seq(Nat) /\ item(t) \in Nat /\ Tail(queue[t]) \in Seq(Nat)
  BY DEF Types, Holding, item
<1>3. CopyOf[t] \in CopyKinds /\ (t # "build_in" => CopyOf[t] # "build_memcpy_in")
  BY DEF CopyOf, CopyKinds, Threads
<1>4. complete' = complete \cup {<<CopyOf[t], item(t)>>}
  BY DEF CompleteAndPop
<1>5. queue' \in [Threads -> Seq(Nat)]
  BY <1>2 DEF CompleteAndPop, Types
<1>6. thread' \in [Threads -> {"idle", "front", "copy", "end"}]
  BY DEF CompleteAndPop, Types
<1>7. Types'
  BY <1>1, <1>2, <1>3, <1>4, <1>5, <1>6 DEF Types
<1>8. t # "build_in" => UNCHANGED <<queue["build_in"], thread["build_in"]>>
  BY DEF CompleteAndPop, Types, Threads
<1>9. Holding'
  <2>1. \A u \in Threads : u # t => thread'[u] = thread[u] /\ queue'[u] = queue[u]
    BY DEF CompleteAndPop, Types
  <2>2. thread'[t] # "copy"
    BY DEF CompleteAndPop, Types
  <2> QED
    BY <2>1, <2>2 DEF Holding
<1> QED
  BY <1>1, <1>3, <1>4, <1>7, <1>8, <1>9 DEF builds

LEMMA CopyBuildInStep == IInv /\ CopyBuildIn => IInv'
<1> SUFFICES ASSUME IInv, CopyBuildIn PROVE IInv'
  OBVIOUS
<1>1. "build_in" \in Threads /\ thread["build_in"] = "copy"
  BY DEF CopyBuildIn, Threads
<1>2. CompleteAndPop("build_in") /\ UNCHANGED <<main, queued, running>>
  BY DEF CopyBuildIn
<1>3. /\ Types' /\ Holding'
      /\ complete' = complete \cup {<<CopyOf["build_in"], item("build_in")>>}
      /\ CopyOf["build_in"] \in CopyKinds
      /\ UNCHANGED <<queued, running, e_i, builds>>
  BY <1>1, <1>2, CopyEnds DEF IInv
<1>4. Events'
  BY <1>3, EventsOfCopy DEF IInv
<1> QED
  BY <1>3, <1>4, BuffersOfCopyBuildIn DEF IInv

LEMMA OtherCopyStep ==
  ASSUME IInv, NEW t \in Threads, t # "build_in", CompleteAndPop(t), thread[t] = "copy",
         UNCHANGED <<main, queued, running, build_in, deviceBuffers>>
  PROVE  IInv'
<1>1. UNCHANGED <<queued, running, main, build_in, buf_build_in, hj_tmp>>
  BY DEF deviceBuffers
<1>2. /\ Types' /\ Holding'
      /\ complete' = complete \cup {<<CopyOf[t], item(t)>>}
      /\ CopyOf[t] \in CopyKinds /\ CopyOf[t] # "build_memcpy_in"
      /\ UNCHANGED <<queued, running, e_i, builds>>
      /\ UNCHANGED <<queue["build_in"], thread["build_in"]>>
  BY <1>1, CopyEnds DEF IInv
<1>3. Events'
  BY <1>2, EventsOfCopy DEF IInv
<1>4. \A kind \in BuildKinds, i \in Nat :
           /\ Complete(kind, i)' <=> Complete(kind, i)
           /\ Started(kind, i)' <=> Started(kind, i)
  BY <1>2 DEF Complete, Started, Executing, BuildKinds, CopyKinds
<1>5. queue["build_in"] \in Seq(Nat) /\ builds \in Nat
  BY DEF IInv, Types, Threads, builds
<1>6. Buffers'
  BY <1>1, <1>2, <1>4, <1>5, BuffersUntouched DEF IInv
<1> QED
  BY <1>2, <1>3, <1>6 DEF IInv

LEMMA StartStep ==
  ASSUME IInv, NEW c \in queued, Start(c[1], c[2])
  PROVE  IInv'
<1>1. c[1] \in CommandKinds /\ c[2] \in Nat /\ c = <<c[1], c[2]>>
  BY DEF IInv, Types
<1>2. /\ queued' = queued \ {c} /\ running' = running \cup {c}
      /\ UNCHANGED <<p, e_i, slice, step, queue, thread, complete>>
  BY <1>1 DEF Start, main, threads
<1>3. UNCHANGED builds
  BY <1>2 DEF builds
<1>4. Events'
  BY <1>1, <1>3, EventsOfStart DEF IInv
<1>5. Buffers'
  BY <1>1, BuffersOfStart DEF IInv
<1>6. Types' /\ Holding'
  BY <1>2 DEF IInv, Types, Holding
<1> QED
  BY <1>4, <1>5, <1>6 DEF IInv

LEMMA ExecuteStep ==
  ASSUME IInv, NEW n \in Nat, Execute(n)
  PROVE  IInv'
<1>1. PICK kind \in CommandKinds : Finish(kind, n)
  BY DEF Execute, TransferBuild, Build, TransferProbe, Probe, TransferBack, CommandKinds,
         BuildCommands, ProbeCommands
<1>2. /\ <<kind, n>> \in running
      /\ running' = running \ {<<kind, n>>} /\ complete' = complete \cup {<<kind, n>>}
      /\ UNCHANGED <<p, e_i, slice, step, queue, thread, queued>>
  BY <1>1 DEF Finish, main, threads
<1>3. UNCHANGED builds
  BY <1>2 DEF builds
<1>4. Events'
  BY <1>1, <1>3, EventsOfFinish DEF IInv
<1>5. Types' /\ Holding'
  BY <1>2 DEF IInv, Types, Holding
<1>6. Buffers'
  <2>1. CASE TransferBuild(n)
    BY <2>1, BuffersOfTransferBuild DEF IInv
  <2>2. CASE Build(n)
    BY <2>2, BuffersOfBuild DEF IInv
  <2>3. CASE TransferProbe(n) \/ Probe(n) \/ TransferBack(n)
    <3>1. PICK k \in ProbeCommands : Finish(k, n)
      BY <2>3 DEF TransferProbe, Probe, TransferBack, ProbeCommands
    <3>2. /\ Executing(k, n) /\ running' = running \ {<<k, n>>}
          /\ complete' = complete \cup {<<k, n>>} /\ UNCHANGED build_in
      BY <3>1 DEF Finish, Executing
    <3>3. \A kk \in BuildKinds, i \in Nat :
           /\ Complete(kk, i)' <=> Complete(kk, i)
           /\ Started(kk, i)' <=> Started(kk, i)
      BY <3>2 DEF Complete, Started, Executing, BuildKinds, ProbeCommands
    <3>4. UNCHANGED <<buf_build_in, hj_tmp>>
      BY <2>3 DEF TransferProbe, Probe, TransferBack, deviceBuffers
    <3>5. queue["build_in"] \in Seq(Nat) /\ builds \in Nat
      BY DEF IInv, Types, Threads, builds
    <3> QED
      BY <1>2, <1>3, <3>2, <3>3, <3>4, <3>5, BuffersUntouched DEF IInv
  <2> QED
    BY <2>1, <2>2, <2>3 DEF Execute
<1> QED
  BY <1>4, <1>5, <1>6 DEF IInv

LEMMA TakeStep == IInv /\ Take("build_in") => IInv'
<1> SUFFICES ASSUME IInv, Take("build_in") PROVE IInv'
  OBVIOUS
<1>1. /\ UNCHANGED <<p, e_i, slice, step, queue, events, queued, running, complete>>
      /\ thread' = [thread EXCEPT !["build_in"] = "copy"] /\ queue["build_in"] # <<>>
  BY DEF Take, main, events
<1>2. Types' /\ Holding'
  BY <1>1 DEF IInv, Types, Holding
<1>3. UNCHANGED builds /\ builds \in Nat
  BY <1>1 DEF builds, IInv, Types
<1>4. Events'
  BY <1>1, <1>3, EventsUnchanged DEF IInv
<1> QED
  BY <1>2, <1>4, BuffersOfTake DEF IInv

-----------------------------------------------------------------------------
(* The theorem *)

LEMMA IInvInit == Init => IInv
<1> SUFFICES ASSUME Init PROVE IInv
  OBVIOUS
<1>1. \A kind, i : ~Queued(kind, i) /\ ~Executing(kind, i) /\ ~Complete(kind, i)
  BY DEF Init, Queued, Executing, Complete
<1>2. Types /\ Holding
  BY DEF Init, Types, Holding, Steps, Threads
<1>3. Events
  BY <1>1 DEF Events, Fresh, Once, Waited, Ordered, Started
<1>4. queue["build_in"] = <<>> /\ Len(queue["build_in"]) = 0
  BY DEF Init, Threads
<1>5. Buffers
  BY <1>1, <1>4 DEF Buffers, InOrder, Copying4, HostBufferKept, DeviceBufferKept, TableKept,
                    Init, Threads
<1> QED
  BY <1>2, <1>3, <1>5 DEF IInv

LEMMA IInvNext == IInv /\ [Next]_vars => IInv'
<1> SUFFICES ASSUME IInv, [Next]_vars PROVE IInv'
  OBVIOUS
<1>1. CASE MainThread
  BY <1>1, StillSteps, EnqueueBuildStep, EnqueueProbeStep DEF MainThread
<1>2. ASSUME NEW t \in Threads, Thread(t)
      PROVE  IInv'
  <2>1. CASE End(t) \/ Take(t)
    BY <2>1, StillSteps, TakeStep
  <2>2. CASE CopyProbeIn(t)
    <3>1. /\ t # "build_in" /\ CompleteAndPop(t) /\ thread[t] = "copy"
          /\ UNCHANGED <<main, queued, running, build_in, deviceBuffers>>
      BY <2>2 DEF CopyProbeIn, CopyInThreads
    <3> QED
      BY <3>1, OtherCopyStep
  <2> QED
    BY <1>2, <2>1, <2>2 DEF Thread
<1>3. CASE Copying
  <2>1. CASE CopyOut
    <3>1. /\ "probe_out" \in Threads /\ CompleteAndPop("probe_out")
          /\ thread["probe_out"] = "copy"
          /\ UNCHANGED <<main, queued, running, build_in, deviceBuffers>>
      BY <2>1 DEF CopyOut, Threads, hostBuffers
    <3> QED
      BY <3>1, OtherCopyStep
  <2> QED
    BY <1>3, <2>1, StillSteps, CopyBuildInStep DEF Copying
<1>4. CASE \E c \in queued : Start(c[1], c[2])
  BY <1>4, StartStep
<1>5. CASE \E c \in running : Execute(c[2])
  <2>1. \A c \in running : c[2] \in Nat
    BY DEF IInv, Types
  <2> QED
    BY <1>5, <2>1, ExecuteStep
<1>6. CASE UNCHANGED vars
  <2>1. /\ UNCHANGED <<p, e_i, slice, step, queue, thread, events, build_in, buf_build_in, hj_tmp>>
    BY <1>6 DEF vars, main, threads, hostBuffers, deviceBuffers
  <2>2. UNCHANGED builds /\ builds \in Nat
    BY <2>1 DEF builds, IInv, Types
  <2>3. Holding'
    BY <2>1 DEF IInv, Holding
  <2> QED
    BY <2>1, <2>2, <2>3, Still DEF IInv, Types
<1> QED
  BY <1>1, <1>2, <1>3, <1>4, <1>5, <1>6 DEF Next, Finished

(* Every slice is probed with the hash table of its partition, whatever the   *)
(* number of partitions and slices and however threads, transfers and kernels *)
(* interleave: no build overwrites the table that a probe still reads.        *)
THEOREM HashTableCorrect == Spec => []HashTableKept
<1>1. Spec => []IInv
  BY IInvInit, IInvNext, PTL DEF Spec
<1> QED
  BY <1>1, HashTableOfSlice, PTL

-----------------------------------------------------------------------------
(* What is left at the end.  The two last results that the main thread waits  *)
(* for are of an even and an odd slice: before each there is that of every    *)
(* other slice, as they share a buffer, and before those all the rest.         *)

(* Where the main thread is. *)
Counted ==
  /\ e_i = p * Slices + slice /\ slice < Slices
  /\ step \in {"build", "probe"} => p < Partitions
  /\ step \in {"build", "wait", "stop", "join", "done"} => slice = 0
  /\ step \in {"wait", "stop", "join", "done"} => p = Partitions

(* What each thread has been given, and which of it is its own. *)
Given(t) == IF t = "build_in" THEN builds ELSE e_i
Own(t, i) == t \in CopyInThreads => CopiesIn(sid(i)) = t
Copied(t, i) == Complete(CopyOf[t], i)

QueueKept(t) ==
  /\ \A j \in 1..Len(queue[t]) :
       queue[t][j] < Given(t) /\ Own(t, queue[t][j]) /\ ~Copied(t, queue[t][j])
  /\ \A j, k \in 1..Len(queue[t]) : j < k => queue[t][j] < queue[t][k]
  /\ \A i \in Nat : Copied(t, i) => i < Given(t)

CopyWaited(t) ==
  /\ thread[t] = "copy" => MayStart(CopyOf[t], item(t))
  /\ \A i \in Nat : Copied(t, i) => MayStart(CopyOf[t], i)

EveryOther ==
  \A i, j \in Nat :
    Complete("probe_memcpy_out", i) /\ j < i /\ sid(j) = sid(i) => Complete("probe_memcpy_out", j)

LastWaited == step \in {"stop", "join", "done"} => LastEvents \subseteq complete

EndInv ==
  /\ Counted /\ EveryOther /\ LastWaited
  /\ \A t \in Threads : QueueKept(t) /\ CopyWaited(t)

-----------------------------------------------------------------------------
(* The solution with one build *)

ProbeKinds == {"l_h2d", "l_krn", "l_d2h"}
KindsOfOne == {"o_h2d", "o_krn"} \cup ProbeKinds

TypesOfOne ==
  /\ e_i \in Nat
  /\ step \in {"build", "built", "wait", "copy", "results", "launch", "done", "lost"}
  /\ queued \subseteq KindsOfOne \X Nat /\ running \subseteq KindsOfOne \X Nat
  /\ complete \subseteq KindsOfOne \X Nat

FreshOfOne ==
  \A k \in KindsOfOne, s \in Nat :
    Queued(k, s) \/ Started(k, s) =>
      /\ k \in {"o_h2d", "o_krn"} => s = 0 /\ step # "build"
      /\ k \in ProbeKinds => s < ProbeSlices
      /\ k \in {"l_krn", "l_d2h"} => s < e_i
      /\ k = "l_h2d" => s <= e_i /\ (s = e_i => step \in {"results", "launch", "lost"})

OnceOfOne ==
  \A k \in KindsOfOne, s \in Nat :
    /\ Queued(k, s) => ~Started(k, s)
    /\ Executing(k, s) => ~Complete(k, s)

WaitedOfOne == \A k \in KindsOfOne, s \in Nat : Started(k, s) => M!MayStart(k, s)

(* The results taken: they come two rounds after their slices. *)
Taken ==
  /\ step \notin {"build", "built"} => Complete("o_krn", 0)
  /\ IF step = "done" THEN e_i = M!Rounds ELSE e_i < M!Rounds
  /\ step = "copy" => e_i < ProbeSlices
  /\ \A s \in Nat : s < ProbeSlices /\ (s + 2 < e_i \/ (s + 2 = e_i /\ step = "launch")) =>
       Complete("l_d2h", s)

OneInv == TypesOfOne /\ FreshOfOne /\ OnceOfOne /\ WaitedOfOne /\ Taken

JInv ==
  \/ solution = 1 /\ OneInv
  \/ solution = 2 /\ IInv /\ EndInv

-----------------------------------------------------------------------------
(* What a step leaves alone *)

LEMMA ThreadOfCopy ==
  ASSUME NEW t \in Threads
  PROVE  /\ CopyOf[t] \in CopyKinds
         /\ t = "build_in" <=> CopyOf[t] = "build_memcpy_in"
         /\ t \in CopyInThreads <=> CopyOf[t] = "probe_memcpy_in"
         /\ t = "probe_out" <=> CopyOf[t] = "probe_memcpy_out"
BY DEF Threads, CopyOf, CopyKinds, CopyInThreads

LEMMA SlicesPositive == Slices \in Nat \ {0} /\ Partitions \in Nat \ {0} /\ Partitions * Slices > 1
BY HashJoinAssumption

LEMMA CountedKept ==
  ASSUME Counted, UNCHANGED <<p, slice, e_i>>,
         step' = step \/ step' = "exit" \/ (step = "build" /\ step' = "probe")
           \/ (step \in {"wait", "stop", "join", "done"} /\ step' \in {"wait", "stop", "join", "done"})
  PROVE  Counted'
BY DEF Counted

LEMMA QueueUnchanged ==
  ASSUME Types, NEW t \in Threads, QueueKept(t), queue'[t] = queue[t],
         builds \in Nat, builds' \in Nat, e_i' \in Nat, builds <= builds', e_i <= e_i',
         \A i \in Nat : Copied(t, i)' <=> Copied(t, i)
  PROVE  QueueKept(t)'
<1>1. Given(t) \in Nat /\ Given(t)' \in Nat /\ Given(t) <= Given(t)'
  BY DEF Given, Types
<1>2. queue[t] \in Seq(Nat) /\ \A j \in 1..Len(queue[t]) : queue[t][j] \in Nat
  BY DEF Types
<1>3. ASSUME NEW j \in 1..Len(queue'[t])
      PROVE  queue'[t][j] < Given(t)' /\ Own(t, queue'[t][j]) /\ <<CopyOf[t], queue'[t][j]>> \notin complete'
  <2>1. j \in 1..Len(queue[t]) /\ queue'[t][j] = queue[t][j] /\ queue[t][j] \in Nat
    BY <1>2
  <2>2. ~Copied(t, queue[t][j])'
    BY <2>1 DEF QueueKept
  <2> QED
    BY <1>1, <2>1, <2>2 DEF QueueKept, Copied, Complete
<1>4. /\ \A j, k \in 1..Len(queue'[t]) : j < k => queue'[t][j] < queue'[t][k]
      /\ \A i \in Nat : Copied(t, i)' => i < Given(t)'
  BY <1>1 DEF QueueKept
<1> QED
  BY <1>3, <1>4 DEF QueueKept, Own, Copied, Complete

LEMMA WaitedUnchanged ==
  ASSUME NEW t \in Threads, CopyWaited(t), complete \subseteq complete',
         \A i \in Nat : Copied(t, i)' => Copied(t, i) \/ MayStart(CopyOf[t], i),
         thread'[t] = "copy" =>
           /\ queue'[t] = queue[t]
           /\ thread[t] = "copy" \/ MayStart(CopyOf[t], item(t))
  PROVE  CopyWaited(t)'
<1>1. ASSUME thread'[t] = "copy" PROVE MayStart(CopyOf[t], item(t))'
  <2>1. MayStart(CopyOf[t], item(t)) /\ item(t)' = item(t)
    BY <1>1 DEF CopyWaited, item
  <2> QED
    BY <2>1, MayStartKept
<1>2. ASSUME NEW i \in Nat, Copied(t, i)' PROVE MayStart(CopyOf[t], i)'
  BY <1>2, MayStartKept DEF CopyWaited
<1> QED
  BY <1>1, <1>2 DEF CopyWaited

(* No copy ends, and nothing is enqueued. *)
LEMMA EndStill ==
  ASSUME IInv, IInv', EndInv, UNCHANGED <<p, slice, e_i, queue>>, builds <= builds',
         complete \subseteq complete',
         step' = step \/ step' = "exit"
           \/ (step \in {"wait", "stop", "join", "done"} /\ step' \in {"wait", "stop", "join", "done"}),
         step' \in {"stop", "join", "done"} => LastEvents \subseteq complete,
         \A k \in CopyKinds, i \in Nat : Complete(k, i)' <=> Complete(k, i),
         \A t \in Threads : thread'[t] = "copy" =>
           thread[t] = "copy" \/ MayStart(CopyOf[t], item(t))
  PROVE  EndInv'
<1>1. Counted'
  BY CountedKept DEF EndInv
<1>2. EveryOther'
  BY DEF EndInv, EveryOther, CopyKinds, sid
<1>3. LastWaited'
  BY DEF LastWaited, LastEvents
<1>4. builds \in Nat /\ builds' \in Nat /\ e_i \in Nat
  BY DEF IInv, Types, builds
<1>5. ASSUME NEW t \in Threads PROVE QueueKept(t)' /\ CopyWaited(t)'
  <2>1. \A i \in Nat : Copied(t, i)' <=> Copied(t, i)
    BY ThreadOfCopy DEF Copied
  <2>2. QueueKept(t)'
    BY <1>4, <2>1, QueueUnchanged DEF EndInv, IInv
  <2>3. CopyWaited(t)'
    BY <2>1, WaitedUnchanged DEF EndInv
  <2> QED
    BY <2>2, <2>3
<1> QED
  BY <1>1, <1>2, <1>3, <1>5 DEF EndInv

-----------------------------------------------------------------------------
(* The main thread *)

LEMMA EndOfMain ==
  ASSUME IInv, IInv', EndInv, AssertionFails \/ WaitForEvents \/ StopThreads \/ JoinThreads \/ OutTooLarge
  PROVE  EndInv'
<1>1. /\ UNCHANGED <<p, slice, e_i, queue, thread, complete>>
      /\ step' = step \/ step' = "exit"
           \/ (step \in {"wait", "stop", "join", "done"} /\ step' \in {"wait", "stop", "join", "done"})
      /\ step' \in {"stop", "join", "done"} =>
           LastEvents \subseteq complete \/ step \in {"stop", "join", "done"}
      /\ step = "probe" => step' = "exit"
  BY DEF AssertionFails, WaitForEvents, StopThreads, JoinThreads, OutTooLarge, threads, events
<1>2. step' \in {"stop", "join", "done"} => LastEvents \subseteq complete
  BY <1>1 DEF EndInv, LastWaited
<1>3. builds <= builds'
  BY <1>1 DEF IInv, Types, builds
<1>4. \A k \in CopyKinds, i \in Nat : Complete(k, i)' <=> Complete(k, i)
  BY <1>1 DEF Complete
<1> QED
  BY <1>1, <1>2, <1>3, <1>4, EndStill

LEMMA QueueAppends ==
  ASSUME NEW q \in Seq(Nat), NEW n \in Nat
  PROVE  /\ Append(q, n) \in Seq(Nat) /\ Len(q) \in Nat /\ Len(Append(q, n)) = Len(q) + 1
         /\ \A j \in 1..Len(Append(q, n)) :
              \/ j \in 1..Len(q) /\ Append(q, n)[j] = q[j]
              \/ j = Len(q) + 1 /\ Append(q, n)[j] = n
OBVIOUS

(* What is enqueued comes behind what has been. *)
LEMMA QueueGiven ==
  ASSUME Types, NEW t \in Threads, QueueKept(t), Given(t) \in Nat,
         queue'[t] = Append(queue[t], Given(t)), Given(t)' = Given(t) + 1, Own(t, Given(t)),
         \A i \in Nat : Copied(t, i)' <=> Copied(t, i)
  PROVE  QueueKept(t)'
<1> DEFINE q == queue[t]
           n == Given(t)
<1>1. q \in Seq(Nat) /\ n \in Nat /\ \A j \in 1..Len(q) : q[j] \in Nat
  BY DEF Types
<1>2. \A j \in 1..Len(q) : q[j] < n /\ Own(t, q[j]) /\ ~Copied(t, q[j])
  BY DEF QueueKept
<1>3. \A j, k \in 1..Len(q) : j < k => q[j] < q[k]
  BY DEF QueueKept
<1>4. \A i \in Nat : Copied(t, i)' => i < n
  BY DEF QueueKept
<1>5. queue'[t] = Append(q, n) /\ Given(t)' = n + 1 /\ Own(t, n)
  OBVIOUS
<1>6. \A j \in 1..Len(q) : <<CopyOf[t], q[j]>> \notin complete'
  <2> TAKE j \in 1..Len(q)
  <2>1. PICK i \in Nat : i = q[j]
    BY <1>1
  <2>2. ~Copied(t, i)'
    BY <1>2, <2>1
  <2> QED
    BY <2>1, <2>2 DEF Copied, Complete
<1>7. <<CopyOf[t], n>> \notin complete'
  <2>1. PICK i \in Nat : i = n
    BY <1>1
  <2>2. ~Copied(t, i)'
    BY <1>1, <1>4, <2>1
  <2> QED
    BY <2>1, <2>2 DEF Copied, Complete
<1> HIDE DEF q, n
<1>8. ASSUME NEW j \in 1..Len(queue'[t])
      PROVE  queue'[t][j] < Given(t)' /\ Own(t, queue'[t][j]) /\ <<CopyOf[t], queue'[t][j]>> \notin complete'
  <2>1. CASE j \in 1..Len(q) /\ queue'[t][j] = q[j]
    BY <1>1, <1>2, <1>5, <1>6, <2>1
  <2>2. CASE queue'[t][j] = n
    <3>1. n < Given(t)' /\ Own(t, n)
      BY <1>1, <1>5
    <3> QED
      BY <1>7, <2>2, <3>1
  <2>3. \A k \in 1..Len(Append(q, n)) :
          (k \in 1..Len(q) /\ Append(q, n)[k] = q[k]) \/ Append(q, n)[k] = n
    BY <1>1, QueueAppends
  <2>4. (j \in 1..Len(q) /\ queue'[t][j] = q[j]) \/ queue'[t][j] = n
    BY <1>5, <2>3
  <2> QED
    BY <2>1, <2>2, <2>4
<1>9. ASSUME NEW j \in 1..Len(queue'[t]), NEW k \in 1..Len(queue'[t]), j < k
      PROVE  queue'[t][j] < queue'[t][k]
  <2>1. Len(q) \in Nat /\ j \in 1..Len(q) /\ Append(q, n)[j] = q[j]
    BY <1>1, <1>5, <1>9, QueueAppends
  <2> QED
    BY <1>1, <1>2, <1>3, <1>5, <1>9, <2>1, QueueAppends
<1>10. \A i \in Nat : Copied(t, i)' => i < Given(t)'
  BY <1>1, <1>4, <1>5
<1> QED
  BY <1>8, <1>9, <1>10 DEF QueueKept, Own, Copied, Complete

LEMMA EndOfEnqueueBuild ==
  ASSUME IInv, IInv', EndInv, EnqueueBuild
  PROVE  EndInv'
<1>1. /\ step = "build" /\ step' = "probe" /\ builds = p /\ builds' = p + 1 /\ p \in Nat /\ e_i \in Nat
      /\ UNCHANGED <<p, slice, e_i, thread, complete>>
      /\ queue' = [queue EXCEPT !["build_in"] = Append(@, p)]
  BY DEF EnqueueBuild, builds, IInv, Types
<1>2. Counted' /\ EveryOther' /\ LastWaited'
  BY <1>1 DEF EndInv, Counted, EveryOther, LastWaited, Complete, sid
<1>3. ASSUME NEW t \in Threads PROVE QueueKept(t)' /\ CopyWaited(t)'
  <2>1. \A i \in Nat : Copied(t, i)' <=> Copied(t, i)
    BY <1>1 DEF Copied, Complete
  <2>2. queue \in [Threads -> Seq(Nat)] /\ QueueKept(t) /\ Types
    BY DEF IInv, Types, EndInv
  <2>3. CASE t = "build_in"
    <3>1. queue'[t] = Append(queue[t], p) /\ Given(t) = p /\ Given(t)' = p + 1
      BY <1>1, <2>2, <2>3 DEF Given
    <3>2. QueueKept(t)'
      BY <1>1, <2>1, <2>2, <2>3, <3>1, QueueGiven DEF Own, CopyInThreads
    <3>3. thread[t] = "copy" => item(t)' = item(t)
      BY <1>1, <2>2, <3>1 DEF item, IInv, Holding
    <3>4. CopyWaited(t)'
      <4>1. complete \subseteq complete' /\ thread'[t] = thread[t]
        BY <1>1
      <4>2. thread'[t] = "copy" => MayStart(CopyOf[t], item(t))'
        BY <3>3, <4>1, MayStartKept DEF EndInv, CopyWaited
      <4>3. \A i \in Nat : Copied(t, i)' => MayStart(CopyOf[t], i)'
        BY <2>1, <4>1, MayStartKept DEF EndInv, CopyWaited
      <4> QED
        BY <4>2, <4>3 DEF CopyWaited
    <3> QED
      BY <3>2, <3>4
  <2>4. CASE t # "build_in"
    <3>1. queue'[t] = queue[t]
      BY <1>1, <2>2, <2>4
    <3>2. QueueKept(t)'
      BY <1>1, <2>1, <2>2, <3>1, QueueUnchanged
    <3>3. CopyWaited(t)'
      BY <1>1, <2>1, <3>1, WaitedUnchanged DEF EndInv
    <3> QED
      BY <3>2, <3>3
  <2> QED
    BY <2>3, <2>4
<1> QED
  BY <1>2, <1>3 DEF EndInv

(* After the last slice of a partition the next is counted from the start.   *)
LEMMA NextSlice ==
  ASSUME Types, Counted, EnqueueProbe
  PROVE  Counted'
<1>1. /\ step = "probe" /\ p \in Nat /\ slice \in Nat /\ e_i' = e_i + 1
      /\ p < Partitions /\ slice < Slices /\ e_i = p * Slices + slice
      /\ slice' = IF slice + 1 < Slices THEN slice + 1 ELSE 0
      /\ p' = IF slice + 1 < Slices THEN p ELSE p + 1
      /\ step' = IF slice + 1 < Slices THEN "probe"
                 ELSE IF p + 1 < Partitions THEN "build" ELSE "wait"
  BY DEF Types, Counted, EnqueueProbe
<1>2. (p + 1) * Slices = p * Slices + Slices /\ p * Slices \in Nat
  BY <1>1, SlicesPositive
<1>3. CASE slice + 1 < Slices
  BY <1>1, <1>2, <1>3 DEF Counted
<1>4. CASE ~(slice + 1 < Slices)
  <2>1. slice + 1 = Slices /\ e_i' = (p + 1) * Slices + 0
    BY <1>1, <1>2, <1>4, SlicesPositive
  <2>2. p' = p + 1 /\ slice' = 0
    BY <1>1, <1>4
  <2>3. step' = IF p + 1 < Partitions THEN "build" ELSE "wait"
    BY <1>1, <1>4
  <2>4. ~(p + 1 < Partitions) => p + 1 = Partitions
    BY <1>1, SlicesPositive
  <2> QED
    BY <2>1, <2>2, <2>3, <2>4, SlicesPositive DEF Counted
<1> QED
  BY <1>3, <1>4

LEMMA EndOfEnqueueProbe ==
  ASSUME IInv, IInv', EndInv, EnqueueProbe
  PROVE  EndInv'
<1>1. /\ step = "probe" /\ e_i \in Nat /\ p \in Nat /\ e_i' = e_i + 1 /\ UNCHANGED <<thread, complete>>
      /\ step' \in {"probe", "build", "wait"} /\ builds = p + 1 /\ builds' = p + 1
  BY DEF EnqueueProbe, builds, IInv, Types
<1>2. Counted'
  BY NextSlice DEF IInv, EndInv
<1>3. EveryOther' /\ LastWaited'
  BY <1>1 DEF EndInv, EveryOther, LastWaited, Complete, sid
<1>4. ASSUME NEW t \in Threads PROVE QueueKept(t)' /\ CopyWaited(t)'
  <2>1. \A i \in Nat : Copied(t, i)' <=> Copied(t, i)
    BY <1>1 DEF Copied, Complete
  <2>2. QueueKept(t) /\ Types /\ complete \subseteq complete' /\ thread'[t] = thread[t]
    BY <1>1 DEF IInv, EndInv
  <2>3. queue[t] \in Seq(Nat)
    BY <2>2 DEF Types
  <2>4. CASE t \in {CopiesIn(sid(e_i)), "probe_out"}
    <3>1. t # "build_in" /\ Own(t, e_i)
      BY <2>4 DEF CopiesIn, Own, CopyInThreads
    <3>2. queue'[t] = Append(queue[t], e_i) /\ Given(t) = e_i /\ Given(t)' = e_i + 1
      BY <1>1, <2>4, <3>1 DEF EnqueueProbe, Given
    <3>3. QueueKept(t)'
      BY <1>1, <2>1, <2>2, <3>1, <3>2, QueueGiven
    <3>4. thread[t] = "copy" => item(t)' = item(t)
      BY <1>1, <2>3, <3>2 DEF item, IInv, Holding
    <3>5. CopyWaited(t)'
      <4>1. thread'[t] = "copy" => MayStart(CopyOf[t], item(t))'
        BY <2>2, <3>4, MayStartKept DEF EndInv, CopyWaited
      <4>2. \A i \in Nat : Copied(t, i)' => MayStart(CopyOf[t], i)'
        BY <2>1, <2>2, MayStartKept DEF EndInv, CopyWaited
      <4> QED
        BY <4>1, <4>2 DEF CopyWaited
    <3> QED
      BY <3>3, <3>5
  <2>5. CASE t \notin {CopiesIn(sid(e_i)), "probe_out"}
    <3>1. queue'[t] = queue[t]
      BY <2>5 DEF EnqueueProbe
    <3>2. QueueKept(t)'
      BY <1>1, <2>1, <2>2, <3>1, QueueUnchanged
    <3>3. CopyWaited(t)'
      BY <2>1, <2>2, <3>1, WaitedUnchanged DEF EndInv
    <3> QED
      BY <3>2, <3>3
  <2> QED
    BY <2>4, <2>5
<1> QED
  BY <1>2, <1>3, <1>4 DEF EndInv

-----------------------------------------------------------------------------
(* The threads and the device *)

(* Before the result of a slice comes that of the last but one.               *)
LEMMA OtherBefore ==
  ASSUME IInv, EveryOther, NEW e \in Nat, MayStart("probe_memcpy_out", e),
         NEW j \in Nat, j < e, sid(j) = sid(e)
  PROVE  Complete("probe_memcpy_out", j)
<1>1. Complete("probe_d2h", e)
  BY DEF MayStart, Over, Complete
<1>2. MayStart("probe_d2h", e)
  BY <1>1 DEF IInv, Events, Waited, Started, CommandKinds, ProbeCommands
<1>3. e - 2 \in Nat /\ j <= e - 2 /\ sid(e - 2) = sid(e)
  BY DEF sid
<1>4. Complete("probe_memcpy_out", e - 2)
  BY <1>2, <1>3 DEF MayStart, Over, Complete
<1> QED
  BY <1>3, <1>4 DEF EveryOther

LEMMA EndOfCopy ==
  ASSUME IInv, IInv', EndInv, NEW u \in Threads, CompleteAndPop(u), thread[u] = "copy",
         UNCHANGED <<main, queued, running>>
  PROVE  EndInv'
<1> DEFINE e == item(u)
<1>1. /\ queue \in [Threads -> Seq(Nat)] /\ queue[u] # <<>> /\ e_i \in Nat /\ builds \in Nat
      /\ thread \in [Threads -> {"idle", "front", "copy", "end"}]
      /\ UNCHANGED <<p, slice, e_i, step, builds>>
  BY DEF IInv, Types, Holding, main, builds
<1>2. e \in Nat /\ e = queue[u][1] /\ 1 \in 1..Len(queue[u]) /\ QueueKept(u) /\ MayStart(CopyOf[u], e)
  BY <1>1 DEF item, EndInv, CopyWaited
<1>3. complete' = complete \cup {<<CopyOf[u], e>>}
  BY DEF CompleteAndPop
<1>4. /\ queue'[u] = Tail(queue[u]) /\ thread'[u] # "copy"
      /\ \A t \in Threads : t # u => queue'[t] = queue[t] /\ thread'[t] = thread[t]
  BY <1>1 DEF CompleteAndPop
<1> HIDE DEF e
<1>5. \A t \in Threads : \A i \in Nat :
        Copied(t, i)' <=> Copied(t, i) \/ (CopyOf[t] = CopyOf[u] /\ i = e)
  BY <1>3 DEF Copied, Complete
<1>6. ASSUME NEW t \in Threads PROVE CopyWaited(t)'
  <2>1. \A i \in Nat : Copied(t, i)' => Copied(t, i) \/ MayStart(CopyOf[t], i)
    BY <1>2, <1>5
  <2>2. complete \subseteq complete' /\ CopyWaited(t)
    BY <1>3 DEF EndInv
  <2>3. thread'[t] = "copy" => queue'[t] = queue[t] /\ thread[t] = "copy"
    BY <1>4
  <2> QED
    BY <2>1, <2>2, <2>3, WaitedUnchanged
<1>7. QueueKept(u)'
  <2>1. /\ Len(queue'[u]) \in Nat /\ Len(queue[u]) \in Nat /\ Len(queue'[u]) = Len(queue[u]) - 1
        /\ \A j \in 1..Len(queue'[u]) :
             j + 1 \in 1..Len(queue[u]) /\ queue'[u][j] = queue[u][j + 1] /\ queue[u][j + 1] \in Nat
    BY <1>1, <1>4
  <2>2. Given(u)' = Given(u) /\ Given(u) \in Nat
    BY <1>1 DEF Given
  <2>3. ASSUME NEW j \in 1..Len(queue'[u])
        PROVE  /\ queue'[u][j] < Given(u)' /\ Own(u, queue'[u][j])
               /\ <<CopyOf[u], queue'[u][j]>> \notin complete'
    <3>1. e < queue[u][j + 1]
      BY <1>2, <2>1 DEF QueueKept
    <3>2. <<CopyOf[u], queue[u][j + 1]>> \notin complete
      BY <1>2, <2>1 DEF QueueKept, Copied, Complete
    <3>3. queue[u][j + 1] < Given(u) /\ Own(u, queue[u][j + 1])
      BY <1>2, <2>1 DEF QueueKept
    <3>4. queue[u][j + 1] # e
      BY <1>2, <2>1, <3>1
    <3> QED
      BY <1>3, <2>1, <2>2, <3>2, <3>3, <3>4
  <2>4. \A j, k \in 1..Len(queue'[u]) : j < k => queue'[u][j] < queue'[u][k]
    BY <1>2, <2>1 DEF QueueKept
  <2>5. \A i \in Nat : Copied(u, i)' => i < Given(u)'
    BY <1>2, <1>5, <2>2 DEF QueueKept
  <2> QED
    BY <2>3, <2>4, <2>5 DEF QueueKept, Own, Copied, Complete
<1>8. ASSUME NEW t \in Threads, t # u PROVE QueueKept(t)'
  <2>1. queue'[t] = queue[t] /\ queue[t] \in Seq(Nat) /\ QueueKept(t)
    BY <1>1, <1>4, <1>8 DEF EndInv
  <2>2. Given(t)' = Given(t)
    BY <1>1 DEF Given
  <2>3. CopyOf[t] = CopyOf[u] => t \in CopyInThreads /\ u \in CopyInThreads
    BY <1>8 DEF CopyOf, Threads, CopyInThreads
  <2>4. ASSUME NEW j \in 1..Len(queue[t])
        PROVE  <<CopyOf[t], queue[t][j]>> \notin complete'
    <3>1. queue[t][j] \in Nat /\ Own(t, queue[t][j]) /\ <<CopyOf[t], queue[t][j]>> \notin complete
      BY <2>1 DEF QueueKept, Copied, Complete
    <3>2. CASE CopyOf[t] = CopyOf[u]
      <4>1. Own(u, e)
        BY <1>2 DEF QueueKept
      <4>2. queue[t][j] # e
        BY <1>8, <2>3, <3>1, <3>2, <4>1 DEF Own
      <4> QED
        BY <1>3, <3>1, <4>2
    <3>3. CASE CopyOf[t] # CopyOf[u]
      BY <1>3, <3>1, <3>3
    <3> QED
      BY <3>2, <3>3
  <2>5. \A i \in Nat : Copied(t, i)' => i < Given(t)'
    <3>1. CopyOf[t] = CopyOf[u] => e < Given(t)
      BY <1>2, <2>3 DEF QueueKept, Given, CopyInThreads
    <3> QED
      BY <1>5, <2>1, <2>2, <3>1 DEF QueueKept
  <2>6. \A j, k \in 1..Len(queue'[t]) : j < k => queue'[t][j] < queue'[t][k]
    BY <2>1 DEF QueueKept
  <2>7. \A j \in 1..Len(queue'[t]) : queue'[t][j] < Given(t)' /\ Own(t, queue'[t][j])
    BY <2>1, <2>2 DEF QueueKept
  <2> QED
    BY <2>1, <2>4, <2>5, <2>6, <2>7 DEF QueueKept, Own, Copied, Complete
<1>9. EveryOther'
  <2>1. \A i \in Nat : Complete("probe_memcpy_out", i)' <=>
          Complete("probe_memcpy_out", i) \/ (u = "probe_out" /\ i = e)
    BY <1>3, ThreadOfCopy DEF Complete
  <2>2. u = "probe_out" => MayStart("probe_memcpy_out", e)
    BY <1>2, ThreadOfCopy
  <2>3. EveryOther
    BY DEF EndInv
  <2>4. ASSUME NEW i \in Nat, NEW j \in Nat, Complete("probe_memcpy_out", i)', j < i, sid(j) = sid(i)
        PROVE  Complete("probe_memcpy_out", j)
    <3>1. CASE Complete("probe_memcpy_out", i)
      BY <2>3, <2>4, <3>1 DEF EveryOther
    <3>2. CASE u = "probe_out" /\ i = e
      BY <2>2, <2>3, <2>4, <3>2, OtherBefore
    <3> QED
      BY <2>1, <2>4, <3>1, <3>2
  <2> QED
    BY <2>1, <2>4 DEF EveryOther, sid
<1>10. Counted' /\ LastWaited'
  BY <1>1, <1>3 DEF EndInv, Counted, LastWaited, LastEvents
<1> QED
  BY <1>6, <1>7, <1>8, <1>9, <1>10 DEF EndInv

LEMMA EndOfThread ==
  ASSUME IInv, IInv', EndInv, NEW t \in Threads, End(t) \/ Take(t)
  PROVE  EndInv'
<1>1. /\ UNCHANGED <<p, slice, e_i, step, queue, complete>>
      /\ thread' = [thread EXCEPT ![t] = "end"]
         \/ (thread' = [thread EXCEPT ![t] = "copy"] /\ MayStart(CopyOf[t], item(t)))
  BY DEF End, Take, main, events
<1>2. \A u \in Threads : thread'[u] = "copy" => thread[u] = "copy" \/ MayStart(CopyOf[u], item(u))
  BY <1>1 DEF IInv, Types
<1>3. builds' = builds /\ builds \in Nat /\ complete \subseteq complete'
  BY <1>1 DEF builds, IInv, Types
<1>4. \A k \in CopyKinds, i \in Nat : Complete(k, i)' <=> Complete(k, i)
  BY <1>1 DEF Complete
<1>5. step' \in {"stop", "join", "done"} => LastEvents \subseteq complete
  BY <1>1 DEF EndInv, LastWaited
<1> QED
  BY <1>1, <1>2, <1>3, <1>4, <1>5, EndStill

LEMMA EndOfDevice ==
  ASSUME IInv, IInv', EndInv,
         (\E c \in queued : Start(c[1], c[2])) \/ (\E c \in running : Execute(c[2]))
  PROVE  EndInv'
<1>1. UNCHANGED <<p, slice, e_i, step, queue, thread>>
  BY DEF Start, Execute, TransferBuild, Build, TransferProbe, Probe, TransferBack, Finish, main, threads
<1>2. complete' = complete \/ (\E k \in CommandKinds : \E i : complete' = complete \cup {<<k, i>>})
  <2>1. CASE \E c \in queued : Start(c[1], c[2])
    BY <2>1 DEF Start
  <2>2. CASE \E c \in running : Execute(c[2])
    BY <2>2 DEF Execute, TransferBuild, Build, TransferProbe, Probe, TransferBack, Finish,
                CommandKinds, BuildCommands, ProbeCommands
  <2> QED
    BY <2>1, <2>2
<1>3. builds' = builds /\ builds \in Nat /\ complete \subseteq complete'
  BY <1>1, <1>2 DEF builds, IInv, Types
<1>4. \A k \in CopyKinds, i \in Nat : Complete(k, i)' <=> Complete(k, i)
  BY <1>2 DEF Complete, CopyKinds, CommandKinds, BuildCommands, ProbeCommands
<1>5. step' \in {"stop", "join", "done"} => LastEvents \subseteq complete
  BY <1>1 DEF EndInv, LastWaited
<1> QED
  BY <1>1, <1>3, <1>4, <1>5, EndStill

LEMMA EndInvInit == Init => EndInv
<1> SUFFICES ASSUME Init PROVE EndInv
  OBVIOUS
<1>1. complete = {} /\ \A t \in Threads : queue[t] = <<>> /\ thread[t] = "idle" /\ Len(queue[t]) = 0
  BY DEF Init
<1>2. Counted
  BY SlicesPositive DEF Init, Counted
<1>3. EveryOther /\ LastWaited
  BY <1>1 DEF Init, EveryOther, LastWaited, Complete
<1>4. \A t \in Threads : QueueKept(t) /\ CopyWaited(t)
  BY <1>1 DEF QueueKept, CopyWaited, Copied, Complete
<1> QED
  BY <1>2, <1>3, <1>4 DEF EndInv

LEMMA EndInvNext ==
  ASSUME IInv, EndInv, [Next]_vars
  PROVE  EndInv'
<1>0. IInv'
  BY IInvNext
<1>1. CASE MainThread
  BY <1>0, <1>1, EndOfMain, EndOfEnqueueBuild, EndOfEnqueueProbe DEF MainThread
<1>2. ASSUME NEW t \in Threads, Thread(t)
      PROVE  EndInv'
  <2>1. CASE CopyProbeIn(t)
    BY <1>0, <2>1, EndOfCopy DEF CopyProbeIn
  <2> QED
    BY <1>0, <1>2, <2>1, EndOfThread DEF Thread
<1>3. CASE Copying
  <2>1. "build_in" \in Threads /\ "probe_out" \in Threads
    BY DEF Threads
  <2>2. CASE CopyBuildIn
    BY <1>0, <2>1, <2>2, EndOfCopy DEF CopyBuildIn
  <2>3. CASE CopyOut
    BY <1>0, <2>1, <2>3, EndOfCopy DEF CopyOut
  <2> QED
    BY <1>0, <1>3, <2>2, <2>3, EndOfMain DEF Copying
<1>4. CASE (\E c \in queued : Start(c[1], c[2])) \/ (\E c \in running : Execute(c[2]))
  BY <1>0, <1>4, EndOfDevice
<1>5. CASE UNCHANGED vars
  <2>1. UNCHANGED <<p, slice, e_i, step, queue, thread, complete>>
    BY <1>5 DEF vars, main, threads, events
  <2>2. builds' = builds /\ builds \in Nat /\ complete \subseteq complete'
    BY <2>1 DEF builds, IInv, Types
  <2>3. \A k \in CopyKinds, i \in Nat : Complete(k, i)' <=> Complete(k, i)
    BY <2>1 DEF Complete
  <2>4. step' \in {"stop", "join", "done"} => LastEvents \subseteq complete
    BY <2>1 DEF EndInv, LastWaited
  <2> QED
    BY <1>0, <2>1, <2>2, <2>3, <2>4, EndStill
<1> QED
  BY <1>1, <1>2, <1>3, <1>4, <1>5 DEF Next, Finished

-----------------------------------------------------------------------------
(* Both parities, and all before them, are over at the end. *)

LEMMA ResultsOver ==
  ASSUME IInv, EndInv, step = "done", NEW e \in Nat, e < e_i
  PROVE  Complete("probe_memcpy_out", e)
<1>1. e_i \in Nat /\ e_i > 1
  BY SlicesPositive DEF IInv, Types, EndInv, Counted
<1>2. Complete("probe_memcpy_out", e_i - 1) /\ Complete("probe_memcpy_out", e_i - 2)
  BY DEF EndInv, LastWaited, LastEvents, Complete
<1>3. PICK i \in {e_i - 1, e_i - 2} : sid(i) = sid(e) /\ e <= i /\ i \in Nat
  BY <1>1 DEF sid
<1> QED
  BY <1>2, <1>3 DEF EndInv, EveryOther

LEMMA SliceOver ==
  ASSUME IInv, EndInv, step = "done", NEW e \in Nat, e < e_i
  PROVE  /\ \A k \in ProbeCommands : Complete(k, e)
         /\ Complete("probe_memcpy_in", e) /\ Complete("build_krn", PartitionOf(e))
<1>1. MayStart("probe_memcpy_out", e)
  <2>1. Copied("probe_out", e) /\ CopyOf["probe_out"] = "probe_memcpy_out" /\ "probe_out" \in Threads
    BY ResultsOver DEF Copied, CopyOf, Threads
  <2> QED
    BY <2>1 DEF EndInv, CopyWaited
<1>2. Complete("probe_d2h", e)
  BY <1>1 DEF MayStart, Over, Complete
<1>3. MayStart("probe_d2h", e)
  BY <1>2 DEF IInv, Events, Waited, Started, CommandKinds, ProbeCommands
<1>4. Complete("probe_krn", e)
  BY <1>3 DEF MayStart, Over, Complete
<1>5. MayStart("probe_krn", e)
  BY <1>4 DEF IInv, Events, Waited, Started, CommandKinds, ProbeCommands
<1>6. Complete("probe_h2d", e) /\ Complete("build_krn", PartitionOf(e))
  <2>1. Complete("probe_h2d", e)
    BY <1>5 DEF MayStart, Over, Complete
  <2> QED
    BY <1>5, <2>1, WaitsOfProbe
<1>7. MayStart("probe_h2d", e)
  BY <1>6 DEF IInv, Events, Waited, Started, CommandKinds, ProbeCommands
<1>8. Complete("probe_memcpy_in", e)
  BY <1>7 DEF MayStart, Over, Complete
<1> QED
  BY <1>2, <1>4, <1>6, <1>8 DEF ProbeCommands

LEMMA LastPartition == PartitionOf(LastSlice) = Partitions - 1 /\ LastSlice \in Nat
<1>1. /\ Slices \in Nat /\ Slices > 0 /\ Partitions \in Nat /\ Partitions > 0
      /\ Partitions * Slices \in Nat /\ Partitions * Slices > 1
  BY SlicesPositive
<1>2. Partitions * Slices - 1 = Slices * (Partitions - 1) + (Slices - 1)
  BY <1>1
<1>3. ASSUME NEW a \in Nat, NEW b \in Nat, NEW n \in Nat, b < n PROVE (n * a + b) \div n = a
  <2> DEFINE k == (n * a + b) \div n
  <2>1. n * a \in Nat
    BY <1>3
  <2>2. k \in Int /\ n * k <= n * a + b /\ n * a + b < n * k + n
    BY <1>3, <2>1
  <2> HIDE DEF k
  <2>3. ~(k < a)
    <3> SUFFICES ASSUME k + 1 <= a PROVE FALSE
      BY <2>2
    <3>1. n * (k + 1) <= n * a /\ n * (k + 1) = n * k + n
      BY <1>3, <2>2
    <3> QED
      BY <1>3, <2>1, <2>2, <3>1
  <2>4. ~(k > a)
    <3> SUFFICES ASSUME a + 1 <= k PROVE FALSE
      BY <2>2
    <3>1. n * (a + 1) <= n * k /\ n * (a + 1) = n * a + n
      BY <1>3, <2>2
    <3> QED
      BY <1>3, <2>1, <2>2, <3>1
  <2>5. k = a
    BY <2>2, <2>3, <2>4
  <2> QED
    BY <2>5 DEF k
<1> QED
  BY <1>1, <1>2, <1>3 DEF PartitionOf, LastSlice

LEMMA BuildOver ==
  ASSUME IInv, EndInv, step = "done", NEW q \in Nat, q < builds
  PROVE  Complete("build_krn", q) /\ Complete("build_h2d", q) /\ Complete("build_memcpy_in", q)
<1>1. builds = Partitions /\ e_i = Partitions * Slices
  BY SlicesPositive DEF builds, EndInv, Counted, IInv, Types
<1>2. Complete("build_krn", Partitions - 1)
  BY <1>1, LastPartition, SliceOver DEF LastSlice
<1>3. Complete("build_krn", q)
  <2>1. q = Partitions - 1 \/ q < Partitions - 1
    BY <1>1, SlicesPositive
  <2>2. Partitions - 1 \in Nat
    BY SlicesPositive
  <2>3. CASE q < Partitions - 1
    BY <1>2, <2>2, <2>3 DEF IInv, Events, Ordered, Started, BuildCommands
  <2> QED
    BY <1>2, <2>1, <2>3
<1>4. Complete("build_h2d", q)
  BY <1>3, WaitsOfBuild DEF IInv, Events, Waited, Started, CommandKinds, BuildCommands
<1>5. Complete("build_memcpy_in", q)
  BY <1>4, WaitsOfBuildTransfer DEF IInv, Events, Waited, Started, CommandKinds, BuildCommands
<1> QED
  BY <1>3, <1>4, <1>5

LEMMA NoneLeft == IInv /\ EndInv => NoWorkLeft
<1> SUFFICES ASSUME IInv, EndInv, step = "done"
             PROVE  /\ \A t \in Threads : queue[t] = <<>>
                    /\ queued = {} /\ running = {} /\ Commands \subseteq complete
  BY DEF NoWorkLeft
<1>1. builds = Partitions /\ e_i = Partitions * Slices /\ e_i \in Nat
  BY SlicesPositive DEF builds, EndInv, Counted, IInv, Types
<1>2. ASSUME NEW k \in CommandKinds, NEW i \in Nat, Queued(k, i) \/ Started(k, i)
      PROVE  Complete(k, i)
  <2>1. CASE k \in BuildCommands
    BY <1>2, <2>1, BuildOver DEF IInv, Events, Fresh, BuildCommands
  <2>2. CASE k \in ProbeCommands
    BY <1>2, <2>2, SliceOver DEF IInv, Events, Fresh
  <2> QED
    BY <2>1, <2>2 DEF CommandKinds
<1>3. queued = {} /\ running = {}
  <2>1. \A k \in CommandKinds, i \in Nat : ~Queued(k, i) /\ ~Executing(k, i)
    BY <1>2 DEF IInv, Events, Once, Started
  <2> QED
    BY <2>1 DEF IInv, Types, Queued, Executing
<1>4. Commands \subseteq complete
  <2>1. ASSUME NEW k \in BuildCommands, NEW q \in Parts PROVE <<k, q>> \in complete
    <3>1. q \in Nat /\ q < builds
      BY <1>1, SlicesPositive DEF Parts
    <3> QED
      BY <3>1, BuildOver DEF BuildCommands, Complete
  <2>2. ASSUME NEW k \in ProbeCommands, NEW e \in AllSlices PROVE <<k, e>> \in complete
    <3>1. e \in Nat /\ e < e_i
      BY <1>1 DEF AllSlices, LastSlice
    <3> QED
      BY <3>1, SliceOver DEF Complete
  <2> QED
    BY <2>1, <2>2 DEF Commands
<1>5. ASSUME NEW t \in Threads PROVE queue[t] = <<>>
  <2>1. queue[t] \in Seq(Nat) /\ QueueKept(t)
    BY DEF IInv, Types, EndInv
  <2>2. \A i \in Nat : i < Given(t) => Copied(t, i)
    <3>1. CASE t = "build_in"
      BY <3>1, BuildOver DEF Given, Copied, CopyOf
    <3>2. CASE t = "probe_out"
      BY <3>2, ResultsOver DEF Given, Copied, CopyOf
    <3>3. CASE t \in CopyInThreads
      BY <3>3, SliceOver DEF Given, Copied, CopyOf, CopyInThreads
    <3> QED
      BY <3>1, <3>2, <3>3 DEF Threads, CopyInThreads
  <2>3. Len(queue[t]) = 0
    <3> SUFFICES ASSUME 1 \in 1..Len(queue[t]) PROVE FALSE
      BY <2>1
    <3>1. queue[t][1] \in Nat /\ queue[t][1] < Given(t) /\ ~Copied(t, queue[t][1])
      BY <2>1 DEF QueueKept
    <3> QED
      BY <2>2, <3>1
  <2> QED
    BY <2>1, <2>3
<1> QED
  BY <1>3, <1>4, <1>5

-----------------------------------------------------------------------------
(* The steps of the solution with one build *)

LEMMA OneMayStart ==
  ASSUME complete \subseteq complete', NEW k, NEW s, M!MayStart(k, s)
  PROVE  M!MayStart(k, s)'
BY DEF M!MayStart, M!Over

LEMMA OneInit == M!Init => OneInv
<1> SUFFICES ASSUME M!Init PROVE OneInv
  OBVIOUS
<1>1. e_i = 0 /\ step = "build" /\ queued = {} /\ running = {} /\ complete = {}
  BY DEF M!Init
<1>2. \A k, s : ~Queued(k, s) /\ ~Started(k, s) /\ ~Executing(k, s)
  BY <1>1 DEF Queued, Started, Executing, Complete
<1>3. Taken
  BY <1>1, JoinerAssumption DEF Taken, M!Rounds
<1> QED
  BY <1>1, <1>2, <1>3 DEF OneInv, TypesOfOne, FreshOfOne, OnceOfOne, WaitedOfOne

(* The thread waits, copies and takes results: no command changes.            *)
LEMMA OneStill ==
  ASSUME OneInv, UNCHANGED <<e_i, queued, running, complete>>,
         \/ step' = step
         \/ step = "built" /\ step' = "wait" /\ Complete("o_krn", 0)
         \/ step = "wait" /\ step' \in {"copy", "results"} /\ (step' = "copy" => e_i < ProbeSlices)
         \/ step = "results" /\ step' \in {"launch", "lost"}
            /\ (e_i > 1 => Complete("l_d2h", e_i - 2))
  PROVE  OneInv'
<1>1. \A k, s : /\ Queued(k, s)' <=> Queued(k, s)
                /\ Executing(k, s)' <=> Executing(k, s)
                /\ Complete(k, s)' <=> Complete(k, s)
                /\ Started(k, s)' <=> Started(k, s)
  BY DEF Queued, Executing, Complete, Started
<1>2. TypesOfOne'
  BY DEF OneInv, TypesOfOne
<1>3. FreshOfOne'
  BY <1>1 DEF OneInv, FreshOfOne
<1>4. OnceOfOne'
  BY <1>1 DEF OneInv, OnceOfOne
<1>5. WaitedOfOne'
  BY <1>1, OneMayStart DEF OneInv, WaitedOfOne
<1>6. Taken'
  <2>1. /\ step' \notin {"build", "built"} => Complete("o_krn", 0)
        /\ IF step' = "done" THEN e_i = M!Rounds ELSE e_i < M!Rounds
        /\ step' = "copy" => e_i < ProbeSlices
    BY DEF OneInv, Taken
  <2>2. ASSUME NEW s \in Nat, s < ProbeSlices, s + 2 < e_i \/ (s + 2 = e_i /\ step' = "launch")
        PROVE  Complete("l_d2h", s)
    <3>1. CASE s + 2 < e_i \/ step = "launch"
      BY <2>2, <3>1 DEF OneInv, Taken
    <3>2. CASE s + 2 = e_i /\ step # "launch"
      <4>1. step' = "launch" /\ e_i > 1 /\ s = e_i - 2
        BY <2>2, <3>2
      <4>2. step = "results" /\ Complete("l_d2h", e_i - 2)
        BY <3>2, <4>1
      <4> QED
        BY <4>1, <4>2
    <3> QED
      BY <2>2, <3>1, <3>2
  <2> QED
    BY <1>1, <2>1, <2>2 DEF Taken, M!Rounds
<1> QED
  BY <1>2, <1>3, <1>4, <1>5, <1>6 DEF OneInv

LEMMA OneBuildTable == OneInv /\ M!BuildTable => OneInv'
<1> SUFFICES ASSUME OneInv, M!BuildTable PROVE OneInv'
  OBVIOUS
<1>1. /\ step = "build" /\ step' = "built" /\ queued' = {<<"o_h2d", 0>>, <<"o_krn", 0>>}
      /\ UNCHANGED <<e_i, running, complete>>
  BY DEF M!BuildTable
<1>2. \A k, s : /\ Queued(k, s)' => k \in {"o_h2d", "o_krn"} /\ s = 0
                /\ Executing(k, s)' <=> Executing(k, s)
                /\ Complete(k, s)' <=> Complete(k, s)
                /\ Started(k, s)' <=> Started(k, s)
  BY <1>1 DEF Queued, Executing, Complete, Started
<1>3. \A k \in {"o_h2d", "o_krn"} : ~Started(k, 0)
  BY <1>1 DEF OneInv, FreshOfOne, KindsOfOne
<1>4. TypesOfOne'
  BY <1>1 DEF OneInv, TypesOfOne, KindsOfOne
<1>5. FreshOfOne'
  BY <1>1, <1>2 DEF OneInv, FreshOfOne, ProbeKinds
<1>6. OnceOfOne'
  BY <1>2, <1>3 DEF OneInv, OnceOfOne
<1>7. WaitedOfOne'
  BY <1>1, <1>2, OneMayStart DEF OneInv, WaitedOfOne
<1>8. Taken'
  BY <1>1, <1>2 DEF OneInv, Taken, M!Rounds
<1> QED
  BY <1>4, <1>5, <1>6, <1>7, <1>8 DEF OneInv

(* The transfer of a slice is enqueued when it has been copied, its probe and  *)
(* the way back of its result at the end of the round.                         *)
LEMMA OneEnqueue ==
  ASSUME OneInv, UNCHANGED <<running, complete>>, NEW kinds, queued' = queued \cup kinds \X {e_i},
         \/ /\ kinds = {"l_h2d"} /\ step = "copy" /\ step' = "results" /\ UNCHANGED e_i
            /\ e_i < ProbeSlices
         \/ /\ kinds = IF e_i < ProbeSlices THEN {"l_krn", "l_d2h"} ELSE {}
            /\ step = "launch" /\ e_i' = e_i + 1
            /\ step' = IF e_i + 1 < M!Rounds THEN "wait" ELSE "done"
  PROVE  OneInv'
<1>0. e_i \in Nat /\ ProbeSlices \in Nat /\ kinds \subseteq ProbeKinds /\ step \in {"copy", "launch"}
  BY JoinerAssumption DEF OneInv, TypesOfOne, ProbeKinds
<1>1. \A k, s : /\ Queued(k, s)' <=> Queued(k, s) \/ (k \in kinds /\ s = e_i)
                /\ Executing(k, s)' <=> Executing(k, s)
                /\ Complete(k, s)' <=> Complete(k, s)
                /\ Started(k, s)' <=> Started(k, s)
  BY DEF Queued, Executing, Complete, Started
<1>2. \A k \in kinds : ~Started(k, e_i)
  BY <1>0 DEF OneInv, FreshOfOne, KindsOfOne, ProbeKinds
<1>3. TypesOfOne'
  <2>1. queued' \subseteq KindsOfOne \X Nat
    BY <1>0 DEF OneInv, TypesOfOne, KindsOfOne
  <2> QED
    BY <1>0, <2>1 DEF OneInv, TypesOfOne
<1>4. FreshOfOne'
  <2> SUFFICES ASSUME NEW k \in KindsOfOne, NEW s \in Nat, (Queued(k, s) \/ Started(k, s))'
               PROVE  /\ k \in {"o_h2d", "o_krn"} => s = 0 /\ step' # "build"
                      /\ k \in ProbeKinds => s < ProbeSlices
                      /\ k \in {"l_krn", "l_d2h"} => s < e_i'
                      /\ k = "l_h2d" => s <= e_i' /\ (s = e_i' => step' \in {"results", "launch", "lost"})
    BY DEF FreshOfOne
  <2>1. CASE Queued(k, s) \/ Started(k, s)
    <3>1. /\ k \in {"o_h2d", "o_krn"} => s = 0
          /\ k \in ProbeKinds => s < ProbeSlices
          /\ k \in {"l_krn", "l_d2h"} => s < e_i
          /\ k = "l_h2d" => s <= e_i
      BY <2>1 DEF OneInv, FreshOfOne
    <3> QED
      BY <1>0, <3>1
  <2>2. CASE k \in kinds /\ s = e_i
    BY <1>0, <2>2 DEF ProbeKinds
  <2> QED
    BY <1>1, <2>1, <2>2
<1>5. OnceOfOne'
  BY <1>1, <1>2 DEF OneInv, OnceOfOne
<1>6. WaitedOfOne'
  BY <1>1, OneMayStart DEF OneInv, WaitedOfOne
<1>7. Taken'
  BY <1>0, <1>1 DEF OneInv, Taken, M!Rounds
<1> QED
  BY <1>3, <1>4, <1>5, <1>6, <1>7 DEF OneInv

LEMMA OneStart ==
  ASSUME OneInv, NEW kind \in KindsOfOne, NEW n \in Nat, M!Start(kind, n)
  PROVE  OneInv'
<1>1. /\ Queued(kind, n) /\ M!MayStart(kind, n)
      /\ queued' = queued \ {<<kind, n>>} /\ running' = running \cup {<<kind, n>>}
      /\ UNCHANGED <<e_i, step, complete>>
  BY DEF M!Start, Queued
<1>2. \A k, s : /\ Queued(k, s)' <=> Queued(k, s) /\ ~(k = kind /\ s = n)
                /\ Executing(k, s)' <=> Executing(k, s) \/ (k = kind /\ s = n)
                /\ Complete(k, s)' <=> Complete(k, s)
                /\ Started(k, s)' <=> Started(k, s) \/ (k = kind /\ s = n)
  BY <1>1 DEF Queued, Executing, Complete, Started
<1>3. ~Started(kind, n)
  BY <1>1 DEF OneInv, OnceOfOne
<1>4. TypesOfOne'
  BY <1>1 DEF OneInv, TypesOfOne
<1>5. FreshOfOne'
  BY <1>1, <1>2 DEF OneInv, FreshOfOne
<1>6. OnceOfOne'
  BY <1>2, <1>3 DEF OneInv, OnceOfOne, Started
<1>7. WaitedOfOne'
  BY <1>1, <1>2, OneMayStart DEF OneInv, WaitedOfOne
<1>8. Taken'
  BY <1>1, <1>2 DEF OneInv, Taken, M!Rounds
<1> QED
  BY <1>4, <1>5, <1>6, <1>7, <1>8 DEF OneInv

LEMMA OneFinish ==
  ASSUME OneInv, NEW kind \in KindsOfOne, NEW n \in Nat, M!Finish(kind, n)
  PROVE  OneInv'
<1>1. /\ Executing(kind, n) /\ running' = running \ {<<kind, n>>}
      /\ complete' = complete \cup {<<kind, n>>} /\ UNCHANGED <<e_i, step, queued>>
  BY DEF M!Finish, Executing
<1>2. \A k, s : /\ Queued(k, s)' <=> Queued(k, s)
                /\ Executing(k, s)' <=> Executing(k, s) /\ ~(k = kind /\ s = n)
                /\ Complete(k, s)' <=> Complete(k, s) \/ (k = kind /\ s = n)
                /\ Started(k, s)' <=> Started(k, s)
  BY <1>1 DEF Queued, Executing, Complete, Started
<1>3. TypesOfOne'
  BY <1>1 DEF OneInv, TypesOfOne
<1>4. FreshOfOne'
  BY <1>1, <1>2 DEF OneInv, FreshOfOne
<1>5. OnceOfOne'
  BY <1>2 DEF OneInv, OnceOfOne
<1>6. WaitedOfOne'
  BY <1>1, <1>2, OneMayStart DEF OneInv, WaitedOfOne
<1>7. Taken'
  BY <1>1, <1>2 DEF OneInv, Taken, M!Rounds
<1> QED
  BY <1>3, <1>4, <1>5, <1>6, <1>7 DEF OneInv

LEMMA OneNext == OneInv /\ M!Next => OneInv'
<1> SUFFICES ASSUME OneInv, M!Next PROVE OneInv'
  OBVIOUS
<1>0. e_i \in Nat /\ queued \subseteq KindsOfOne \X Nat
  BY DEF OneInv, TypesOfOne
<1>1. CASE M!WaitForBuild \/ M!WaitForProbe \/ M!TakeResult \/ M!NoResult \/ M!Stopped
  <2>1. CASE M!WaitForBuild
    BY <2>1, OneStill DEF M!WaitForBuild, M!Over, M!events, Complete
  <2>2. CASE M!WaitForProbe
    BY <2>2, OneStill DEF M!WaitForProbe, M!events
  <2>3. CASE M!TakeResult
    <3>1. /\ UNCHANGED <<e_i, queued, running, complete>> /\ step = "results"
          /\ step' \in {"launch", "lost"} /\ M!Over("l_d2h", e_i - 2) /\ e_i > 1
      BY <2>3 DEF M!TakeResult, M!events
    <3>2. Complete("l_d2h", e_i - 2)
      BY <1>0, <3>1 DEF M!Over, Complete
    <3> QED
      BY <3>1, <3>2, OneStill
  <2>4. CASE M!NoResult
    <3>1. UNCHANGED <<e_i, queued, running, complete>> /\ step = "results" /\ step' = "launch" /\ e_i <= 1
      BY <2>4 DEF M!NoResult, M!events
    <3> QED
      BY <1>0, <3>1, OneStill
  <2>5. CASE M!Stopped
    BY <2>5, OneStill DEF M!Stopped, M!vars, M!events
  <2> QED
    BY <1>1, <2>1, <2>2, <2>3, <2>4, <2>5
<1>2. CASE M!BuildTable
  BY <1>2, OneBuildTable
<1>3. CASE M!CopySlice
  <2>1. UNCHANGED <<e_i, running, complete>> /\ step = "copy" /\ step' = "results"
        /\ queued' = queued \cup {"l_h2d"} \X {e_i}
    BY <1>3 DEF M!CopySlice
  <2> QED
    BY <2>1, OneEnqueue DEF OneInv, Taken
<1>4. CASE M!Launch
  <2>1. /\ UNCHANGED <<running, complete>> /\ step = "launch" /\ e_i' = e_i + 1
        /\ step' = IF e_i + 1 < M!Rounds THEN "wait" ELSE "done"
        /\ queued' = queued \cup (IF e_i < ProbeSlices THEN {"l_krn", "l_d2h"} ELSE {}) \X {e_i}
    BY <1>4 DEF M!Launch
  <2> QED
    BY <2>1, OneEnqueue
<1>5. CASE M!Device
  <2>1. ASSUME NEW c \in queued, M!Start(c[1], c[2]) PROVE OneInv'
    <3>1. c[1] \in KindsOfOne /\ c[2] \in Nat
      BY <1>0
    <3> QED
      BY <2>1, <3>1, OneStart
  <2>2. CASE M!TransferBuild \/ M!Build
    BY <2>2, OneFinish DEF M!TransferBuild, M!Build, KindsOfOne
  <2>3. ASSUME NEW s \in M!AllSlices, M!TransferSlice(s) \/ M!Probe(s) \/ M!TransferBack(s)
        PROVE  OneInv'
    <3>1. s \in Nat
      BY JoinerAssumption DEF M!AllSlices
    <3> QED
      BY <2>3, <3>1, OneFinish DEF M!TransferSlice, M!Probe, M!TransferBack, KindsOfOne, ProbeKinds
  <2> QED
    BY <1>5, <2>1, <2>2, <2>3 DEF M!Device
<1> QED
  BY <1>1, <1>2, <1>3, <1>4, <1>5 DEF M!Next, M!MainThread

(* All results have been taken in the end, and there is none without a probe.  *)
LEMMA NoneLeftOfOne == OneInv => M!NoWorkLeft
<1> SUFFICES ASSUME OneInv, step = "done" PROVE queued = {} /\ running = {}
  BY DEF M!NoWorkLeft
<1>1. e_i = ProbeSlices + 2 /\ ProbeSlices \in Nat
  BY JoinerAssumption DEF OneInv, Taken, M!Rounds
<1>2. ASSUME NEW s \in Nat, s < ProbeSlices
      PROVE  \A k \in ProbeKinds : Complete(k, s)
  <2>1. Complete("l_d2h", s)
    BY <1>1, <1>2 DEF OneInv, Taken
  <2>2. M!MayStart("l_d2h", s)
    BY <2>1 DEF OneInv, WaitedOfOne, Started, KindsOfOne, ProbeKinds
  <2>3. Complete("l_krn", s)
    BY <2>2 DEF M!MayStart, M!Over, Complete
  <2>4. M!MayStart("l_krn", s)
    BY <2>3 DEF OneInv, WaitedOfOne, Started, KindsOfOne, ProbeKinds
  <2>5. Complete("l_h2d", s)
    BY <2>4 DEF M!MayStart, M!Over, Complete
  <2> QED
    BY <2>1, <2>3, <2>5 DEF ProbeKinds
<1>3. Complete("o_krn", 0) /\ Complete("o_h2d", 0)
  <2>1. Complete("o_krn", 0)
    BY DEF OneInv, Taken
  <2>2. M!MayStart("o_krn", 0)
    BY <2>1 DEF OneInv, WaitedOfOne, Started, KindsOfOne
  <2> QED
    BY <2>1, <2>2 DEF M!MayStart, M!Over, Complete
<1>4. ASSUME NEW k \in KindsOfOne, NEW s \in Nat, Queued(k, s) \/ Executing(k, s)
      PROVE  FALSE
  <2>1. Queued(k, s) \/ Started(k, s)
    BY <1>4 DEF Started
  <2>2. Complete(k, s)
    <3>1. CASE k \in ProbeKinds
      BY <1>2, <2>1, <3>1 DEF OneInv, FreshOfOne
    <3>2. CASE k \in {"o_h2d", "o_krn"}
      BY <1>3, <2>1, <3>2 DEF OneInv, FreshOfOne
    <3> QED
      BY <3>1, <3>2 DEF KindsOfOne
  <2> QED
    BY <1>4, <2>2 DEF OneInv, OnceOfOne, Started
<1> QED
  BY <1>4 DEF OneInv, TypesOfOne, Queued, Executing

-----------------------------------------------------------------------------
(* Table C.  Each copy adds a piece to it and a number of rows to toutrow, and *)
(* what both come to grows by the same number.                                *)

LEMMA DisjointUnion ==
  ASSUME NEW A, IsFiniteSet(A), NEW B, IsFiniteSet(B), A \cap B = {}
  PROVE  /\ IsFiniteSet(A \cup B) /\ Cardinality(A) \in Nat /\ Cardinality(B) \in Nat
         /\ Cardinality(A \cup B) = Cardinality(A) + Cardinality(B)
<1> DEFINE a == Cardinality(A)
           b == Cardinality(B)
<1>1. a \in Nat /\ b \in Nat /\ Cardinality(A \cap B) = 0
  BY FS_CardinalityType, FS_EmptySet
<1>2. IsFiniteSet(A \cup B) /\ Cardinality(A \cup B) = a + b - 0
  BY <1>1, FS_Union
<1> HIDE DEF a, b
<1>3. a + b - 0 = a + b
  BY <1>1
<1> QED
  BY <1>1, <1>2, <1>3 DEF a, b

LEMMA NumbersOfOne ==
  ASSUME NEW n, NEW c \in Nat
  PROVE  IsFiniteSet({n} \X (1..c)) /\ Cardinality({n} \X (1..c)) = c
<1>1. IsFiniteSet(1..c) /\ Cardinality(1..c) = IF 1 > c THEN 0 ELSE c - 1 + 1
  BY FS_Interval
<1>2. Cardinality(1..c) = c
  BY <1>1
<1>3. IsFiniteSet({n}) /\ Cardinality({n}) = 1
  BY FS_Singleton
<1>4. /\ IsFiniteSet({n} \X (1..c))
      /\ Cardinality({n} \X (1..c)) = Cardinality({n}) * Cardinality(1..c)
  BY <1>1, <1>3, FS_Product
<1> QED
  BY <1>2, <1>3, <1>4

Numbers(S, f) == UNION {{e} \X (1..f[e]) : e \in S}

LEMMA NumbersNone ==
  ASSUME NEW S, NEW f, \A e \in S : f[e] = 0
  PROVE  IsFiniteSet(Numbers(S, f)) /\ Cardinality(Numbers(S, f)) = 0
<1>1. Numbers(S, f) = {}
  BY DEF Numbers
<1> QED
  BY <1>1, FS_EmptySet

LEMMA NumbersGrow ==
  ASSUME NEW S, NEW f, NEW g, NEW n \in S, NEW c, NEW k, {c, k} \subseteq Nat,
         f[n] = 0, g[n] = c, \A e \in S : e # n => g[e] = f[e],
         IsFiniteSet(Numbers(S, f)), Cardinality(Numbers(S, f)) = k
  PROVE  IsFiniteSet(Numbers(S, g)) /\ Cardinality(Numbers(S, g)) = k + c
<1> DEFINE B == {n} \X (1..c)
<1>1. g[n] = c /\ \A e \in S : e # n => g[e] = f[e]
  OBVIOUS
<1>2. 1..f[n] = {}
  OBVIOUS
<1>3. Numbers(S, g) = Numbers(S, f) \cup B
  <2>1. ASSUME NEW e \in S PROVE {e} \X (1..g[e]) \subseteq Numbers(S, f) \cup B
    BY <1>1 DEF Numbers
  <2>2. ASSUME NEW e \in S PROVE {e} \X (1..f[e]) \subseteq Numbers(S, g)
    BY <1>1, <1>2 DEF Numbers
  <2>3. B \subseteq Numbers(S, g)
    BY <1>1 DEF Numbers
  <2> QED
    BY <2>1, <2>2, <2>3 DEF Numbers
<1>4. Numbers(S, f) \cap B = {}
  BY <1>2 DEF Numbers
<1>5. IsFiniteSet(B) /\ Cardinality(B) = c
  BY NumbersOfOne
<1> HIDE DEF B
<1>6. /\ IsFiniteSet(Numbers(S, f) \cup B) /\ Cardinality(Numbers(S, f)) \in Nat
      /\ Cardinality(Numbers(S, f) \cup B) = Cardinality(Numbers(S, f)) + Cardinality(B)
  BY <1>4, <1>5, DisjointUnion
<1> QED
  BY <1>3, <1>5, <1>6

-----------------------------------------------------------------------------
(* The slices of table L *)

RowsOf(e) == RowsOfSlice(PartitionOf(e), SliceOf(e))
Hits(e) == {row \in RowsOf(e) : row \in matching}

TableTypes == l_new_part_offset \in [Parts -> Nat] /\ matching \subseteq Parts \X Nat

LEMMA SliceNumbers ==
  ASSUME NEW e \in Nat
  PROVE  /\ PartitionOf(e) \in Nat /\ SliceOf(e) \in 0..(Slices - 1)
         /\ e = PartitionOf(e) * Slices + SliceOf(e)
<1>1. Slices \in Nat /\ Slices > 0
  BY SlicesPositive
<1> QED
  BY <1>1 DEF PartitionOf, SliceOf

LEMMA NumberOfSlice ==
  ASSUME NEW q \in Nat, NEW s \in 0..(Slices - 1)
  PROVE  /\ q * Slices + s \in Nat
         /\ PartitionOf(q * Slices + s) = q /\ SliceOf(q * Slices + s) = s
<1>1. Slices \in Nat /\ Slices > 0 /\ q * Slices \in Nat
  BY SlicesPositive
<1> DEFINE e == q * Slices + s
<1>2. e \in Nat
  BY <1>1
<1>3. e = PartitionOf(e) * Slices + SliceOf(e) /\ PartitionOf(e) \in Nat /\ SliceOf(e) \in 0..(Slices - 1)
  BY <1>2, SliceNumbers
<1>4. ASSUME NEW a \in Nat, NEW b \in Nat, NEW s1 \in 0..(Slices - 1), NEW s2 \in 0..(Slices - 1),
             a < b
      PROVE  a * Slices + s1 < b * Slices + s2
  <2>1. (a + 1) * Slices <= b * Slices /\ (a + 1) * Slices = a * Slices + Slices
    BY <1>1, <1>4
  <2>2. a * Slices \in Nat /\ b * Slices \in Nat
    BY <1>1
  <2> QED
    BY <1>1, <2>1, <2>2
<1>5. e = q * Slices + s
  OBVIOUS
<1> HIDE DEF e
<1>6. ~(q < PartitionOf(e)) /\ ~(PartitionOf(e) < q)
  <2>1. e < e => FALSE
    BY <1>2
  <2> QED
    BY <1>3, <1>4, <1>5, <2>1
<1>7. q = PartitionOf(e)
  BY <1>3, <1>6
<1> QED
  BY <1>1, <1>2, <1>3, <1>7 DEF e

LEMMA SlicesInAll ==
  ASSUME NEW e \in Nat
  PROVE  e \in AllSlices <=> PartitionOf(e) \in Parts
<1>1. Slices \in Nat /\ Slices > 0 /\ Partitions \in Nat
  BY SlicesPositive
<1> DEFINE q == PartitionOf(e)
<1>2. q \in Nat /\ SliceOf(e) \in 0..(Slices - 1) /\ e = q * Slices + SliceOf(e)
  BY SliceNumbers
<1> HIDE DEF q
<1>3. q * Slices \in Nat /\ Partitions * Slices \in Nat
  BY <1>1, <1>2
<1>4. CASE q < Partitions
  <2>1. (q + 1) * Slices <= Partitions * Slices /\ (q + 1) * Slices = q * Slices + Slices
    BY <1>1, <1>2, <1>4
  <2> QED
    BY <1>1, <1>2, <1>3, <1>4, <2>1 DEF q, AllSlices, LastSlice, Parts
<1>5. CASE ~(q < Partitions)
  <2>1. Partitions * Slices <= q * Slices
    BY <1>1, <1>2, <1>5
  <2> QED
    BY <1>1, <1>2, <1>3, <1>5, <2>1 DEF q, AllSlices, LastSlice, Parts
<1> QED
  BY <1>4, <1>5

(* The number of rows of a slice, and where the last one starts.              *)
LEMMA RowsPerSlice ==
  ASSUME TableTypes, NEW q \in Parts
  PROVE  /\ l_new_part_offset[q] \in Nat /\ per_slice_nrow(q) \in Nat
         /\ l_new_part_offset[q] <= Slices * per_slice_nrow(q)
         /\ Slices * per_slice_nrow(q) <= l_new_part_offset[q] + Slices - 1
<1>1. Slices \in Nat /\ Slices > 0 /\ l_new_part_offset[q] \in Nat
  BY SlicesPositive DEF TableTypes
<1> QED
  BY <1>1 DEF per_slice_nrow

LEMMA RowOfSlice ==
  ASSUME TableTypes, NEW q \in Parts, NEW s \in 0..(Slices - 1), NEW row \in RowsOfSlice(q, s)
  PROVE  /\ row = <<row[1], row[2]>> /\ row[1] = q /\ row[2] \in Nat
         /\ per_slice_nrow(q) * s <= row[2]
         /\ s < Slices - 1 => row[2] < per_slice_nrow(q) * (s + 1)
         /\ s = Slices - 1 => row[2] < l_new_part_offset[q]
<1> DEFINE w == per_slice_nrow(q)
           n == l_new_part_offset[q]
<1>1. w \in Nat /\ n \in Nat /\ Slices \in Nat /\ s \in Nat /\ w * s \in Nat /\ s * w = w * s
  BY RowsPerSlice, SlicesPositive
<1>2. w * (s + 1) = w * s + w
  BY <1>1
<1>3. /\ row = <<row[1], row[2]>> /\ row[1] = q
      /\ row[2] \in (w * s)..(w * s + slice_nrow(q, s) - 1)
  BY DEF RowsOfSlice, SliceStart
<1>4. slice_nrow(q, s) = IF s = Slices - 1 THEN n - w * s ELSE w
  BY <1>1 DEF slice_nrow
<1> HIDE DEF w, n
<1>5. /\ row[2] \in Nat /\ w * s <= row[2]
      /\ s < Slices - 1 => row[2] < w * s + w
      /\ s = Slices - 1 => row[2] < n
  BY <1>1, <1>3, <1>4
<1> QED
  BY <1>2, <1>3, <1>5 DEF w, n

LEMMA RowInSlice ==
  ASSUME TableTypes, NEW q \in Parts, NEW s \in 0..(Slices - 1), NEW r \in Nat,
         per_slice_nrow(q) * s <= r,
         s < Slices - 1 => r < per_slice_nrow(q) * (s + 1),
         s = Slices - 1 => r < l_new_part_offset[q]
  PROVE  <<q, r>> \in RowsOfSlice(q, s)
<1> DEFINE w == per_slice_nrow(q)
           n == l_new_part_offset[q]
<1>1. w \in Nat /\ n \in Nat /\ Slices \in Nat /\ s \in Nat /\ w * s \in Nat /\ s * w = w * s
  BY RowsPerSlice, SlicesPositive
<1>2. w * (s + 1) = w * s + w
  BY <1>1
<1>4. slice_nrow(q, s) = IF s = Slices - 1 THEN n - w * s ELSE w
  BY <1>1 DEF slice_nrow
<1>5. w * s <= r /\ (s < Slices - 1 => r < w * s + w) /\ (s = Slices - 1 => r < n)
  BY <1>2
<1> HIDE DEF w, n
<1>6. r \in (w * s)..(w * s + slice_nrow(q, s) - 1)
  BY <1>1, <1>4, <1>5
<1> QED
  BY <1>6 DEF w, RowsOfSlice, SliceStart

LEMMA HitsFinite ==
  ASSUME TableTypes, NEW e \in AllSlices
  PROVE  IsFiniteSet(Hits(e))
<1> DEFINE q == PartitionOf(e)
           s == SliceOf(e)
<1>1. e \in Nat
  BY DEF AllSlices, LastSlice
<1>2. q \in Parts /\ s \in 0..(Slices - 1) /\ s \in Nat /\ Slices \in Nat
  BY <1>1, SlicesInAll, SliceNumbers, SlicesPositive
<1>3. l_new_part_offset[q] \in Nat /\ per_slice_nrow(q) \in Nat
  BY <1>2, RowsPerSlice
<1>4. SliceStart(q, s) \in Int /\ slice_nrow(q, s) \in Int
  BY <1>2, <1>3 DEF SliceStart, slice_nrow
<1> HIDE DEF q, s
<1>5. SliceStart(q, s) + slice_nrow(q, s) - 1 \in Int
  BY <1>4
<1>6. IsFiniteSet(SliceStart(q, s)..(SliceStart(q, s) + slice_nrow(q, s) - 1)) /\ IsFiniteSet({q})
  BY <1>4, <1>5, FS_Interval, FS_Singleton
<1>7. IsFiniteSet(RowsOfSlice(q, s))
  BY <1>6, FS_Product DEF RowsOfSlice
<1> QED
  BY <1>7, FS_Subset DEF Hits, RowsOf, q, s

(* The rows of a slice come before those of a later one.                      *)
LEMMA RowsApart ==
  ASSUME TableTypes, NEW d \in AllSlices, NEW e \in AllSlices, d < e,
         NEW r \in RowsOf(d), NEW x \in RowsOf(e)
  PROVE  Precedes(r, x)
<1>1. d \in Nat /\ e \in Nat
  BY DEF AllSlices, LastSlice
<1> DEFINE q == PartitionOf(d)
           s == SliceOf(d)
           q2 == PartitionOf(e)
           s2 == SliceOf(e)
<1>2. q \in Parts /\ s \in 0..(Slices - 1) /\ d = q * Slices + s
  BY <1>1, SlicesInAll, SliceNumbers
<1>3. q2 \in Parts /\ s2 \in 0..(Slices - 1) /\ e = q2 * Slices + s2
  BY <1>1, SlicesInAll, SliceNumbers
<1>4. /\ r[1] = q /\ r[2] \in Nat
      /\ s < Slices - 1 => r[2] < per_slice_nrow(q) * (s + 1)
  BY <1>2, RowOfSlice DEF RowsOf
<1>5. x[1] = q2 /\ x[2] \in Nat /\ per_slice_nrow(q2) * s2 <= x[2]
  BY <1>3, RowOfSlice DEF RowsOf
<1>6. q \in Nat /\ q2 \in Nat /\ Slices \in Nat /\ Slices > 0 /\ s \in Nat /\ s2 \in Nat
  BY <1>2, <1>3, SlicesPositive DEF Parts
<1>7. per_slice_nrow(q) \in Nat
  BY <1>2, RowsPerSlice
<1> HIDE DEF q, s, q2, s2
<1>8. CASE q = q2
  <2>1. s < s2 /\ s < Slices - 1
    <3>1. q * Slices \in Nat
      BY <1>6
    <3> QED
      BY <1>2, <1>3, <1>6, <1>8, <3>1
  <2> DEFINE w == per_slice_nrow(q)
  <2>2. w * (s + 1) <= w * s2 /\ w * (s + 1) \in Nat /\ w * s2 \in Nat
    BY <1>6, <1>7, <2>1
  <2>3. r[2] < w * (s + 1) /\ w * s2 <= x[2]
    BY <1>4, <1>5, <1>8, <2>1
  <2> HIDE DEF w
  <2>4. r[2] < x[2]
    BY <1>4, <1>5, <2>2, <2>3
  <2> QED
    BY <1>4, <1>5, <1>8, <2>4 DEF Precedes
<1>9. CASE q < q2
  BY <1>4, <1>5, <1>9 DEF Precedes
<1>10. CASE q2 < q
  <2>1. (q2 + 1) * Slices <= q * Slices /\ (q2 + 1) * Slices = q2 * Slices + Slices
    BY <1>6, <1>10
  <2>2. q2 * Slices \in Nat /\ q * Slices \in Nat
    BY <1>6
  <2> QED
    BY <1>2, <1>3, <1>6, <2>1, <2>2
<1> QED
  BY <1>6, <1>8, <1>9, <1>10

(* All slices together have the rows of table L, and no others, if none of     *)
(* the assertions fails.                                                      *)
LEMMA RowsInTable ==
  ASSUME TableTypes, NEW e \in AllSlices, ~TooFewRows(PartitionOf(e)), NEW row \in RowsOf(e)
  PROVE  row[2] < l_new_part_offset[row[1]]
<1>1. e \in Nat
  BY DEF AllSlices, LastSlice
<1> DEFINE q == PartitionOf(e)
           s == SliceOf(e)
           w == per_slice_nrow(q)
           n == l_new_part_offset[q]
<1>2. q \in Parts /\ s \in 0..(Slices - 1) /\ Slices \in Nat /\ Slices > 0
  BY <1>1, SlicesInAll, SliceNumbers, SlicesPositive
<1>3. /\ row[1] = q /\ row[2] \in Nat
      /\ s < Slices - 1 => row[2] < w * (s + 1)
      /\ s = Slices - 1 => row[2] < n
  BY <1>2, RowOfSlice DEF RowsOf
<1>4. w \in Nat /\ n \in Nat /\ Slices * w <= n + Slices - 1
  BY <1>2, RowsPerSlice
<1>5. w > Slices
  BY <1>2, <1>4 DEF TooFewRows
<1> HIDE DEF q, s, w, n
<1>6. s < Slices - 1 => row[2] < n
  <2> SUFFICES ASSUME s < Slices - 1 PROVE row[2] < n
    OBVIOUS
  <2>1. w * (s + 1) <= w * (Slices - 1) /\ w * (s + 1) \in Nat
    BY <1>2, <1>4
  <2>2. w * (Slices - 1) = Slices * w - w /\ Slices * w \in Nat
    BY <1>2, <1>4
  <2> QED
    BY <1>2, <1>3, <1>4, <1>5, <2>1, <2>2
<1>7. row[2] < n
  BY <1>2, <1>3, <1>6
<1> QED
  BY <1>3, <1>7 DEF n

LEMMA RowsCovered ==
  ASSUME TableTypes, NEW q \in Parts, NEW r \in Nat, r < l_new_part_offset[q]
  PROVE  \E e \in AllSlices : <<q, r>> \in RowsOf(e)
<1> DEFINE w == per_slice_nrow(q)
           n == l_new_part_offset[q]
<1>1. q \in Nat /\ Slices \in Nat /\ Slices > 0
  BY SlicesPositive DEF Parts
<1>2. w \in Nat /\ n \in Nat /\ n <= Slices * w
  BY RowsPerSlice
<1>3. PICK s \in 0..(Slices - 1) : <<q, r>> \in RowsOfSlice(q, s)
  <2>1. w > 0
    <3> SUFFICES ASSUME w = 0 PROVE FALSE
      BY <1>2
    <3>1. Slices * w = 0
      BY <1>1
    <3> QED
      BY <1>2, <3>1
  <2> DEFINE s == r \div w
  <2>2. s \in Nat /\ w * s <= r /\ r < w * s + w
    BY <1>2, <2>1
  <2> HIDE DEF s
  <2>3. w * (s + 1) = w * s + w
    BY <1>2, <2>2
  <2>4. CASE s < Slices - 1
    BY <1>1, <2>2, <2>3, <2>4, RowInSlice
  <2>5. CASE ~(s < Slices - 1)
    <3>1. Slices - 1 \in Nat /\ w * (Slices - 1) <= w * s /\ w * (Slices - 1) \in Nat /\ w * s \in Nat
      BY <1>1, <1>2, <2>2, <2>5
    <3>2. w * (Slices - 1) <= r
      BY <2>2, <3>1
    <3>3. ~(Slices - 1 < Slices - 1) /\ Slices - 1 \in 0..(Slices - 1)
      BY <1>1
    <3> QED
      BY <1>1, <3>2, <3>3, RowInSlice
  <2> QED
    BY <2>4, <2>5
<1> DEFINE e == q * Slices + s
<1>4. e \in Nat /\ PartitionOf(e) = q /\ SliceOf(e) = s
  BY <1>1, NumberOfSlice
<1>5. e \in AllSlices
  BY <1>4, SlicesInAll
<1> QED
  BY <1>3, <1>4, <1>5 DEF RowsOf

(* The pieces of a table add up to n rows, and none goes behind row n.        *)
RowsIn(T) == UNION {x.rows : x \in T}
AddsUp(T, n) ==
  /\ n \in Nat /\ IsFiniteSet(RowsIn(T)) /\ Cardinality(RowsIn(T)) = n
  /\ \A x \in T : /\ x.at \in Nat /\ Cardinality(x.rows) \in Nat
                  /\ x.at + Cardinality(x.rows) <= n

LEMMA PieceAdded ==
  ASSUME NEW T, NEW n, AddsUp(T, n), NEW R, IsFiniteSet(R), R \cap RowsIn(T) = {},
         NEW T2, T2 = T \cup {[at |-> n, rows |-> R]}
  PROVE  /\ Cardinality(R) \in Nat /\ n + Cardinality(R) \in Nat
         /\ RowsIn(T2) = RowsIn(T) \cup R /\ AddsUp(T2, n + Cardinality(R))
<1> DEFINE c == Cardinality(R)
           U == RowsIn(T)
<1>1. c \in Nat /\ n \in Nat /\ n + c \in Nat
  BY FS_CardinalityType DEF AddsUp
<1>2. RowsIn(T2) = U \cup R
  <2> DEFINE z == [at |-> n, rows |-> R]
  <2>1. z.rows = R
    OBVIOUS
  <2> HIDE DEF z
  <2>2. T2 = T \cup {z}
    BY DEF z
  <2> QED
    BY <2>1, <2>2 DEF RowsIn
<1>3. IsFiniteSet(U) /\ Cardinality(U) = n
  BY DEF AddsUp
<1>4. IsFiniteSet(U \cup R) /\ Cardinality(U \cup R) = Cardinality(U) + Cardinality(R)
  BY <1>3, DisjointUnion
<1>5. ASSUME NEW x \in T2
      PROVE  x.at \in Nat /\ Cardinality(x.rows) \in Nat /\ x.at + Cardinality(x.rows) <= n + c
  <2>1. CASE x \in T
    <3> DEFINE k == Cardinality(x.rows)
    <3>1. x.at \in Nat /\ k \in Nat /\ x.at + k <= n
      BY <2>1 DEF AddsUp
    <3> HIDE DEF k, c
    <3>2. x.at + k <= n + c
      BY <1>1, <3>1
    <3> QED
      BY <3>1, <3>2 DEF k
  <2>2. CASE x = [at |-> n, rows |-> R]
    <3>1. x.at = n /\ Cardinality(x.rows) = c
      BY <2>2
    <3> HIDE DEF c
    <3> QED
      BY <1>1, <3>1
  <2> QED
    BY <2>1, <2>2
<1> HIDE DEF U
<1>6. IsFiniteSet(RowsIn(T2)) /\ Cardinality(RowsIn(T2)) = n + c
  BY <1>2, <1>3, <1>4
<1> QED
  BY <1>1, <1>2, <1>5, <1>6 DEF AddsUp, U

-----------------------------------------------------------------------------
(* The buffers of the slices: what each kind of command or copy writes is read *)
(* by the next kind, and until then it stays.                                 *)

Reader ==
  [probe_memcpy_in |-> "probe_h2d", probe_h2d |-> "probe_krn",
   probe_krn |-> "probe_d2h", probe_d2h |-> "probe_memcpy_out"]
Writers == {"probe_memcpy_in", "probe_h2d", "probe_krn", "probe_d2h"}
SliceBuffer(kind) ==
  CASE kind = "probe_memcpy_in" -> probe_in
    [] kind = "probe_h2d" -> buf_probe_in
    [] kind = "probe_krn" -> buf_probe_out
    [] kind = "probe_d2h" -> probe_out
Held(kind, e) == IF kind \in {"probe_memcpy_in", "probe_h2d"} THEN RowsOf(e) ELSE Hits(e)

IsPair(f) == f = [k \in {0, 1} |-> f[k]]
BuffersTwice == IsPair(probe_in) /\ IsPair(buf_probe_in) /\ IsPair(buf_probe_out) /\ IsPair(probe_out)

RowsKept ==
  \A kind \in Writers, e \in Nat :
    Complete(kind, e) /\ ~Complete(Reader[kind], e) => SliceBuffer(kind)[sid(e)] = Held(kind, e)

(* The slices' results are copied in the order of the slices. *)
OutInOrder ==
  \A e \in Nat, j \in 1..Len(queue["probe_out"]) :
    Complete("probe_memcpy_out", e) => e < queue["probe_out"][j]

(* What has been enqueued has passed the assertions. *)
Asserted == step # "exit" => \A q \in Nat : q < builds => ~TooFewRows(q)

Pieces ==
  /\ AddsUp(table_out, probe_out_nrow_accu)
  /\ RowsIn(table_out) = UNION {Hits(e) : e \in {d \in Nat : Complete("probe_memcpy_out", d)}}
  /\ \A x, y \in table_out : x = y \/ Follows(x, y) \/ Follows(y, x)

Counts ==
  /\ toutrow \in [AllSlices -> Nat]
  /\ \A e \in AllSlices : toutrow[e] = 0 \/ Complete("probe_memcpy_out", e)
  /\ IsFiniteSet(RowsOut) /\ out_nrow_sum = probe_out_nrow_accu

RowsInv ==
  /\ TableTypes /\ Asserted /\ OutInOrder
  /\ BuffersTwice /\ RowsKept /\ Pieces /\ Counts

-----------------------------------------------------------------------------
(* A buffer is written when what was in it has been read. *)

LEMMA HasWaited ==
  ASSUME IInv, EndInv, NEW kind \in Writers \cup {"probe_memcpy_out"}, NEW i \in Nat,
         Complete(kind, i)
  PROVE  MayStart(kind, i)
<1>1. CASE kind \in ProbeCommands
  BY <1>1 DEF IInv, Events, Waited, Started, CommandKinds
<1>2. CASE kind \notin ProbeCommands
  <2>1. PICK t \in Threads : CopyOf[t] = kind
    BY <1>2 DEF Writers, ProbeCommands, CopyOf, Threads
  <2> QED
    BY <2>1 DEF EndInv, CopyWaited, Copied
<1> QED
  BY <1>1, <1>2

LEMMA WrittenBefore ==
  ASSUME IInv, EndInv, NEW kind \in Writers, NEW i \in Nat, MayStart(Reader[kind], i)
  PROVE  Complete(kind, i)
BY DEF Writers, Reader, MayStart, Over, Complete

LEMMA LastButOne ==
  ASSUME NEW i \in Nat, NEW j \in Nat, j < i, sid(j) = sid(i)
  PROVE  i - 2 \in Nat /\ sid(i - 2) = sid(i) /\ (j = i - 2 \/ j < i - 2)
BY DEF sid

LEMMA LastButOneRead ==
  ASSUME NEW kind \in Writers, NEW i \in Nat, MayStart(kind, i), i - 2 \in Nat
  PROVE  Complete(Reader[kind], i - 2)
BY DEF Writers, Reader, MayStart, Over, Complete

LEMMA ReaderIsNext ==
  ASSUME NEW kind \in Writers
  PROVE  Reader[kind] \in Writers \cup {"probe_memcpy_out"}
BY DEF Writers, Reader

LEMMA EarlierRead ==
  ASSUME IInv, EndInv, NEW kind \in Writers, NEW i \in Nat, MayStart(kind, i),
         NEW j \in Nat, j < i, sid(j) = sid(i)
  PROVE  Complete(Reader[kind], j)
<1> DEFINE e == i - 2
<1>1. e \in Nat /\ sid(e) = sid(i) /\ (j = e \/ j < e)
  BY LastButOne
<1>2. Complete(Reader[kind], e)
  BY <1>1, LastButOneRead
<1> HIDE DEF e
<1>3. MayStart(Reader[kind], e)
  BY <1>1, <1>2, ReaderIsNext, HasWaited
<1>4. ASSUME j < e, NEW d, d = e - 2
      PROVE  Complete(Reader[kind], j)
  <2>1. d \in Nat /\ sid(d) = sid(e) /\ (j = d \/ j < d)
    BY <1>1, <1>4, LastButOne
  <2>2. CASE kind = "probe_memcpy_in"
    <3>1. Complete("probe_krn", d)
      BY <1>3, <1>4, <2>1, <2>2, LastButOneRead, <1>1 DEF Reader, Writers
    <3>2. Complete("probe_krn", j)
      BY <2>1, <3>1 DEF IInv, Events, Ordered, Started
    <3> QED
      BY <2>2, <3>2, HasWaited, WrittenBefore DEF Reader, Writers
  <2>3. CASE kind = "probe_h2d"
    BY <1>1, <1>2, <1>4, <2>3 DEF IInv, Events, Ordered, Started, Reader
  <2>4. CASE kind = "probe_krn"
    <3>1. Complete("probe_memcpy_out", d)
      BY <1>3, <1>4, <2>1, <2>4, LastButOneRead, <1>1 DEF Reader, Writers
    <3>2. Complete("probe_memcpy_out", j)
      BY <1>1, <2>1, <3>1 DEF EndInv, EveryOther
    <3> QED
      BY <2>4, <3>2, HasWaited, WrittenBefore DEF Reader, Writers
  <2>5. CASE kind = "probe_d2h"
    BY <1>1, <1>2, <1>4, <2>5 DEF EndInv, EveryOther, Reader
  <2> QED
    BY <2>2, <2>3, <2>4, <2>5 DEF Writers
<1> QED
  BY <1>1, <1>2, <1>4

LEMMA OthersRead ==
  ASSUME IInv, EndInv, NEW kind \in Writers, NEW n \in Nat, MayStart(kind, n), ~Complete(kind, n),
         NEW e \in Nat, e # n, sid(e) = sid(n), Complete(kind, e)
  PROVE  Complete(Reader[kind], e)
<1>1. CASE e < n
  BY <1>1, EarlierRead
<1>2. CASE n < e
  <2>1. MayStart(kind, e)
    BY HasWaited
  <2>2. Complete(Reader[kind], n)
    BY <1>2, <2>1, EarlierRead
  <2> QED
    BY <2>2, HasWaited, ReaderIsNext, WrittenBefore
<1> QED
  BY <1>1, <1>2

LEMMA HeldKept ==
  ASSUME UNCHANGED tableL
  PROVE  /\ TableTypes' <=> TableTypes
         /\ \A e : RowsOf(e)' = RowsOf(e) /\ Hits(e)' = Hits(e) /\ TooFewRows(e)' = TooFewRows(e)
         /\ \A kind, e : Held(kind, e)' = Held(kind, e)
<1>1. UNCHANGED <<l_new_part_offset, matching>>
  BY DEF tableL
<1>2. \A q : per_slice_nrow(q)' = per_slice_nrow(q)
  BY <1>1 DEF per_slice_nrow
<1>3. \A q, s : RowsOfSlice(q, s)' = RowsOfSlice(q, s)
  BY <1>1, <1>2 DEF RowsOfSlice, SliceStart, slice_nrow
<1>4. \A e : RowsOf(e)' = RowsOf(e) /\ Hits(e)' = Hits(e) /\ TooFewRows(e)' = TooFewRows(e)
  BY <1>1, <1>2, <1>3 DEF RowsOf, Hits, TooFewRows
<1> QED
  BY <1>1, <1>4 DEF TableTypes, Held

LEMMA RowsKeptOthers ==
  ASSUME IInv, EndInv, RowsKept, UNCHANGED tableL,
         NEW kind \in Writers, NEW n \in Nat, MayStart(kind, n), ~Complete(kind, n),
         complete \subseteq complete',
         \A k \in Writers : k # kind => SliceBuffer(k)' = SliceBuffer(k),
         \A s \in {0, 1} : s # sid(n) => SliceBuffer(kind)'[s] = SliceBuffer(kind)[s],
         \A k \in Writers, e \in Nat : Complete(k, e)' =>
           Complete(k, e) \/ (k = kind /\ e = n /\ SliceBuffer(kind)'[sid(n)] = Held(kind, n))
  PROVE  RowsKept'
<1> SUFFICES ASSUME NEW k \in Writers, NEW e \in Nat, Complete(k, e)', ~Complete(Reader[k], e)'
             PROVE  SliceBuffer(k)'[sid(e)] = Held(k, e)'
  BY DEF RowsKept, sid, Reader
<1>1. ~Complete(Reader[k], e)
  BY DEF Complete
<1>2. Held(k, e)' = Held(k, e) /\ sid(e) \in {0, 1}
  BY HeldKept DEF sid
<1>3. CASE Complete(k, e)
  <2>1. SliceBuffer(k)[sid(e)] = Held(k, e)
    BY <1>1, <1>3 DEF RowsKept
  <2>2. k = kind => e # n /\ sid(e) # sid(n)
    BY <1>1, <1>3, OthersRead
  <2> QED
    BY <1>2, <2>1, <2>2
<1>4. CASE ~Complete(k, e)
  BY <1>2, <1>4
<1> QED
  BY <1>3, <1>4

LEMMA RowsKeptStill ==
  ASSUME RowsKept, UNCHANGED <<tableL, probe_in, buf_probe_in, buf_probe_out, probe_out>>,
         complete \subseteq complete',
         \A k \in Writers, e \in Nat : Complete(k, e)' => Complete(k, e)
  PROVE  RowsKept'
<1>1. \A k : SliceBuffer(k)' = SliceBuffer(k)
  BY DEF SliceBuffer
<1>2. \A k, e : Held(k, e)' = Held(k, e)
  BY HeldKept
<1>3. \A k \in Writers, e \in Nat : ~Complete(Reader[k], e)' => ~Complete(Reader[k], e)
  BY DEF Complete
<1> QED
  BY <1>1, <1>2, <1>3 DEF RowsKept, sid, Reader

-----------------------------------------------------------------------------
(* What a step leaves alone *)

(* Slices of e_i at most have been enqueued, as long as nobody gives up.      *)
LEMMA EndOfSlices ==
  ASSUME IInv, EndInv, Running, NEW e \in Nat, e < e_i
  PROVE  e \in AllSlices
<1>1. p \in Nat /\ slice \in Nat /\ e_i \in Nat /\ e_i = p * Slices + slice /\ slice < Slices
  BY DEF IInv, Types, EndInv, Counted
<1>2. Slices \in Nat /\ Slices > 0 /\ Partitions \in Nat /\ p * Slices \in Nat /\ Partitions * Slices \in Nat
  BY <1>1, SlicesPositive
<1>3. e_i <= Partitions * Slices
  <2>1. CASE step \in {"build", "probe"}
    <3>1. p < Partitions
      BY <2>1 DEF EndInv, Counted
    <3>2. (p + 1) * Slices <= Partitions * Slices /\ (p + 1) * Slices = p * Slices + Slices
      BY <1>1, <1>2, <3>1
    <3> QED
      BY <1>1, <1>2, <3>2
  <2>2. CASE step \notin {"build", "probe"}
    <3>1. slice = 0 /\ p = Partitions
      BY <2>2 DEF EndInv, Counted, Running, IInv, Types, Steps
    <3> QED
      BY <1>1, <1>2, <3>1
  <2> QED
    BY <2>1, <2>2
<1> QED
  BY <1>1, <1>2, <1>3 DEF AllSlices, LastSlice

LEMMA ResultsStill ==
  ASSUME Pieces, Counts, UNCHANGED <<tableL, result>>,
         \A e \in Nat : Complete("probe_memcpy_out", e)' <=> Complete("probe_memcpy_out", e)
  PROVE  Pieces' /\ Counts'
<1>1. UNCHANGED <<toutrow, probe_out_nrow_accu, table_out>>
  BY DEF result
<1>2. \A e : Hits(e)' = Hits(e)
  BY HeldKept
<1>3. UNION {Hits(e) : e \in {d \in Nat : Complete("probe_memcpy_out", d)}}'
        = UNION {Hits(e) : e \in {d \in Nat : Complete("probe_memcpy_out", d)}}
  BY <1>2
<1>4. Pieces'
  BY <1>1, <1>3 DEF Pieces, AddsUp, RowsIn, Follows, Precedes
<1>5. \A e \in AllSlices : e \in Nat
  BY DEF AllSlices, LastSlice
<1>6. Counts'
  BY <1>1, <1>5 DEF Counts, out_nrow_sum, RowsOut
<1> QED
  BY <1>4, <1>6

LEMMA OutInOrderStill ==
  ASSUME OutInOrder, UNCHANGED queue,
         \A e \in Nat : Complete("probe_memcpy_out", e)' <=> Complete("probe_memcpy_out", e)
  PROVE  OutInOrder'
BY DEF OutInOrder

LEMMA AssertedStill ==
  ASSUME Asserted, IInv, UNCHANGED tableL, step' = "exit" \/ (step # "exit" /\ builds' <= builds),
         builds' \in Nat
  PROVE  Asserted'
<1>1. \A q : TooFewRows(q)' = TooFewRows(q)
  BY HeldKept
<1>2. builds \in Nat
  BY DEF IInv, Types, builds
<1> QED
  BY <1>1, <1>2 DEF Asserted

(* No copy or command of a slice begins or ends. *)
LEMMA RowsInvStill ==
  ASSUME IInv, EndInv, RowsInv,
         UNCHANGED <<tableL, result, queue, probe_in, buf_probe_in, buf_probe_out, probe_out>>,
         complete \subseteq complete',
         step' = "exit" \/ (step # "exit" /\ builds' <= builds), builds' \in Nat,
         \A k \in Writers \cup {"probe_memcpy_out"}, e \in Nat : Complete(k, e)' <=> Complete(k, e)
  PROVE  RowsInv'
<1>1. TableTypes'
  BY HeldKept DEF RowsInv
<1>2. Asserted' /\ OutInOrder' /\ Pieces' /\ Counts'
  BY AssertedStill, OutInOrderStill, ResultsStill DEF RowsInv
<1>3. BuffersTwice'
  BY DEF RowsInv, BuffersTwice, IsPair
<1>4. RowsKept'
  BY RowsKeptStill DEF RowsInv
<1> QED
  BY <1>1, <1>2, <1>3, <1>4 DEF RowsInv

-----------------------------------------------------------------------------
(* The main thread and the threads *)

LEMMA RowsInvOfMain ==
  ASSUME IInv, EndInv, RowsInv, Running,
         \/ AssertionFails \/ WaitForEvents \/ StopThreads \/ JoinThreads \/ OutTooLarge
         \/ \E t \in Threads : End(t)
         \/ Take("build_in") \/ Take("probe_out")
  PROVE  RowsInv'
<1>1. /\ UNCHANGED <<tableL, result, queue, complete, probe_in, buf_probe_in, buf_probe_out, probe_out>>
      /\ step' = "exit" \/ (step # "exit" /\ step' # "exit" /\ p' = p
                            /\ (step' = "probe" => step = "probe"))
  <2>1. CASE AssertionFails \/ WaitForEvents \/ StopThreads \/ JoinThreads \/ OutTooLarge
    BY <2>1 DEF AssertionFails, WaitForEvents, StopThreads, JoinThreads, OutTooLarge, Running,
                threads, events, hostBuffers, deviceBuffers
  <2>2. CASE \E t \in Threads : End(t)
    BY <2>2 DEF End, main, events, hostBuffers, deviceBuffers, Running
  <2>3. CASE Take("build_in") \/ Take("probe_out")
    BY <2>3 DEF Take, main, events, deviceBuffers, CopyInThreads, Running
  <2> QED
    BY <2>1, <2>2, <2>3
<1>2. p \in Nat /\ p' = p
  <2>1. UNCHANGED p
    BY <1>1 DEF AssertionFails, WaitForEvents, StopThreads, JoinThreads, OutTooLarge, End, Take, main
  <2> QED
    BY <2>1 DEF IInv, Types
<1>3. builds' \in Nat /\ (step' = "exit" \/ (step # "exit" /\ builds' <= builds))
  <2>1. CASE step' = "exit"
    <3>1. builds' = p + 1
      BY <1>2, <2>1 DEF builds
    <3>2. builds' \in Nat
      BY <1>2, <3>1
    <3> QED
      BY <2>1, <3>2
  <2>2. CASE step' # "exit"
    <3>1. builds' = builds \/ (builds' = p /\ builds = p + 1)
      BY <1>1, <2>2 DEF builds
    <3>2. builds \in Nat
      BY <1>2 DEF builds
    <3> QED
      BY <1>1, <1>2, <2>2, <3>1, <3>2
  <2> QED
    BY <2>1, <2>2
<1>4. complete \subseteq complete' /\ \A k, e : Complete(k, e)' <=> Complete(k, e)
  BY <1>1 DEF Complete
<1> QED
  BY <1>1, <1>3, <1>4, RowsInvStill

LEMMA RowsInvOfEnqueue ==
  ASSUME IInv, EndInv, RowsInv, Running, EnqueueBuild \/ EnqueueProbe
  PROVE  RowsInv'
<1>1. /\ UNCHANGED <<tableL, result, complete, probe_in, buf_probe_in, buf_probe_out, probe_out>>
      /\ p \in Nat /\ e_i \in Nat /\ queue \in [Threads -> Seq(Nat)]
  BY DEF EnqueueBuild, EnqueueProbe, hostBuffers, deviceBuffers, IInv, Types
<1>2. \A k, e : Complete(k, e)' <=> Complete(k, e)
  BY <1>1 DEF Complete
<1>3. TableTypes' /\ Pieces' /\ Counts' /\ RowsKept'
  BY <1>1, <1>2, HeldKept, ResultsStill, RowsKeptStill DEF RowsInv
<1>4. BuffersTwice'
  BY <1>1 DEF RowsInv, BuffersTwice, IsPair
<1>5. Asserted'
  <2>1. \A q : TooFewRows(q)' = TooFewRows(q)
    BY <1>1, HeldKept
  <2>2. CASE EnqueueBuild
    <3>1. builds = p /\ builds' = p + 1 /\ ~TooFewRows(p) /\ step # "exit"
      BY <2>2 DEF EnqueueBuild, builds
    <3> QED
      BY <1>1, <2>1, <3>1 DEF RowsInv, Asserted
  <2>3. CASE EnqueueProbe
    <3>1. step = "probe" /\ builds = p + 1
      BY <2>3 DEF EnqueueProbe, builds
    <3>2. builds' = p + 1
      BY <1>1, <2>3 DEF EnqueueProbe, builds
    <3> QED
      BY <2>1, <3>1, <3>2 DEF RowsInv, Asserted
  <2> QED
    BY <2>2, <2>3
<1>6. OutInOrder'
  <2> DEFINE q == queue["probe_out"]
  <2>1. q \in Seq(Nat) /\ "probe_out" \in Threads
    BY <1>1 DEF Threads
  <2>2. queue'["probe_out"] = q \/ queue'["probe_out"] = Append(q, e_i)
    BY <1>1, <2>1 DEF EnqueueBuild, EnqueueProbe
  <2>3. \A e \in Nat : Complete("probe_memcpy_out", e) => e < e_i
    BY <2>1 DEF EndInv, QueueKept, Copied, CopyOf, Given
  <2>4. \A e \in Nat, j \in 1..Len(q) : Complete("probe_memcpy_out", e) => e < q[j]
    BY DEF RowsInv, OutInOrder
  <2> HIDE DEF q
  <2>5. \A e \in Nat, j \in 1..Len(Append(q, e_i)) :
          Complete("probe_memcpy_out", e) => e < Append(q, e_i)[j]
    <3> SUFFICES ASSUME NEW e \in Nat, NEW j \in 1..Len(Append(q, e_i)),
                        Complete("probe_memcpy_out", e)
                 PROVE  e < Append(q, e_i)[j]
      OBVIOUS
    <3>1. Len(Append(q, e_i)) = Len(q) + 1 /\ Len(q) \in Nat
      BY <1>1, <2>1
    <3>2. CASE j \in 1..Len(q)
      BY <1>1, <2>1, <2>4, <3>2
    <3>3. CASE j = Len(q) + 1
      BY <1>1, <2>1, <2>3, <3>3
    <3> QED
      BY <3>1, <3>2, <3>3
  <2> QED
    BY <1>2, <2>2, <2>4, <2>5 DEF OutInOrder
<1> QED
  BY <1>3, <1>4, <1>5, <1>6 DEF RowsInv

(* A buffer begins to be written: by a thread or by a command. *)
LEMMA RowsInvOfTear ==
  ASSUME IInv, EndInv, RowsInv, step # "exit", UNCHANGED <<main, queue, complete, result, tableL>>,
         NEW kind \in Writers, NEW n \in Nat, MayStart(kind, n), ~Complete(kind, n),
         SliceBuffer(kind)' = [SliceBuffer(kind) EXCEPT ![sid(n)] = TornRows],
         \A k \in Writers : k # kind => SliceBuffer(k)' = SliceBuffer(k)
  PROVE  RowsInv'
<1>1. UNCHANGED <<step, p, e_i>> /\ \A k, e : Complete(k, e)' <=> Complete(k, e)
  BY DEF main, Complete
<1>2. builds' = builds /\ builds \in Nat
  BY <1>1 DEF builds, IInv, Types
<1>3. TableTypes' /\ Asserted' /\ OutInOrder' /\ Pieces' /\ Counts'
  BY <1>1, <1>2, HeldKept, AssertedStill, OutInOrderStill, ResultsStill DEF RowsInv
<1>4. \A k \in Writers : IsPair(SliceBuffer(k))
  BY DEF RowsInv, BuffersTwice, SliceBuffer, Writers
<1>5. /\ IsPair(SliceBuffer(kind)')
      /\ \A s \in {0, 1} : s # sid(n) => SliceBuffer(kind)'[s] = SliceBuffer(kind)[s]
  BY <1>4 DEF IsPair
<1>6. BuffersTwice'
  <2>1. \A k \in Writers : IsPair(SliceBuffer(k)')
    BY <1>4, <1>5
  <2>2. /\ SliceBuffer("probe_memcpy_in")' = probe_in' /\ SliceBuffer("probe_h2d")' = buf_probe_in'
        /\ SliceBuffer("probe_krn")' = buf_probe_out' /\ SliceBuffer("probe_d2h")' = probe_out'
    BY DEF SliceBuffer
  <2>3. IsPair(probe_in') /\ IsPair(buf_probe_in') /\ IsPair(buf_probe_out') /\ IsPair(probe_out')
    BY <2>1, <2>2 DEF Writers
  <2> QED
    BY <2>3 DEF BuffersTwice, IsPair
<1>7. RowsKept'
  BY <1>1, <1>5, RowsKeptOthers DEF RowsInv
<1> QED
  BY <1>3, <1>6, <1>7 DEF RowsInv

(* A buffer has been written, with what it is to hold. *)
LEMMA RowsInvOfFill ==
  ASSUME IInv, EndInv, RowsInv, step # "exit", UNCHANGED <<main, result, tableL>>,
         UNCHANGED queue["probe_out"],
         NEW kind \in Writers, NEW n \in Nat, MayStart(kind, n), ~Complete(kind, n),
         complete' = complete \cup {<<kind, n>>},
         SliceBuffer(kind)' = [SliceBuffer(kind) EXCEPT ![sid(n)] = Held(kind, n)],
         \A k \in Writers : k # kind => SliceBuffer(k)' = SliceBuffer(k)
  PROVE  RowsInv'
<1>1. /\ UNCHANGED <<step, p, e_i>> /\ complete \subseteq complete'
      /\ \A k, e : Complete(k, e)' <=> Complete(k, e) \/ (k = kind /\ e = n)
  BY DEF main, Complete
<1>2. builds' = builds /\ builds \in Nat
  BY <1>1 DEF builds, IInv, Types
<1>3. \A e \in Nat : Complete("probe_memcpy_out", e)' <=> Complete("probe_memcpy_out", e)
  BY <1>1 DEF Writers
<1>4. TableTypes' /\ Asserted' /\ Pieces' /\ Counts'
  BY <1>1, <1>2, <1>3, HeldKept, AssertedStill, ResultsStill DEF RowsInv
<1>5. OutInOrder'
  BY <1>3 DEF RowsInv, OutInOrder
<1>6. \A k \in Writers : IsPair(SliceBuffer(k))
  BY DEF RowsInv, BuffersTwice, SliceBuffer, Writers
<1>7. /\ IsPair(SliceBuffer(kind)') /\ SliceBuffer(kind)'[sid(n)] = Held(kind, n)
      /\ \A s \in {0, 1} : s # sid(n) => SliceBuffer(kind)'[s] = SliceBuffer(kind)[s]
  <2>1. sid(n) \in {0, 1}
    BY DEF sid
  <2> QED
    BY <1>6, <2>1 DEF IsPair
<1>8. BuffersTwice'
  <2>1. \A k \in Writers : IsPair(SliceBuffer(k)')
    BY <1>6, <1>7
  <2>2. /\ SliceBuffer("probe_memcpy_in")' = probe_in' /\ SliceBuffer("probe_h2d")' = buf_probe_in'
        /\ SliceBuffer("probe_krn")' = buf_probe_out' /\ SliceBuffer("probe_d2h")' = probe_out'
    BY DEF SliceBuffer
  <2>3. IsPair(probe_in') /\ IsPair(buf_probe_in') /\ IsPair(buf_probe_out') /\ IsPair(probe_out')
    BY <2>1, <2>2 DEF Writers
  <2> QED
    BY <2>3 DEF BuffersTwice, IsPair
<1>9. RowsKept'
  BY <1>1, <1>7, RowsKeptOthers DEF RowsInv
<1> QED
  BY <1>4, <1>5, <1>8, <1>9 DEF RowsInv

-----------------------------------------------------------------------------
(* The steps that write a buffer *)

LEMMA HeadOfQueue ==
  ASSUME IInv, EndInv, NEW t \in Threads, queue[t] # <<>>
  PROVE  /\ item(t) \in Nat /\ item(t) = queue[t][1] /\ 1 \in 1..Len(queue[t])
         /\ item(t) < Given(t) /\ ~Complete(CopyOf[t], item(t))
<1>1. queue[t] \in Seq(Nat)
  BY DEF IInv, Types
<1>2. item(t) \in Nat /\ item(t) = queue[t][1] /\ 1 \in 1..Len(queue[t])
  BY <1>1 DEF item
<1> QED
  BY <1>2 DEF EndInv, QueueKept, Copied

LEMMA RowsInvOfTake ==
  ASSUME IInv, EndInv, RowsInv, Running, NEW t \in CopyInThreads, Take(t)
  PROVE  RowsInv'
<1>1. t \in Threads /\ t # "build_in" /\ CopyOf[t] = "probe_memcpy_in"
  BY DEF CopyInThreads, Threads, CopyOf
<1>2. item(t) \in Nat /\ ~Complete("probe_memcpy_in", item(t)) /\ MayStart("probe_memcpy_in", item(t))
  BY <1>1, HeadOfQueue DEF Take
<1>3. /\ UNCHANGED <<main, queue, complete, result, tableL>> /\ step # "exit"
      /\ probe_in' = [probe_in EXCEPT ![sid(item(t))] = TornRows]
      /\ UNCHANGED <<buf_probe_in, buf_probe_out, probe_out>>
  BY DEF Take, events, deviceBuffers, Running
<1>4. /\ SliceBuffer("probe_memcpy_in")' = [SliceBuffer("probe_memcpy_in") EXCEPT ![sid(item(t))] = TornRows]
      /\ \A k \in Writers : k # "probe_memcpy_in" => SliceBuffer(k)' = SliceBuffer(k)
  BY <1>3 DEF SliceBuffer, Writers
<1>5. "probe_memcpy_in" \in Writers
  BY DEF Writers
<1> QED
  BY <1>2, <1>3, <1>4, <1>5, RowsInvOfTear

LEMMA RowsInvOfStart ==
  ASSUME IInv, EndInv, RowsInv, Running, NEW c \in queued, Start(c[1], c[2])
  PROVE  RowsInv'
<1> DEFINE kind == c[1]
           n == c[2]
<1>1. kind \in CommandKinds /\ n \in Nat /\ Queued(kind, n) /\ MayStart(kind, n)
  BY DEF IInv, Types, Queued, Start
<1>2. ~Complete(kind, n)
  BY <1>1 DEF IInv, Events, Once, Started
<1>3. /\ UNCHANGED <<main, queue, complete, result, tableL, probe_in, step, p>> /\ step # "exit"
      /\ buf_probe_in' = IF kind = "probe_h2d" THEN [buf_probe_in EXCEPT ![sid(n)] = TornRows]
                         ELSE buf_probe_in
      /\ buf_probe_out' = IF kind = "probe_krn" THEN [buf_probe_out EXCEPT ![sid(n)] = TornRows]
                          ELSE buf_probe_out
      /\ probe_out' = IF kind = "probe_d2h" THEN [probe_out EXCEPT ![sid(n)] = TornRows]
                      ELSE probe_out
  BY DEF Start, threads, Running, main
<1> HIDE DEF kind, n
<1>4. CASE kind \in BuildCommands
  <2>1. UNCHANGED <<buf_probe_in, buf_probe_out, probe_out>>
    BY <1>3, <1>4 DEF BuildCommands
  <2>2. builds' = builds /\ builds \in Nat
    BY <1>3 DEF builds, IInv, Types
  <2>3. complete \subseteq complete' /\ \A k, e : Complete(k, e)' <=> Complete(k, e)
    BY <1>3 DEF Complete
  <2> QED
    BY <1>3, <2>1, <2>2, <2>3, RowsInvStill
<1>5. CASE kind \in ProbeCommands
  <2>1. kind \in Writers /\ kind # "probe_memcpy_in"
    BY <1>5 DEF ProbeCommands, Writers
  <2>2. SliceBuffer(kind)' = [SliceBuffer(kind) EXCEPT ![sid(n)] = TornRows]
    BY <1>3, <2>1 DEF SliceBuffer, Writers
  <2>3. \A k \in Writers : k # kind => SliceBuffer(k)' = SliceBuffer(k)
    BY <1>3, <2>1 DEF SliceBuffer, Writers
  <2> QED
    BY <1>1, <1>2, <1>3, <2>1, <2>2, <2>3, RowsInvOfTear
<1> QED
  BY <1>1, <1>4, <1>5 DEF CommandKinds

LEMMA RowsInvOfCopyIn ==
  ASSUME IInv, EndInv, RowsInv, Running, NEW t \in CopyInThreads, CopyProbeIn(t)
  PROVE  RowsInv'
<1>1. t \in Threads /\ t # "probe_out" /\ CopyOf[t] = "probe_memcpy_in" /\ queue[t] # <<>>
  BY DEF CopyInThreads, Threads, CopyOf, CopyProbeIn, IInv, Holding
<1>2. item(t) \in Nat /\ ~Complete("probe_memcpy_in", item(t)) /\ MayStart("probe_memcpy_in", item(t))
  BY <1>1, HeadOfQueue DEF CopyProbeIn, EndInv, CopyWaited
<1>3. /\ UNCHANGED <<main, result, tableL>> /\ step # "exit"
      /\ UNCHANGED <<buf_probe_in, buf_probe_out, probe_out>>
      /\ complete' = complete \cup {<<"probe_memcpy_in", item(t)>>}
      /\ probe_in' = [probe_in EXCEPT ![sid(item(t))] = RowsOf(item(t))]
      /\ queue' = [queue EXCEPT ![t] = Tail(queue[t])]
  BY <1>1 DEF CopyProbeIn, CompleteAndPop, deviceBuffers, Running, RowsOf
<1>4. queue'["probe_out"] = queue["probe_out"]
  BY <1>1, <1>3 DEF IInv, Types
<1>5. /\ SliceBuffer("probe_memcpy_in")' = [SliceBuffer("probe_memcpy_in") EXCEPT
                                              ![sid(item(t))] = Held("probe_memcpy_in", item(t))]
      /\ \A k \in Writers : k # "probe_memcpy_in" => SliceBuffer(k)' = SliceBuffer(k)
  BY <1>3 DEF SliceBuffer, Writers, Held
<1>6. "probe_memcpy_in" \in Writers
  BY DEF Writers
<1> QED
  BY <1>2, <1>3, <1>4, <1>5, <1>6, RowsInvOfFill

(* What a command of a slice finds in its source. *)
LEMMA SourceKept ==
  ASSUME IInv, EndInv, RowsInv, NEW kind \in ProbeCommands, NEW n \in Nat, Executing(kind, n)
  PROVE  /\ MayStart(kind, n) /\ ~Complete(kind, n)
         /\ kind = "probe_h2d" => probe_in[sid(n)] = RowsOf(n)
         /\ kind = "probe_krn" => buf_probe_in[sid(n)] = RowsOf(n)
         /\ kind = "probe_d2h" => buf_probe_out[sid(n)] = Hits(n)
<1>1. MayStart(kind, n) /\ ~Complete(kind, n)
  BY DEF IInv, Events, Waited, Once, Started, CommandKinds
<1>2. ASSUME NEW k \in Writers, Reader[k] = kind
      PROVE  SliceBuffer(k)[sid(n)] = Held(k, n)
  BY <1>1, <1>2, WrittenBefore DEF RowsInv, RowsKept
<1> QED
  BY <1>1, <1>2 DEF Writers, Reader, SliceBuffer, Held

LEMMA RowsInvOfExecute ==
  ASSUME IInv, EndInv, RowsInv, Running, NEW c \in running, Execute(c[2])
  PROVE  RowsInv'
<1> DEFINE n == c[2]
<1>1. n \in Nat
  BY DEF IInv, Types
<1>2. step # "exit" /\ UNCHANGED <<main, queue, result, tableL, probe_in, step, p>>
  BY DEF Execute, TransferBuild, Build, TransferProbe, Probe, TransferBack, Finish, Running, main, threads
<1> HIDE DEF n
<1>3. ASSUME TransferBuild(n) \/ Build(n) PROVE RowsInv'
  <2>1. UNCHANGED <<buf_probe_in, buf_probe_out, probe_out>>
    BY <1>3 DEF TransferBuild, Build
  <2>2. builds' = builds /\ builds \in Nat
    BY <1>2 DEF builds, IInv, Types
  <2>3. /\ complete \subseteq complete'
        /\ \A k \in Writers \cup {"probe_memcpy_out"}, e \in Nat : Complete(k, e)' <=> Complete(k, e)
    BY <1>3 DEF TransferBuild, Build, Finish, Complete, Writers
  <2> QED
    BY <1>2, <2>1, <2>2, <2>3, RowsInvStill
<1>4. ASSUME NEW kind \in ProbeCommands, Executing(kind, n),
             complete' = complete \cup {<<kind, n>>},
             SliceBuffer(kind)' = [SliceBuffer(kind) EXCEPT ![sid(n)] = Held(kind, n)],
             \A k \in Writers : k # kind => SliceBuffer(k)' = SliceBuffer(k)
      PROVE  RowsInv'
  <2>1. kind \in Writers
    BY DEF Writers, ProbeCommands
  <2>2. MayStart(kind, n) /\ ~Complete(kind, n)
    BY <1>1, <1>4, SourceKept
  <2> QED
    BY <1>1, <1>2, <1>4, <2>1, <2>2, RowsInvOfFill
<1>5. CASE TransferProbe(n)
  <2>1. /\ Executing("probe_h2d", n) /\ complete' = complete \cup {<<"probe_h2d", n>>}
        /\ buf_probe_in' = [buf_probe_in EXCEPT ![sid(n)] = probe_in[sid(n)]]
        /\ UNCHANGED <<probe_in, buf_probe_out, probe_out>>
    BY <1>5 DEF TransferProbe, Finish, Executing
  <2>2. probe_in[sid(n)] = RowsOf(n)
    BY <1>1, <2>1, SourceKept DEF ProbeCommands
  <2> QED
    BY <1>4, <2>1, <2>2 DEF SliceBuffer, Held, Writers, ProbeCommands
<1>6. CASE Probe(n)
  <2>1. /\ Executing("probe_krn", n) /\ complete' = complete \cup {<<"probe_krn", n>>}
        /\ buf_probe_out' = [buf_probe_out EXCEPT ![sid(n)] = {row \in buf_probe_in[sid(n)] : Found(row)}]
        /\ UNCHANGED <<probe_in, buf_probe_in, probe_out>>
    BY <1>6 DEF Probe, Finish, Executing
  <2>2. buf_probe_in[sid(n)] = RowsOf(n)
    BY <1>1, <2>1, SourceKept DEF ProbeCommands
  <2>3. n \in AllSlices
    <3>1. n < e_i
      BY <1>1, <2>1 DEF IInv, Events, Fresh, Started, ProbeCommands
    <3> QED
      BY <1>1, <3>1, EndOfSlices
  <2>4. hj_tmp = PartitionOf(n)
    BY <2>1, <2>3, HashTableOfSlice DEF HashTableKept, Executing
  <2>5. \A row \in RowsOf(n) : row[1] = PartitionOf(n)
    BY DEF RowsOf, RowsOfSlice
  <2>6. {row \in buf_probe_in[sid(n)] : Found(row)} = Hits(n)
    BY <2>2, <2>4, <2>5 DEF Hits, Found, Matched
  <2>7. SliceBuffer("probe_krn")' = [SliceBuffer("probe_krn") EXCEPT ![sid(n)] = Held("probe_krn", n)]
    BY <2>1, <2>6 DEF SliceBuffer, Held
  <2>8. \A k \in Writers : k # "probe_krn" => SliceBuffer(k)' = SliceBuffer(k)
    BY <2>1 DEF SliceBuffer, Writers
  <2> QED
    BY <1>4, <2>1, <2>7, <2>8 DEF ProbeCommands
<1>7. CASE TransferBack(n)
  <2>1. /\ Executing("probe_d2h", n) /\ complete' = complete \cup {<<"probe_d2h", n>>}
        /\ probe_out' = [probe_out EXCEPT ![sid(n)] = buf_probe_out[sid(n)]]
        /\ UNCHANGED <<probe_in, buf_probe_in, buf_probe_out>>
    BY <1>7 DEF TransferBack, Finish, Executing, deviceBuffers
  <2>2. buf_probe_out[sid(n)] = Hits(n)
    BY <1>1, <2>1, SourceKept DEF ProbeCommands
  <2> QED
    BY <1>4, <2>1, <2>2 DEF SliceBuffer, Held, Writers, ProbeCommands
<1> QED
  BY <1>3, <1>5, <1>6, <1>7 DEF Execute, n

-----------------------------------------------------------------------------
(* The rows found go to table C *)

LEMMA NotItself == ASSUME NEW r, r[1] \in Nat, r[2] \in Nat PROVE ~Precedes(r, r)
BY DEF Precedes

LEMMA RowsInvOfCopyOut ==
  ASSUME IInv, EndInv, RowsInv, Running, CopyOut
  PROVE  RowsInv'
<1> DEFINE n == item("probe_out")
           q == queue["probe_out"]
           h == Hits(n)
           c == Cardinality(h)
           accu == probe_out_nrow_accu
           z == [at |-> accu, rows |-> h]
<1>1. /\ "probe_out" \in Threads /\ CopyOf["probe_out"] = "probe_memcpy_out"
      /\ thread["probe_out"] = "copy" /\ q # <<>> /\ q \in Seq(Nat)
  BY DEF Threads, CopyOf, CopyOut, IInv, Holding, Types
<1>2. /\ n \in Nat /\ n = q[1] /\ 1 \in 1..Len(q) /\ n < e_i
      /\ ~Complete("probe_memcpy_out", n) /\ MayStart("probe_memcpy_out", n)
  BY <1>1, HeadOfQueue DEF Given, EndInv, CopyWaited
<1>3. n \in AllSlices
  BY <1>2, EndOfSlices
<1>4. found = h
  <2>1. Complete("probe_d2h", n)
    BY <1>2 DEF MayStart, Over, Complete
  <2> QED
    BY <1>2, <2>1 DEF RowsInv, RowsKept, Writers, Reader, SliceBuffer, Held, found
<1>5. /\ toutrow' = [toutrow EXCEPT ![n] = c]
      /\ table_out' = table_out \cup {z}
      /\ probe_out_nrow_accu' = accu + c
      /\ complete' = complete \cup {<<"probe_memcpy_out", n>>}
      /\ queue' = [queue EXCEPT !["probe_out"] = Tail(q)]
      /\ UNCHANGED <<main, tableL, probe_in, buf_probe_in, buf_probe_out, probe_out, step, p>>
  BY <1>1, <1>4 DEF CopyOut, CompleteAndPop, probe_out_nrow, hostBuffers, deviceBuffers, main
<1>6. TableTypes /\ TableTypes' /\ (\A e : Hits(e)' = Hits(e))
  BY <1>5, HeldKept DEF RowsInv
<1>7. IsFiniteSet(h)
  BY <1>3, <1>6, HitsFinite
<1>8. \A e : Complete("probe_memcpy_out", e)' <=> Complete("probe_memcpy_out", e) \/ e = n
  BY <1>5 DEF Complete
<1>9. \A k \in Writers : \A e : Complete(k, e)' <=> Complete(k, e)
  BY <1>5 DEF Complete, Writers
<1>10. \A e \in Nat : Complete("probe_memcpy_out", e) => e < n /\ e \in AllSlices
  <2>1. \A e \in Nat : Complete("probe_memcpy_out", e) => e < n
    BY <1>2 DEF RowsInv, OutInOrder
  <2> QED
    BY <1>2, <2>1, EndOfSlices DEF IInv, Types
<1> HIDE DEF n, q, h, c, accu, z
<1>11. BuffersTwice' /\ RowsKept'
  <2>1. complete \subseteq complete'
    BY <1>5
  <2> QED
    BY <1>5, <1>9, <2>1, RowsKeptStill DEF RowsInv, BuffersTwice, IsPair
<1>12. Asserted'
  BY <1>5, AssertedStill DEF RowsInv, builds, IInv, Types, Running
<1>13. OutInOrder'
  <2>1. /\ queue'["probe_out"] = Tail(q) /\ Len(Tail(q)) = Len(q) - 1 /\ Len(q) \in Nat
        /\ \A j \in 1..Len(Tail(q)) : j + 1 \in 1..Len(q) /\ Tail(q)[j] = q[j + 1] /\ q[j + 1] \in Nat
    BY <1>1, <1>5 DEF IInv, Types
  <2>2. \A j \in 1..Len(q) : \A e \in Nat : Complete("probe_memcpy_out", e) => e < q[j]
    BY DEF RowsInv, OutInOrder, q
  <2>3. \A j, k \in 1..Len(q) : j < k => q[j] < q[k]
    BY <1>1 DEF EndInv, QueueKept, q
  <2>4. \A j \in 1..Len(Tail(q)) : n < Tail(q)[j]
    BY <1>2, <2>1, <2>3
  <2> QED
    BY <1>8, <2>1, <2>2, <2>4 DEF OutInOrder
<1>14. \A r \in RowsIn(table_out) : \E e \in AllSlices : e < n /\ r \in Hits(e)
  BY <1>10 DEF RowsInv, Pieces
<1>15. \A r \in RowsIn(table_out), x \in h : Precedes(r, x)
  BY <1>3, <1>6, <1>14, RowsApart DEF Hits, h
<1>16. h \cap RowsIn(table_out) = {}
  <2> SUFFICES ASSUME NEW r \in h, r \in RowsIn(table_out) PROVE FALSE
    OBVIOUS
  <2>1. r \in matching
    BY DEF h, Hits
  <2>2. r[1] \in Nat /\ r[2] \in Nat
    BY <1>6, <2>1 DEF TableTypes, Parts
  <2> QED
    BY <1>15, <2>2, NotItself
<1>17. /\ c \in Nat /\ accu + c \in Nat /\ AddsUp(table_out', accu + c)
       /\ RowsIn(table_out') = RowsIn(table_out) \cup h
  <2>1. AddsUp(table_out, accu)
    BY DEF RowsInv, Pieces, accu
  <2> QED
    BY <1>5, <1>7, <1>16, <2>1, PieceAdded DEF z, c
<1>18. Pieces'
  <2>1. AddsUp(table_out', probe_out_nrow_accu')
    BY <1>5, <1>17
  <2>2. RowsIn(table_out') = UNION {Hits(e)' : e \in {d \in Nat : Complete("probe_memcpy_out", d)'}}
    <3>1. RowsIn(table_out) = UNION {Hits(e) : e \in {d \in Nat : Complete("probe_memcpy_out", d)}}
      BY DEF RowsInv, Pieces
    <3>2. UNION {Hits(e)' : e \in {d \in Nat : Complete("probe_memcpy_out", d)'}}
            = UNION {Hits(e) : e \in {d \in Nat : Complete("probe_memcpy_out", d) \/ d = n}}
      BY <1>6, <1>8
    <3>3. UNION {Hits(e) : e \in {d \in Nat : Complete("probe_memcpy_out", d) \/ d = n}}
            = RowsIn(table_out) \cup h
      BY <1>2, <3>1 DEF h
    <3> QED
      BY <1>17, <3>2, <3>3
  <2>3. ASSUME NEW x \in table_out' , NEW y \in table_out'
        PROVE  x = y \/ Follows(x, y) \/ Follows(y, x)
    <3>1. ASSUME NEW v \in table_out PROVE Follows(v, z)
      <4>1. v.at + Cardinality(v.rows) <= accu
        BY DEF RowsInv, Pieces, AddsUp, accu
      <4>2. v.rows \subseteq RowsIn(table_out)
        BY DEF RowsIn
      <4>3. z.at = accu /\ z.rows = h
        BY DEF z
      <4> QED
        BY <1>15, <4>1, <4>2, <4>3 DEF Follows
    <3> QED
      BY <1>5, <3>1 DEF RowsInv, Pieces
  <2> QED
    BY <2>1, <2>2, <2>3 DEF Pieces, AddsUp, RowsIn, Follows, Precedes
<1>19. Counts'
  <2>1. toutrow \in [AllSlices -> Nat] /\ toutrow[n] = 0
    BY <1>2, <1>3 DEF RowsInv, Counts
  <2>2. IsFiniteSet(Numbers(AllSlices, toutrow)) /\ Cardinality(Numbers(AllSlices, toutrow)) = accu
    BY DEF RowsInv, Counts, out_nrow_sum, RowsOut, Numbers, accu
  <2>3. IsFiniteSet(Numbers(AllSlices, toutrow'))
        /\ Cardinality(Numbers(AllSlices, toutrow')) = accu + c
    <3>0. c \in Nat
      BY <1>17
    <3>1. toutrow'[n] = c /\ \A e \in AllSlices : e # n => toutrow'[e] = toutrow[e]
      BY <1>3, <1>5, <1>17, <2>1
    <3>2. {c, accu} \subseteq Nat
      BY <3>0 DEF RowsInv, Pieces, AddsUp, accu
    <3> QED
      BY <1>3, <2>1, <2>2, <3>1, <3>2, NumbersGrow
  <2>4. RowsOut' = Numbers(AllSlices, toutrow')
    BY DEF RowsOut, Numbers
  <2>5. IsFiniteSet(RowsOut') /\ Cardinality(RowsOut') = probe_out_nrow_accu'
    BY <1>5, <2>3, <2>4
  <2>6. /\ toutrow' \in [AllSlices -> Nat]
        /\ \A e \in AllSlices : toutrow'[e] = 0 \/ Complete("probe_memcpy_out", e)'
    BY <1>3, <1>5, <1>8, <1>17, <2>1 DEF RowsInv, Counts
  <2> QED
    BY <2>5, <2>6 DEF Counts, out_nrow_sum
<1> QED
  BY <1>6, <1>11, <1>12, <1>13, <1>18, <1>19 DEF RowsInv

LEMMA RowsInvInit == Init => RowsInv
<1> SUFFICES ASSUME Init PROVE RowsInv
  OBVIOUS
<1>1. TableTypes
  BY HashJoinAssumption DEF Init, TableTypes
<1>2. complete = {} /\ \A k, e : ~Complete(k, e)
  BY DEF Init, Complete
<1>3. builds = 0
  BY DEF Init, builds
<1>4. Asserted /\ OutInOrder /\ RowsKept
  BY <1>2, <1>3 DEF Asserted, OutInOrder, RowsKept
<1>5. BuffersTwice
  BY DEF Init, BuffersTwice, IsPair
<1>6. Pieces
  <2>1. table_out = {} /\ RowsIn(table_out) = {} /\ probe_out_nrow_accu = 0
    BY DEF Init, RowsIn
  <2>2. IsFiniteSet(RowsIn(table_out)) /\ Cardinality(RowsIn(table_out)) = 0
    BY <2>1, FS_EmptySet
  <2>3. AddsUp(table_out, probe_out_nrow_accu)
    BY <2>1, <2>2 DEF AddsUp
  <2> QED
    BY <1>2, <2>1, <2>3 DEF Pieces
<1>7. Counts
  <2>1. toutrow \in [AllSlices -> Nat] /\ (\A e \in AllSlices : toutrow[e] = 0)
    BY DEF Init
  <2>2. RowsOut = Numbers(AllSlices, toutrow) /\ probe_out_nrow_accu = 0
    BY DEF RowsOut, Numbers, Init
  <2> QED
    BY <2>1, <2>2, NumbersNone DEF Counts, out_nrow_sum
<1> QED
  BY <1>1, <1>4, <1>5, <1>6, <1>7 DEF RowsInv

LEMMA RowsInvNext ==
  ASSUME IInv, EndInv, RowsInv, [Next]_vars
  PROVE  RowsInv'
<1>1. CASE Running /\ MainThread
  BY <1>1, RowsInvOfMain, RowsInvOfEnqueue DEF MainThread
<1>2. ASSUME Running, NEW t \in Threads, Thread(t)
      PROVE  RowsInv'
  <2>1. CASE t \in CopyInThreads
    BY <1>2, <2>1, RowsInvOfMain, RowsInvOfTake, RowsInvOfCopyIn DEF Thread
  <2>2. CASE t \notin CopyInThreads
    BY <1>2, <2>2, RowsInvOfMain DEF Thread, Threads, CopyInThreads, CopyProbeIn
  <2> QED
    BY <2>1, <2>2
<1>3. CASE Running /\ CopyBuildIn
  <2>1. /\ UNCHANGED <<main, tableL, result, probe_in, buf_probe_in, buf_probe_out, probe_out, step, p>>
        /\ complete' = complete \cup {<<"build_memcpy_in", item("build_in")>>}
        /\ queue' = [queue EXCEPT !["build_in"] = Tail(@)]
    BY <1>3 DEF CopyBuildIn, CompleteAndPop, CopyOf, deviceBuffers, main
  <2>2. /\ complete \subseteq complete'
        /\ \A k \in Writers \cup {"probe_memcpy_out"}, e \in Nat : Complete(k, e)' <=> Complete(k, e)
    BY <2>1 DEF Complete, Writers
  <2>3. builds' = builds /\ builds \in Nat /\ step # "exit"
    BY <1>3, <2>1 DEF builds, IInv, Types, Running
  <2>4. queue'["probe_out"] = queue["probe_out"]
    BY <2>1 DEF IInv, Types, Threads
  <2>5. TableTypes' /\ Asserted' /\ Pieces' /\ Counts' /\ RowsKept'
    BY <2>1, <2>2, <2>3, HeldKept, AssertedStill, ResultsStill, RowsKeptStill DEF RowsInv
  <2>6. OutInOrder' /\ BuffersTwice'
    BY <2>1, <2>2, <2>4 DEF RowsInv, OutInOrder, BuffersTwice, IsPair
  <2> QED
    BY <2>5, <2>6 DEF RowsInv
<1>4. CASE Running /\ Copying
  BY <1>3, <1>4, RowsInvOfMain, RowsInvOfCopyOut DEF Copying
<1>5. CASE Running /\ \E c \in queued : Start(c[1], c[2])
  BY <1>5, RowsInvOfStart
<1>6. CASE Running /\ \E c \in running : Execute(c[2])
  BY <1>6, RowsInvOfExecute
<1>7. CASE UNCHANGED vars
  <2>1. UNCHANGED <<step, p, queue, complete, tableL, result, probe_in, buf_probe_in, buf_probe_out, probe_out>>
    BY <1>7 DEF vars, main, threads, events, hostBuffers, deviceBuffers
  <2>2. builds' = builds /\ builds \in Nat /\ step' = step
    BY <2>1 DEF builds, IInv, Types
  <2>3. complete \subseteq complete' /\ \A k, e : Complete(k, e)' <=> Complete(k, e)
    BY <2>1 DEF Complete
  <2> QED
    BY <2>1, <2>2, <2>3, RowsInvStill
<1> QED
  BY <1>1, <1>2, <1>4, <1>5, <1>6, <1>7 DEF Next, Finished

(* All slices have been copied in the end, and all their rows are the matches.  *)
LEMMA AllJoined == IInv /\ EndInv /\ RowsInv => JoinCorrect
<1> SUFFICES ASSUME IInv, EndInv, RowsInv, step = "done"
             PROVE  /\ UNION {x.rows : x \in table_out} = Matches
                    /\ \A x, y \in table_out : x = y \/ Follows(x, y) \/ Follows(y, x)
                    /\ \A x \in table_out : x.at + Cardinality(x.rows) <= out_nrow_sum
                    /\ out_nrow_sum = Cardinality(Matches)
  BY DEF JoinCorrect
<1>1. /\ e_i = Partitions * Slices /\ builds = Partitions
      /\ Partitions \in Nat /\ Slices \in Nat /\ Partitions * Slices \in Nat
  BY SlicesPositive DEF EndInv, Counted, IInv, Types, builds
<1>2. \A e \in Nat : e \in AllSlices <=> e < e_i
  BY <1>1 DEF AllSlices, LastSlice
<1>3. \A e \in Nat : Complete("probe_memcpy_out", e) <=> e \in AllSlices
  <2>1. \A e \in Nat : Complete("probe_memcpy_out", e) => e < e_i
    BY DEF EndInv, QueueKept, Copied, CopyOf, Given, Threads
  <2> QED
    BY <1>2, <2>1, ResultsOver
<1>4. RowsIn(table_out) = UNION {Hits(e) : e \in {d \in Nat : Complete("probe_memcpy_out", d)}}
  BY DEF RowsInv, Pieces
<1>5. \A e \in AllSlices : ~TooFewRows(PartitionOf(e)) /\ e \in Nat
  <2> SUFFICES ASSUME NEW e \in AllSlices PROVE ~TooFewRows(PartitionOf(e)) /\ e \in Nat
    OBVIOUS
  <2>1. e \in Nat
    BY DEF AllSlices, LastSlice
  <2>2. PartitionOf(e) \in Nat /\ PartitionOf(e) < builds
    BY <1>1, <2>1, SlicesInAll DEF Parts
  <2> QED
    BY <2>1, <2>2 DEF RowsInv, Asserted
<1>6. RowsIn(table_out) = Matches
  <2>1. ASSUME NEW row \in RowsIn(table_out) PROVE row \in Matches
    <3>1. PICK e \in AllSlices : row \in RowsOf(e) /\ row \in matching
      BY <1>3, <1>4 DEF Hits
    <3> QED
      BY <1>5, <3>1, RowsInTable DEF RowsInv, Matches
  <2>2. ASSUME NEW row \in Matches PROVE row \in RowsIn(table_out)
    <3>1. row \in matching /\ row[2] < l_new_part_offset[row[1]]
      BY DEF Matches
    <3>2. row = <<row[1], row[2]>> /\ row[1] \in Parts /\ row[2] \in Nat
      BY <3>1 DEF RowsInv, TableTypes
    <3>3. PICK e \in AllSlices : row \in RowsOf(e)
      BY <3>1, <3>2, RowsCovered DEF RowsInv
    <3> QED
      BY <1>3, <1>4, <1>5, <3>1, <3>3 DEF Hits
  <2> QED
    BY <2>1, <2>2
<1>7. AddsUp(table_out, probe_out_nrow_accu) /\ out_nrow_sum = probe_out_nrow_accu
  BY DEF RowsInv, Pieces, Counts
<1>8. out_nrow_sum = Cardinality(Matches)
  BY <1>6, <1>7 DEF AddsUp
<1>9. \A x \in table_out : x.at + Cardinality(x.rows) <= out_nrow_sum
  BY <1>7 DEF AddsUp
<1>10. UNION {x.rows : x \in table_out} = Matches
  BY <1>6 DEF RowsIn
<1> QED
  BY <1>8, <1>9, <1>10 DEF RowsInv, Pieces

-----------------------------------------------------------------------------
(* The rows in the solution with one build.  What a slice leaves in a buffer  *)
(* stays until it has been read, the result until the thread has taken it.    *)

OneHits(s) == {row \in M!RowsOfSlice(s) : row \in matching}
OneTable == l_new_part_offset \in Nat /\ matching \subseteq Nat

ResultTaken(s) == s + 2 < e_i \/ (s + 2 = e_i /\ step \in {"launch", "lost"})

OneOrdered == \A s, j \in Nat : Started("l_krn", s) /\ j < s => Complete("l_krn", j)

TableBuilt ==
  /\ step = "build" \/ build_in = 0
  /\ step \in {"build", "built"} => e_i = 0
  /\ Complete("o_h2d", 0) => buf_build_in = 0
  /\ Complete("o_krn", 0) => hj_tmp = 0

CopyAllowed == step = "copy" => M!MayCopy(e_i)

SliceCopied ==
  \A s \in Nat : Queued("l_h2d", s) \/ Executing("l_h2d", s) => probe_in[sid(s)] = M!RowsOfSlice(s)
SliceSent ==
  \A s \in Nat : Complete("l_h2d", s) /\ ~Complete("l_krn", s) => buf_probe_in[sid(s)] = M!RowsOfSlice(s)
SliceProbed ==
  \A s \in Nat : Complete("l_krn", s) /\ ~Complete("l_d2h", s) => buf_probe_out[sid(s)] = OneHits(s)
SliceBack ==
  \A s \in Nat : Complete("l_d2h", s) /\ ~ResultTaken(s) => probe_out[sid(s)] = OneHits(s)

OnePieces ==
  /\ AddsUp(table_out, probe_out_nrow_accu)
  /\ RowsIn(table_out) = UNION {OneHits(s) : s \in {d \in M!AllSlices : ResultTaken(d)}}
  /\ \A x, y \in table_out : x = y \/ M!Follows(x, y) \/ M!Follows(y, x)

OneCounts ==
  /\ toutrow \in [M!AllSlices -> Nat]
  /\ \A s \in M!AllSlices : toutrow[s] = 0 \/ ResultTaken(s)
  /\ IsFiniteSet(M!RowsOut) /\ M!out_nrow_sum = probe_out_nrow_accu

OneKept == SliceCopied /\ SliceSent /\ SliceProbed /\ SliceBack
OneRows ==
  /\ OneTable /\ OneOrdered /\ TableBuilt /\ CopyAllowed
  /\ BuffersTwice /\ OneKept /\ OnePieces /\ OneCounts

(* The number of elements is counted in both solutions alike. *)
LEMMA SameCardinality == \A S : M!Cardinality(S) = Cardinality(S)
BY DEF Cardinality, M!Cardinality

-----------------------------------------------------------------------------
(* The slices *)

LEMMA OneSliceRows ==
  ASSUME OneTable
  PROVE  /\ ProbeSlices \in Nat /\ ProbeSlices > 0 /\ M!table_l_slice_nrow \in Nat
         /\ l_new_part_offset <= ProbeSlices * M!table_l_slice_nrow
         /\ ProbeSlices * M!table_l_slice_nrow <= l_new_part_offset + ProbeSlices - 1
<1>1. ProbeSlices \in Nat /\ ProbeSlices > 0 /\ l_new_part_offset \in Nat
  BY JoinerAssumption DEF OneTable
<1> QED
  BY <1>1 DEF M!table_l_slice_nrow

LEMMA OneHitsFinite ==
  ASSUME OneTable, NEW s \in Nat
  PROVE  IsFiniteSet(OneHits(s))
<1> DEFINE w == M!table_l_slice_nrow
<1>1. w \in Nat
  BY OneSliceRows
<1> HIDE DEF w
<1>2. s * w \in Int /\ (s + 1) * w - 1 \in Int
  BY <1>1
<1>3. IsFiniteSet((s * w)..((s + 1) * w - 1))
  BY <1>2, FS_Interval
<1>4. IsFiniteSet(M!RowsOfSlice(s))
  BY <1>3 DEF M!RowsOfSlice, w
<1> QED
  BY <1>4, FS_Subset DEF OneHits

LEMMA OneRowsApart ==
  ASSUME OneTable, NEW d \in Nat, NEW s \in Nat, d < s,
         NEW r \in M!RowsOfSlice(d), NEW x \in M!RowsOfSlice(s)
  PROVE  r < x
<1> DEFINE w == M!table_l_slice_nrow
<1>1. w \in Nat
  BY OneSliceRows
<1>2. r \in (d * w)..((d + 1) * w - 1) /\ x \in (s * w)..((s + 1) * w - 1)
  BY DEF M!RowsOfSlice
<1> HIDE DEF w
<1>3. (d + 1) * w <= s * w /\ (d + 1) * w \in Nat /\ s * w \in Nat /\ d * w \in Nat
  BY <1>1
<1>4. (s + 1) * w \in Nat
  BY <1>1
<1> QED
  BY <1>2, <1>3, <1>4

LEMMA OneRowsCovered ==
  ASSUME OneTable, NEW r \in Nat, r < l_new_part_offset
  PROVE  \E s \in M!AllSlices : r \in M!RowsOfSlice(s)
<1> DEFINE w == M!table_l_slice_nrow
           n == l_new_part_offset
<1>1. /\ w \in Nat /\ n \in Nat /\ ProbeSlices \in Nat /\ ProbeSlices > 0
      /\ n <= ProbeSlices * w /\ r < n
  BY OneSliceRows DEF OneTable
<1> HIDE DEF n
<1>2. w > 0
  <2> SUFFICES ASSUME w = 0 PROVE FALSE
    BY <1>1
  <2>1. ProbeSlices * w = 0
    BY <1>1
  <2> QED
    BY <1>1, <2>1
<1> DEFINE s == r \div w
<1> HIDE DEF w
<1>3. s \in Nat /\ w * s <= r /\ r < w * s + w
  BY <1>1, <1>2
<1> HIDE DEF s
<1>4. s * w = w * s /\ (s + 1) * w = w * s + w /\ w * s \in Nat
  BY <1>1, <1>3
<1>5. s < ProbeSlices
  <2> SUFFICES ASSUME ProbeSlices <= s PROVE FALSE
    BY <1>1, <1>3
  <2>1. ProbeSlices * w <= s * w /\ ProbeSlices * w \in Nat
    BY <1>1, <1>3
  <2> QED
    BY <1>1, <1>3, <1>4, <2>1
<1>6. s \in M!AllSlices
  BY <1>1, <1>3, <1>5 DEF M!AllSlices
<1>7. r \in (s * w)..((s + 1) * w - 1)
  BY <1>1, <1>3, <1>4
<1> QED
  BY <1>6, <1>7 DEF M!RowsOfSlice, w

(* The slices end with the table if its rows are a multiple of them.          *)
LEMMA OneRowsInTable ==
  ASSUME OneTable, l_new_part_offset % ProbeSlices = 0, NEW s \in M!AllSlices,
         NEW r \in M!RowsOfSlice(s)
  PROVE  r < l_new_part_offset
<1> DEFINE w == M!table_l_slice_nrow
           n == l_new_part_offset
           k == n \div ProbeSlices
<1>1. /\ w \in Nat /\ n \in Nat /\ ProbeSlices \in Nat /\ ProbeSlices > 0
      /\ n <= ProbeSlices * w /\ ProbeSlices * w <= n + ProbeSlices - 1
      /\ s \in Nat /\ s < ProbeSlices
  BY OneSliceRows DEF OneTable, M!AllSlices
<1>2. r \in (s * w)..((s + 1) * w - 1)
  BY DEF M!RowsOfSlice
<1>3. k \in Nat /\ n = ProbeSlices * k
  BY <1>1
<1> HIDE DEF w, n, k
<1>4. w = k
  <2>1. ~(w < k)
    <3> SUFFICES ASSUME w + 1 <= k PROVE FALSE
      BY <1>1, <1>3
    <3>1. ProbeSlices * (w + 1) <= ProbeSlices * k /\ ProbeSlices * (w + 1) = ProbeSlices * w + ProbeSlices
      BY <1>1, <1>3
    <3> QED
      BY <1>1, <1>3, <3>1
  <2>2. ~(w > k)
    <3> SUFFICES ASSUME k + 1 <= w PROVE FALSE
      BY <1>1, <1>3
    <3>1. ProbeSlices * (k + 1) <= ProbeSlices * w /\ ProbeSlices * (k + 1) = ProbeSlices * k + ProbeSlices
      BY <1>1, <1>3
    <3> QED
      BY <1>1, <1>3, <3>1
  <2> QED
    BY <1>1, <1>3, <2>1, <2>2
<1>5. (s + 1) * w <= ProbeSlices * w /\ (s + 1) * w \in Nat /\ s * w \in Nat
  BY <1>1
<1>6. r < n
  BY <1>1, <1>2, <1>3, <1>4, <1>5
<1> QED
  BY <1>6 DEF n

-----------------------------------------------------------------------------
(* A buffer is written when what was in it has been read. *)

LEMMA OneHeldKept ==
  ASSUME UNCHANGED <<l_new_part_offset, matching>>
  PROVE  /\ OneTable' <=> OneTable
         /\ \A s : M!RowsOfSlice(s)' = M!RowsOfSlice(s) /\ OneHits(s)' = OneHits(s)
<1>1. M!table_l_slice_nrow' = M!table_l_slice_nrow
  BY DEF M!table_l_slice_nrow
<1>2. \A s : M!RowsOfSlice(s)' = M!RowsOfSlice(s)
  BY <1>1 DEF M!RowsOfSlice
<1> QED
  BY <1>2 DEF OneTable, OneHits

LEMMA OneWaits ==
  ASSUME OneInv, NEW s \in Nat
  PROVE  /\ M!MayStart("l_h2d", s) /\ s > 1 => Complete("l_krn", s - 2)
         /\ M!MayStart("l_krn", s) => Complete("l_h2d", s) /\ (s > 0 => Complete("l_krn", s - 1))
         /\ M!MayStart("l_d2h", s) => Complete("l_krn", s)
BY DEF M!MayStart, M!Over, Complete

(* All that one of the kernels waits for comes in the order of the slices.    *)
LEMMA OneBefore ==
  ASSUME OneInv, OneOrdered, NEW s \in Nat, NEW j \in Nat, Complete("l_krn", s), j <= s
  PROVE  Complete("l_krn", j) /\ Complete("l_h2d", j)
<1>1. Complete("l_krn", j)
  BY DEF OneOrdered, Started
<1>2. M!MayStart("l_krn", j)
  BY <1>1 DEF OneInv, WaitedOfOne, Started, KindsOfOne, ProbeKinds
<1> QED
  BY <1>1, <1>2, OneWaits

LEMMA OneOthersRead ==
  ASSUME OneInv, OneOrdered, NEW kind \in ProbeKinds, NEW n \in Nat,
         Queued(kind, n) \/ Started(kind, n), M!MayStart(kind, n), ~Complete(kind, n),
         NEW s \in Nat, s # n, sid(s) = sid(n), Complete(kind, s)
  PROVE  /\ kind = "l_h2d" => Complete("l_krn", s)
         /\ kind = "l_krn" => Complete("l_d2h", s)
         /\ kind = "l_d2h" => ResultTaken(s)
<1>1. s + 2 <= n \/ n + 2 <= s
  BY DEF sid
<1>2. M!MayStart(kind, s)
  BY DEF OneInv, WaitedOfOne, Started, KindsOfOne
<1>3. /\ n < ProbeSlices /\ s < ProbeSlices /\ e_i \in Nat
      /\ kind \in {"l_krn", "l_d2h"} => n < e_i /\ s < e_i
  BY DEF OneInv, FreshOfOne, Started, KindsOfOne, TypesOfOne
<1>4. CASE kind = "l_h2d"
  <2>1. CASE s + 2 <= n
    <3>1. Complete("l_krn", n - 2) /\ n - 2 \in Nat /\ s <= n - 2
      BY <1>4, <2>1, OneWaits
    <3> QED
      BY <1>4, <3>1, OneBefore
  <2>2. CASE n + 2 <= s
    <3>1. Complete("l_krn", s - 2) /\ s - 2 \in Nat /\ n <= s - 2
      BY <1>2, <1>4, <2>2, OneWaits
    <3> QED
      BY <1>4, <3>1, OneBefore
  <2> QED
    BY <1>1, <2>1, <2>2
<1>5. CASE kind = "l_krn"
  <2>1. CASE s + 2 <= n
    <3>1. s + 2 < e_i
      BY <1>3, <1>5, <2>1
    <3> QED
      BY <1>3, <1>5, <3>1 DEF OneInv, Taken
  <2>2. CASE n + 2 <= s
    BY <1>5, <2>2, OneBefore
  <2> QED
    BY <1>1, <2>1, <2>2
<1>6. CASE kind = "l_d2h"
  <2>1. CASE s + 2 <= n
    BY <1>3, <1>6, <2>1 DEF ResultTaken
  <2>2. CASE n + 2 <= s
    <3>1. n + 2 < e_i
      BY <1>3, <1>6, <2>2
    <3> QED
      BY <1>3, <1>6, <3>1 DEF OneInv, Taken
  <2> QED
    BY <1>1, <2>1, <2>2
<1> QED
  BY <1>4, <1>5, <1>6 DEF ProbeKinds

(* Before a slice is copied in the one before in the buffer has been sent.    *)
LEMMA OneOthersSent ==
  ASSUME OneInv, OneOrdered, step \in {"wait", "copy"}, M!MayCopy(e_i), NEW s \in Nat,
         sid(s) = sid(e_i)
  PROVE  ~Queued("l_h2d", s) /\ ~Executing("l_h2d", s)
<1> SUFFICES ASSUME Queued("l_h2d", s) \/ Executing("l_h2d", s) PROVE FALSE
  OBVIOUS
<1>1. e_i \in Nat
  BY DEF OneInv, TypesOfOne
<1>2. s <= e_i /\ s # e_i
  BY DEF OneInv, FreshOfOne, Started, KindsOfOne, ProbeKinds
<1>3. s + 2 <= e_i
  BY <1>1, <1>2 DEF sid
<1>4. Complete("l_krn", e_i - 2) /\ e_i - 2 \in Nat /\ s <= e_i - 2
  BY <1>1, <1>3 DEF M!MayCopy, M!Over, Complete
<1>5. Complete("l_h2d", s)
  BY <1>4, OneBefore
<1> QED
  BY <1>5 DEF OneInv, OnceOfOne, Started, KindsOfOne, ProbeKinds

LEMMA OneResultsStill ==
  ASSUME OnePieces, OneCounts,
         UNCHANGED <<l_new_part_offset, matching, toutrow, probe_out_nrow_accu, table_out>>,
         \A s \in Nat : ResultTaken(s)' <=> ResultTaken(s)
  PROVE  OnePieces' /\ OneCounts'
<1>1. \A s \in M!AllSlices : s \in Nat
  BY JoinerAssumption DEF M!AllSlices
<1>2. \A s : OneHits(s)' = OneHits(s)
  BY OneHeldKept
<1>3. UNION {OneHits(s) : s \in {d \in M!AllSlices : ResultTaken(d)}}'
        = UNION {OneHits(s) : s \in {d \in M!AllSlices : ResultTaken(d)}}
  BY <1>1, <1>2
<1>4. OnePieces'
  BY <1>3 DEF OnePieces, AddsUp, RowsIn, M!Follows
<1>5. OneCounts'
  BY <1>1 DEF OneCounts, M!out_nrow_sum, M!RowsOut
<1> QED
  BY <1>4, <1>5

-----------------------------------------------------------------------------
(* The steps of the one thread *)

LEMMA OneRowsStill ==
  ASSUME OneRows,
         UNCHANGED <<l_new_part_offset, matching, toutrow, probe_out_nrow_accu, table_out,
                     queued, running, complete, build_in, buf_build_in, hj_tmp,
                     probe_in, buf_probe_in, buf_probe_out, probe_out, e_i>>,
         \A s \in Nat : ResultTaken(s)' <=> ResultTaken(s),
         step = "build" => step' = "build",
         step' \in {"build", "built"} => step \in {"build", "built"},
         step' = "copy" => step = "copy"
  PROVE  OneRows'
<1>1. \A k, s : /\ Queued(k, s)' <=> Queued(k, s)
                /\ Executing(k, s)' <=> Executing(k, s)
                /\ Complete(k, s)' <=> Complete(k, s)
                /\ Started(k, s)' <=> Started(k, s)
  BY DEF Queued, Executing, Complete, Started
<1>2. OneTable' /\ OnePieces' /\ OneCounts'
  BY OneHeldKept, OneResultsStill DEF OneRows
<1>3. OneOrdered'
  BY <1>1 DEF OneRows, OneOrdered
<1>4. TableBuilt'
  BY <1>1 DEF OneRows, TableBuilt
<1>5. CopyAllowed'
  BY <1>1 DEF OneRows, CopyAllowed, M!MayCopy, M!Over
<1>6. BuffersTwice'
  BY DEF OneRows, BuffersTwice, IsPair
<1>7. OneKept'
  BY <1>1, OneHeldKept DEF OneRows, OneKept, SliceCopied, SliceSent, SliceProbed, SliceBack, sid
<1> QED
  BY <1>2, <1>3, <1>4, <1>5, <1>6, <1>7 DEF OneRows

LEMMA OneRowsOfBuild ==
  ASSUME OneInv, OneRows, M!BuildTable
  PROVE  OneRows'
<1>1. /\ step = "build" /\ step' = "built" /\ queued' = {<<"o_h2d", 0>>, <<"o_krn", 0>>}
      /\ build_in' = 0
      /\ UNCHANGED <<l_new_part_offset, matching, toutrow, probe_out_nrow_accu, table_out,
                     running, complete, buf_build_in, hj_tmp,
                     probe_in, buf_probe_in, buf_probe_out, probe_out, e_i>>
  BY DEF M!BuildTable, M!deviceBuffers, M!result, M!tableL
<1>2. \A k, s : /\ Queued(k, s)' => k \in {"o_h2d", "o_krn"}
                /\ Executing(k, s)' <=> Executing(k, s)
                /\ Complete(k, s)' <=> Complete(k, s)
                /\ Started(k, s)' <=> Started(k, s)
  BY <1>1 DEF Queued, Executing, Complete, Started
<1>3. \A s \in Nat : ResultTaken(s)' <=> ResultTaken(s)
  BY <1>1 DEF ResultTaken
<1>4. OneTable' /\ OnePieces' /\ OneCounts'
  BY <1>1, <1>3, OneHeldKept, OneResultsStill DEF OneRows
<1>5. OneOrdered'
  BY <1>2 DEF OneRows, OneOrdered
<1>6. TableBuilt' /\ CopyAllowed'
  BY <1>1, <1>2 DEF OneRows, TableBuilt, CopyAllowed
<1>7. BuffersTwice'
  BY <1>1 DEF OneRows, BuffersTwice, IsPair
<1>8. OneKept'
  BY <1>1, <1>2, <1>3, OneHeldKept
     DEF OneRows, OneKept, SliceCopied, SliceSent, SliceProbed, SliceBack, sid
<1> QED
  BY <1>4, <1>5, <1>6, <1>7, <1>8 DEF OneRows

(* The thread begins to copy a slice in, or ends it. *)
LEMMA OneRowsOfCopy ==
  ASSUME OneInv, OneRows, step \in {"wait", "copy"}, M!MayCopy(e_i),
         UNCHANGED <<l_new_part_offset, matching, toutrow, probe_out_nrow_accu, table_out,
                     running, complete, build_in, buf_build_in, hj_tmp,
                     buf_probe_in, buf_probe_out, probe_out, e_i>>,
         NEW v, probe_in' = [probe_in EXCEPT ![sid(e_i)] = v],
         \/ queued' = queued /\ step' = "copy"
         \/ queued' = queued \cup {<<"l_h2d", e_i>>} /\ step' = "results" /\ v = M!RowsOfSlice(e_i)
  PROVE  OneRows'
<1>1. \A k, s : /\ Executing(k, s)' <=> Executing(k, s)
                /\ Complete(k, s)' <=> Complete(k, s)
                /\ Started(k, s)' <=> Started(k, s)
  BY DEF Executing, Complete, Started
<1>2. e_i \in Nat /\ \A s \in Nat : ResultTaken(s)' <=> ResultTaken(s)
  BY DEF ResultTaken, OneInv, TypesOfOne
<1>3. OneTable' /\ OnePieces' /\ OneCounts'
  BY <1>2, OneHeldKept, OneResultsStill DEF OneRows
<1>4. OneOrdered'
  BY <1>1 DEF OneRows, OneOrdered
<1>5. TableBuilt' /\ CopyAllowed'
  BY <1>1 DEF OneRows, TableBuilt, CopyAllowed, M!MayCopy, M!Over
<1>6. /\ IsPair(probe_in') /\ probe_in'[sid(e_i)] = v
      /\ \A s \in Nat : sid(s) # sid(e_i) => probe_in'[sid(s)] = probe_in[sid(s)]
  <2>1. \A s \in Nat : sid(s) \in {0, 1}
    BY DEF sid
  <2> QED
    BY <1>2, <2>1 DEF OneRows, BuffersTwice, IsPair
<1>7. BuffersTwice'
  BY <1>6 DEF OneRows, BuffersTwice, IsPair
<1>8. SliceCopied'
  <2> SUFFICES ASSUME NEW s \in Nat, Queued("l_h2d", s)' \/ Executing("l_h2d", s)'
               PROVE  probe_in'[sid(s)] = M!RowsOfSlice(s)
    BY OneHeldKept DEF SliceCopied, sid
  <2>1. CASE Queued("l_h2d", s) \/ Executing("l_h2d", s)
    <3>1. sid(s) # sid(e_i)
      BY <2>1, OneOthersSent DEF OneRows
    <3> QED
      BY <1>6, <2>1, <3>1 DEF OneRows, OneKept, SliceCopied
  <2>2. CASE ~(Queued("l_h2d", s) \/ Executing("l_h2d", s))
    <3>1. s = e_i /\ v = M!RowsOfSlice(e_i)
      BY <1>1, <2>2 DEF Queued
    <3> QED
      BY <1>6, <3>1
  <2> QED
    BY <2>1, <2>2
<1>9. SliceSent' /\ SliceProbed' /\ SliceBack'
  BY <1>1, <1>2, OneHeldKept DEF OneRows, OneKept, SliceSent, SliceProbed, SliceBack, sid
<1> QED
  BY <1>3, <1>4, <1>5, <1>7, <1>8, <1>9 DEF OneRows, OneKept

LEMMA OneRowsOfLaunch ==
  ASSUME OneInv, OneRows, M!Launch
  PROVE  OneRows'
<1>1. /\ e_i \in Nat /\ step = "launch" /\ e_i' = e_i + 1 /\ step' \in {"wait", "done"}
      /\ UNCHANGED <<l_new_part_offset, matching, toutrow, probe_out_nrow_accu, table_out,
                     running, complete, build_in, buf_build_in, hj_tmp,
                     probe_in, buf_probe_in, buf_probe_out, probe_out>>
      /\ queued' = queued \/ queued' = queued \cup {<<"l_krn", e_i>>, <<"l_d2h", e_i>>}
  BY DEF M!Launch, M!deviceBuffers, M!hostBuffers, M!result, M!tableL, OneInv, TypesOfOne
<1>2. \A k, s : /\ Executing(k, s)' <=> Executing(k, s)
                /\ Complete(k, s)' <=> Complete(k, s)
                /\ Started(k, s)' <=> Started(k, s)
  BY <1>1 DEF Executing, Complete, Started
<1>3. \A s : Queued("l_h2d", s)' <=> Queued("l_h2d", s)
  BY <1>1 DEF Queued
<1>4. \A s \in Nat : ResultTaken(s)' <=> ResultTaken(s)
  BY <1>1 DEF ResultTaken
<1>5. OneTable' /\ OnePieces' /\ OneCounts'
  BY <1>1, <1>4, OneHeldKept, OneResultsStill DEF OneRows
<1>6. OneOrdered'
  BY <1>2 DEF OneRows, OneOrdered
<1>7. TableBuilt' /\ CopyAllowed'
  BY <1>1, <1>2 DEF OneRows, TableBuilt, CopyAllowed
<1>8. BuffersTwice'
  BY <1>1 DEF OneRows, BuffersTwice, IsPair
<1>9. OneKept'
  BY <1>1, <1>2, <1>3, <1>4, OneHeldKept
     DEF OneRows, OneKept, SliceCopied, SliceSent, SliceProbed, SliceBack, sid
<1> QED
  BY <1>5, <1>6, <1>7, <1>8, <1>9 DEF OneRows

(* A result is taken: its rows go to table C. *)
LEMMA OneRowsOfResult ==
  ASSUME OneInv, OneRows, M!TakeResult
  PROVE  OneRows'
<1> DEFINE n == e_i - 2
           h == OneHits(n)
           c == Cardinality(h)
           accu == probe_out_nrow_accu
           z == [at |-> accu, rows |-> h]
<1>1. /\ e_i \in Nat /\ e_i > 1 /\ n \in Nat /\ n + 2 = e_i /\ step = "results" /\ sid(n) = sid(e_i)
      /\ ProbeSlices \in Nat /\ step' \in {"launch", "lost"}
  BY JoinerAssumption DEF M!TakeResult, OneInv, TypesOfOne, sid
<1>2. Complete("l_d2h", n) /\ ~ResultTaken(n) /\ n \in M!AllSlices
  <2>1. Complete("l_d2h", n)
    BY <1>1 DEF M!TakeResult, M!Over, Complete
  <2>2. n < ProbeSlices
    BY <1>1 DEF OneInv, Taken, M!Rounds
  <2> QED
    BY <1>1, <2>1, <2>2 DEF ResultTaken, M!AllSlices
<1>3. M!found = h
  BY <1>1, <1>2 DEF OneRows, OneKept, SliceBack, M!found, M!k_id, sid
<1>4. /\ toutrow' = [toutrow EXCEPT ![n] = c]
      /\ table_out' = table_out \cup {z}
      /\ probe_out_nrow_accu' = accu + c
      /\ UNCHANGED <<l_new_part_offset, matching, queued, running, complete,
                     build_in, buf_build_in, hj_tmp,
                     probe_in, buf_probe_in, buf_probe_out, probe_out, e_i>>
  <2>1. M!probe_out_nrow = c
    BY <1>3, SameCardinality DEF M!probe_out_nrow
  <2> QED
    BY <1>3, <2>1 DEF M!TakeResult, M!events, M!deviceBuffers, M!hostBuffers, M!tableL
<1>5. OneTable /\ OneTable' /\ \A s : OneHits(s)' = OneHits(s)
  BY <1>4, OneHeldKept DEF OneRows
<1>6. IsFiniteSet(h)
  BY <1>1, <1>5, OneHitsFinite
<1>7. \A s \in Nat : /\ ResultTaken(s)' <=> ResultTaken(s) \/ s = n
                     /\ ResultTaken(s) => s < n
  BY <1>1, <1>4 DEF ResultTaken
<1> HIDE DEF n, h, c, accu, z
<1>8. \A s \in M!AllSlices : s \in Nat
  BY <1>1 DEF M!AllSlices
<1>9. \A k, s : /\ Queued(k, s)' <=> Queued(k, s)
                /\ Executing(k, s)' <=> Executing(k, s)
                /\ Complete(k, s)' <=> Complete(k, s)
                /\ Started(k, s)' <=> Started(k, s)
  BY <1>4 DEF Queued, Executing, Complete, Started
<1>10. OneOrdered' /\ TableBuilt' /\ CopyAllowed'
  BY <1>1, <1>4, <1>9 DEF OneRows, OneOrdered, TableBuilt, CopyAllowed
<1>11. BuffersTwice'
  BY <1>4 DEF OneRows, BuffersTwice, IsPair
<1>12. OneKept'
  BY <1>4, <1>7, <1>9, OneHeldKept
     DEF OneRows, OneKept, SliceCopied, SliceSent, SliceProbed, SliceBack, sid
<1>13. \A r \in RowsIn(table_out), x \in h : r < x
  <2> SUFFICES ASSUME NEW r \in RowsIn(table_out), NEW x \in h PROVE r < x
    OBVIOUS
  <2>1. PICK s \in M!AllSlices : ResultTaken(s) /\ r \in OneHits(s)
    BY DEF OneRows, OnePieces
  <2>2. s \in Nat /\ s < n
    BY <1>7, <1>8, <2>1
  <2> QED
    BY <1>1, <1>5, <2>1, <2>2, OneRowsApart DEF OneHits, h
<1>14. h \cap RowsIn(table_out) = {}
  <2> SUFFICES ASSUME NEW r \in h, r \in RowsIn(table_out) PROVE FALSE
    OBVIOUS
  <2>1. r \in Nat
    BY <1>5 DEF h, OneHits, OneTable
  <2> QED
    BY <1>13, <2>1
<1>15. /\ c \in Nat /\ accu + c \in Nat /\ AddsUp(table_out', accu + c)
       /\ RowsIn(table_out') = RowsIn(table_out) \cup h
  <2>1. AddsUp(table_out, accu)
    BY DEF OneRows, OnePieces, accu
  <2> QED
    BY <1>4, <1>6, <1>14, <2>1, PieceAdded DEF z, c
<1>16. OnePieces'
  <2>1. AddsUp(table_out', probe_out_nrow_accu')
    BY <1>4, <1>15
  <2>2. RowsIn(table_out') = UNION {OneHits(s)' : s \in {d \in M!AllSlices : ResultTaken(d)'}}
    <3>1. RowsIn(table_out) = UNION {OneHits(s) : s \in {d \in M!AllSlices : ResultTaken(d)}}
      BY DEF OneRows, OnePieces
    <3>2. UNION {OneHits(s)' : s \in {d \in M!AllSlices : ResultTaken(d)'}}
            = UNION {OneHits(s) : s \in {d \in M!AllSlices : ResultTaken(d) \/ d = n}}
      BY <1>5, <1>7, <1>8
    <3>3. UNION {OneHits(s) : s \in {d \in M!AllSlices : ResultTaken(d) \/ d = n}}
            = RowsIn(table_out) \cup h
      BY <1>2, <3>1 DEF h
    <3> QED
      BY <1>15, <3>2, <3>3
  <2>3. ASSUME NEW x \in table_out' , NEW y \in table_out'
        PROVE  x = y \/ M!Follows(x, y) \/ M!Follows(y, x)
    <3>1. ASSUME NEW v \in table_out PROVE M!Follows(v, z)
      <4>1. v.at + Cardinality(v.rows) <= accu
        BY DEF OneRows, OnePieces, AddsUp, accu
      <4>2. v.rows \subseteq RowsIn(table_out)
        BY DEF RowsIn
      <4>3. z.at = accu /\ z.rows = h
        BY DEF z
      <4> QED
        BY <1>13, <4>1, <4>2, <4>3, SameCardinality DEF M!Follows
    <3> QED
      BY <1>4, <3>1 DEF OneRows, OnePieces
  <2>4. M!AllSlices' = M!AllSlices
    BY DEF M!AllSlices
  <2> QED
    BY <2>1, <2>2, <2>3, <2>4 DEF OnePieces, AddsUp, RowsIn, M!Follows
<1>17. OneCounts'
  <2>1. toutrow \in [M!AllSlices -> Nat] /\ toutrow[n] = 0
    BY <1>2 DEF OneRows, OneCounts
  <2>2. /\ IsFiniteSet(Numbers(M!AllSlices, toutrow))
        /\ Cardinality(Numbers(M!AllSlices, toutrow)) = accu
    BY SameCardinality DEF OneRows, OneCounts, M!out_nrow_sum, M!RowsOut, Numbers, accu
  <2>3. IsFiniteSet(Numbers(M!AllSlices, toutrow'))
        /\ Cardinality(Numbers(M!AllSlices, toutrow')) = accu + c
    <3>0. c \in Nat
      BY <1>15
    <3>1. toutrow'[n] = c /\ \A s \in M!AllSlices : s # n => toutrow'[s] = toutrow[s]
      BY <1>2, <1>4, <2>1
    <3>2. {c, accu} \subseteq Nat
      BY <3>0 DEF OneRows, OnePieces, AddsUp, accu
    <3> QED
      BY <1>2, <2>1, <2>2, <3>1, <3>2, NumbersGrow
  <2>4. M!RowsOut' = Numbers(M!AllSlices, toutrow')
    BY DEF M!RowsOut, Numbers, M!AllSlices
  <2>5. IsFiniteSet(M!RowsOut') /\ Cardinality(M!RowsOut') = probe_out_nrow_accu'
    BY <1>4, <2>3, <2>4
  <2>6. /\ toutrow' \in [M!AllSlices -> Nat]
        /\ \A s \in M!AllSlices : toutrow'[s] = 0 \/ ResultTaken(s)'
    BY <1>2, <1>4, <1>7, <1>8, <1>15, <2>1 DEF OneRows, OneCounts
  <2> QED
    BY <2>5, <2>6, SameCardinality DEF OneCounts, M!out_nrow_sum, M!AllSlices
<1> QED
  BY <1>5, <1>10, <1>11, <1>12, <1>16, <1>17 DEF OneRows

-----------------------------------------------------------------------------
(* The steps of the device *)

(* A command of a slice may write all of its buffer: no other slice's rows     *)
(* are waited for there.                                                      *)
LEMMA OneOthersKept ==
  ASSUME OneInv, OneRows, NEW kind \in ProbeKinds, NEW n \in Nat,
         Queued(kind, n) \/ Executing(kind, n), M!MayStart(kind, n), ~Complete(kind, n),
         NEW v,
         buf_probe_in' = IF kind = "l_h2d" THEN [buf_probe_in EXCEPT ![sid(n)] = v] ELSE buf_probe_in,
         buf_probe_out' = IF kind = "l_krn" THEN [buf_probe_out EXCEPT ![sid(n)] = v] ELSE buf_probe_out,
         probe_out' = IF kind = "l_d2h" THEN [probe_out EXCEPT ![sid(n)] = v] ELSE probe_out,
         UNCHANGED probe_in
  PROVE  /\ BuffersTwice'
         /\ kind = "l_h2d" => buf_probe_in'[sid(n)] = v
         /\ kind = "l_krn" => buf_probe_out'[sid(n)] = v
         /\ kind = "l_d2h" => probe_out'[sid(n)] = v
         /\ \A s \in Nat : Complete("l_h2d", s) /\ ~Complete("l_krn", s) =>
              buf_probe_in'[sid(s)] = M!RowsOfSlice(s)
         /\ \A s \in Nat : Complete("l_krn", s) /\ ~Complete("l_d2h", s) =>
              buf_probe_out'[sid(s)] = OneHits(s)
         /\ \A s \in Nat : Complete("l_d2h", s) /\ ~ResultTaken(s) =>
              probe_out'[sid(s)] = OneHits(s)
<1>0. \A s \in Nat : sid(s) \in {0, 1}
  BY DEF sid
<1>1. IsPair(probe_in) /\ IsPair(buf_probe_in) /\ IsPair(buf_probe_out) /\ IsPair(probe_out)
  BY DEF OneRows, BuffersTwice
<1>2. ASSUME NEW s \in Nat, Complete(kind, s), sid(s) = sid(n)
      PROVE  /\ kind = "l_h2d" => Complete("l_krn", s)
             /\ kind = "l_krn" => Complete("l_d2h", s)
             /\ kind = "l_d2h" => ResultTaken(s)
  BY <1>2, OneOthersRead DEF OneRows, Started
<1>3. /\ \A s \in Nat : Complete("l_h2d", s) /\ ~Complete("l_krn", s) =>
           buf_probe_in[sid(s)] = M!RowsOfSlice(s)
      /\ \A s \in Nat : Complete("l_krn", s) /\ ~Complete("l_d2h", s) =>
           buf_probe_out[sid(s)] = OneHits(s)
      /\ \A s \in Nat : Complete("l_d2h", s) /\ ~ResultTaken(s) =>
           probe_out[sid(s)] = OneHits(s)
  BY DEF OneRows, OneKept, SliceSent, SliceProbed, SliceBack
<1>4. CASE kind = "l_h2d"
  <2>1. /\ IsPair(buf_probe_in') /\ buf_probe_in'[sid(n)] = v
        /\ \A s \in Nat : sid(s) # sid(n) => buf_probe_in'[sid(s)] = buf_probe_in[sid(s)]
    BY <1>0, <1>1, <1>4 DEF IsPair
  <2>2. UNCHANGED <<probe_in, buf_probe_out, probe_out>>
    BY <1>4
  <2>3. BuffersTwice'
    BY <1>1, <2>1, <2>2 DEF BuffersTwice, IsPair
  <2> QED
    BY <1>2, <1>3, <1>4, <2>1, <2>2, <2>3
<1>5. CASE kind = "l_krn"
  <2>1. /\ IsPair(buf_probe_out') /\ buf_probe_out'[sid(n)] = v
        /\ \A s \in Nat : sid(s) # sid(n) => buf_probe_out'[sid(s)] = buf_probe_out[sid(s)]
    BY <1>0, <1>1, <1>5 DEF IsPair
  <2>2. UNCHANGED <<probe_in, buf_probe_in, probe_out>>
    BY <1>5
  <2>3. BuffersTwice'
    BY <1>1, <2>1, <2>2 DEF BuffersTwice, IsPair
  <2> QED
    BY <1>2, <1>3, <1>5, <2>1, <2>2, <2>3
<1>6. CASE kind = "l_d2h"
  <2>1. /\ IsPair(probe_out') /\ probe_out'[sid(n)] = v
        /\ \A s \in Nat : sid(s) # sid(n) => probe_out'[sid(s)] = probe_out[sid(s)]
    BY <1>0, <1>1, <1>6 DEF IsPair
  <2>2. UNCHANGED <<probe_in, buf_probe_in, buf_probe_out>>
    BY <1>6
  <2>3. BuffersTwice'
    BY <1>1, <2>1, <2>2 DEF BuffersTwice, IsPair
  <2> QED
    BY <1>2, <1>3, <1>6, <2>1, <2>2, <2>3
<1> QED
  BY <1>4, <1>5, <1>6 DEF ProbeKinds

LEMMA OneRowsOfStart ==
  ASSUME OneInv, OneRows, NEW kind \in KindsOfOne, NEW n \in Nat, M!Start(kind, n)
  PROVE  OneRows'
<1>1. /\ Queued(kind, n) /\ M!MayStart(kind, n)
      /\ queued' = queued \ {<<kind, n>>} /\ running' = running \cup {<<kind, n>>}
      /\ UNCHANGED <<e_i, step, complete, build_in, probe_in, buf_build_in, hj_tmp,
                     l_new_part_offset, matching, toutrow, probe_out_nrow_accu, table_out>>
  BY DEF M!Start, Queued, M!result, M!tableL
<1>2. /\ buf_probe_in' = IF kind = "l_h2d" THEN [buf_probe_in EXCEPT ![sid(n)] = M!TornRows]
                         ELSE buf_probe_in
      /\ buf_probe_out' = IF kind = "l_krn" THEN [buf_probe_out EXCEPT ![sid(n)] = M!TornRows]
                          ELSE buf_probe_out
      /\ probe_out' = IF kind = "l_d2h" THEN [probe_out EXCEPT ![sid(n)] = M!TornRows]
                      ELSE probe_out
  BY DEF M!Start, M!TornIf, M!k_id, sid
<1>3. \A k, s : /\ Queued(k, s)' \/ Executing(k, s)' <=> Queued(k, s) \/ Executing(k, s)
                /\ Complete(k, s)' <=> Complete(k, s)
                /\ Started(k, s)' <=> Started(k, s) \/ (k = kind /\ s = n)
  BY <1>1 DEF Queued, Executing, Complete, Started
<1>4. ~Complete(kind, n)
  BY <1>1 DEF OneInv, OnceOfOne, Started
<1>5. \A s \in Nat : ResultTaken(s)' <=> ResultTaken(s)
  BY <1>1 DEF ResultTaken
<1>6. OneTable' /\ OnePieces' /\ OneCounts'
  BY <1>1, <1>5, OneHeldKept, OneResultsStill DEF OneRows
<1>7. OneOrdered'
  <2> SUFFICES ASSUME NEW s \in Nat, NEW j \in Nat, Started("l_krn", s)', j < s
               PROVE  Complete("l_krn", j)
    BY <1>3 DEF OneOrdered
  <2>1. CASE Started("l_krn", s)
    BY <2>1 DEF OneRows, OneOrdered
  <2>2. CASE kind = "l_krn" /\ s = n
    <3>1. s - 1 \in Nat /\ Complete("l_krn", s - 1) /\ (j = s - 1 \/ j < s - 1)
      BY <1>1, <2>2, OneWaits
    <3> QED
      BY <3>1 DEF OneRows, OneOrdered, Started
  <2> QED
    BY <1>3, <2>1, <2>2
<1>8. TableBuilt' /\ CopyAllowed'
  BY <1>1, <1>3 DEF OneRows, TableBuilt, CopyAllowed, M!MayCopy, M!Over
<1>9. SliceCopied'
  BY <1>1, <1>3, OneHeldKept DEF OneRows, OneKept, SliceCopied, sid
<1>10. CASE kind \notin ProbeKinds
  <2>1. UNCHANGED <<buf_probe_in, buf_probe_out, probe_out>>
    BY <1>2, <1>10 DEF ProbeKinds
  <2>2. BuffersTwice'
    BY <1>1, <2>1 DEF OneRows, BuffersTwice, IsPair
  <2>3. SliceSent' /\ SliceProbed' /\ SliceBack'
    BY <1>1, <1>3, <1>5, <2>1, OneHeldKept DEF OneRows, OneKept, SliceSent, SliceProbed, SliceBack, sid
  <2> QED
    BY <1>6, <1>7, <1>8, <1>9, <2>2, <2>3 DEF OneRows, OneKept
<1>11. CASE kind \in ProbeKinds
  <2>1. /\ BuffersTwice'
        /\ \A s \in Nat : Complete("l_h2d", s) /\ ~Complete("l_krn", s) =>
              buf_probe_in'[sid(s)] = M!RowsOfSlice(s)
        /\ \A s \in Nat : Complete("l_krn", s) /\ ~Complete("l_d2h", s) =>
              buf_probe_out'[sid(s)] = OneHits(s)
        /\ \A s \in Nat : Complete("l_d2h", s) /\ ~ResultTaken(s) =>
              probe_out'[sid(s)] = OneHits(s)
    BY <1>1, <1>2, <1>4, <1>11, OneOthersKept
  <2>2. SliceSent' /\ SliceProbed' /\ SliceBack'
    BY <1>1, <1>3, <1>5, <2>1, OneHeldKept DEF SliceSent, SliceProbed, SliceBack, sid
  <2> QED
    BY <1>6, <1>7, <1>8, <1>9, <2>1, <2>2 DEF OneRows, OneKept
<1> QED
  BY <1>10, <1>11

(* What a command of a slice finds in its source. *)
LEMMA OneSourceKept ==
  ASSUME OneInv, OneRows, NEW kind \in KindsOfOne, NEW n \in Nat, Executing(kind, n)
  PROVE  /\ M!MayStart(kind, n) /\ ~Complete(kind, n)
         /\ kind = "o_h2d" => build_in = 0
         /\ kind = "o_krn" => buf_build_in = 0
         /\ kind = "l_h2d" => probe_in[sid(n)] = M!RowsOfSlice(n)
         /\ kind = "l_krn" => buf_probe_in[sid(n)] = M!RowsOfSlice(n) /\ hj_tmp = 0
         /\ kind = "l_d2h" => buf_probe_out[sid(n)] = OneHits(n)
<1>1. M!MayStart(kind, n) /\ ~Complete(kind, n) /\ Started(kind, n)
  BY DEF OneInv, WaitedOfOne, OnceOfOne, Started
<1>2. kind = "o_h2d" => build_in = 0
  BY <1>1 DEF OneInv, FreshOfOne, OneRows, TableBuilt
<1>3. kind = "o_krn" => buf_build_in = 0
  <2> SUFFICES ASSUME kind = "o_krn" PROVE buf_build_in = 0
    OBVIOUS
  <2>1. n = 0
    BY <1>1 DEF OneInv, FreshOfOne
  <2>2. Complete("o_h2d", 0)
    BY <1>1, <2>1 DEF M!MayStart, M!Over, Complete
  <2> QED
    BY <2>2 DEF OneRows, TableBuilt
<1>4. kind = "l_h2d" => probe_in[sid(n)] = M!RowsOfSlice(n)
  BY DEF OneRows, OneKept, SliceCopied
<1>5. kind = "l_krn" => buf_probe_in[sid(n)] = M!RowsOfSlice(n) /\ hj_tmp = 0
  <2> SUFFICES ASSUME kind = "l_krn" PROVE buf_probe_in[sid(n)] = M!RowsOfSlice(n) /\ hj_tmp = 0
    OBVIOUS
  <2>1. Complete("l_h2d", n)
    BY <1>1, OneWaits
  <2>2. n < e_i /\ e_i \in Nat
    BY <1>1 DEF OneInv, FreshOfOne, TypesOfOne
  <2>3. Complete("o_krn", 0)
    <3>1. step \notin {"build", "built"}
      BY <2>2 DEF OneRows, TableBuilt
    <3> QED
      BY <3>1 DEF OneInv, Taken
  <2> QED
    BY <1>1, <2>1, <2>3 DEF OneRows, OneKept, SliceSent, TableBuilt
<1>6. kind = "l_d2h" => buf_probe_out[sid(n)] = OneHits(n)
  BY <1>1, OneWaits DEF OneRows, OneKept, SliceProbed
<1> QED
  BY <1>1, <1>2, <1>3, <1>4, <1>5, <1>6

LEMMA OneRowsOfFinish ==
  ASSUME OneInv, OneRows, NEW kind \in KindsOfOne, NEW n \in Nat, M!Finish(kind, n), NEW v,
         kind = "l_h2d" => v = M!RowsOfSlice(n),
         kind \in {"l_krn", "l_d2h"} => v = OneHits(n),
         buf_build_in' = IF kind = "o_h2d" THEN 0 ELSE buf_build_in,
         hj_tmp' = IF kind = "o_krn" THEN 0 ELSE hj_tmp,
         buf_probe_in' = IF kind = "l_h2d" THEN [buf_probe_in EXCEPT ![sid(n)] = v] ELSE buf_probe_in,
         buf_probe_out' = IF kind = "l_krn" THEN [buf_probe_out EXCEPT ![sid(n)] = v] ELSE buf_probe_out,
         probe_out' = IF kind = "l_d2h" THEN [probe_out EXCEPT ![sid(n)] = v] ELSE probe_out
  PROVE  OneRows'
<1>1. /\ Executing(kind, n) /\ running' = running \ {<<kind, n>>}
      /\ complete' = complete \cup {<<kind, n>>}
      /\ UNCHANGED <<e_i, step, queued, build_in, probe_in,
                     l_new_part_offset, matching, toutrow, probe_out_nrow_accu, table_out>>
  BY DEF M!Finish, Executing, M!result, M!tableL
<1>2. M!MayStart(kind, n) /\ ~Complete(kind, n)
  BY <1>1, OneSourceKept
<1>3. \A k, s : /\ Queued(k, s)' \/ Executing(k, s)' => Queued(k, s) \/ Executing(k, s)
                /\ Complete(k, s)' <=> Complete(k, s) \/ (k = kind /\ s = n)
                /\ Started(k, s)' <=> Started(k, s)
  BY <1>1 DEF Queued, Executing, Complete, Started
<1>4. \A s \in Nat : ResultTaken(s)' <=> ResultTaken(s)
  BY <1>1 DEF ResultTaken
<1>5. OneTable' /\ OnePieces' /\ OneCounts'
  BY <1>1, <1>4, OneHeldKept, OneResultsStill DEF OneRows
<1>6. OneOrdered'
  BY <1>3 DEF OneRows, OneOrdered
<1>7. TableBuilt'
  BY <1>1, <1>3 DEF OneRows, TableBuilt
<1>8. CopyAllowed'
  BY <1>1 DEF OneRows, CopyAllowed, M!MayCopy, M!Over
<1>9. SliceCopied'
  BY <1>1, <1>3, OneHeldKept DEF OneRows, OneKept, SliceCopied, sid
<1>10. CASE kind \notin ProbeKinds
  <2>1. UNCHANGED <<buf_probe_in, buf_probe_out, probe_out>>
    BY <1>10 DEF ProbeKinds
  <2>2. BuffersTwice'
    BY <1>1, <2>1 DEF OneRows, BuffersTwice, IsPair
  <2>3. \A k \in ProbeKinds : \A s : Complete(k, s)' <=> Complete(k, s)
    BY <1>3, <1>10
  <2>4. SliceSent' /\ SliceProbed' /\ SliceBack'
    BY <1>1, <1>4, <2>1, <2>3, OneHeldKept
       DEF OneRows, OneKept, SliceSent, SliceProbed, SliceBack, sid, ProbeKinds
  <2> QED
    BY <1>5, <1>6, <1>7, <1>8, <1>9, <2>2, <2>4 DEF OneRows, OneKept
<1>11. CASE kind \in ProbeKinds
  <2>1. /\ BuffersTwice'
        /\ kind = "l_h2d" => buf_probe_in'[sid(n)] = v
        /\ kind = "l_krn" => buf_probe_out'[sid(n)] = v
        /\ kind = "l_d2h" => probe_out'[sid(n)] = v
        /\ \A s \in Nat : Complete("l_h2d", s) /\ ~Complete("l_krn", s) =>
              buf_probe_in'[sid(s)] = M!RowsOfSlice(s)
        /\ \A s \in Nat : Complete("l_krn", s) /\ ~Complete("l_d2h", s) =>
              buf_probe_out'[sid(s)] = OneHits(s)
        /\ \A s \in Nat : Complete("l_d2h", s) /\ ~ResultTaken(s) =>
              probe_out'[sid(s)] = OneHits(s)
    BY <1>1, <1>2, <1>11, OneOthersKept
  <2>2. SliceSent' /\ SliceProbed' /\ SliceBack'
    BY <1>1, <1>3, <1>4, <2>1, OneHeldKept DEF SliceSent, SliceProbed, SliceBack, sid
  <2> QED
    BY <1>5, <1>6, <1>7, <1>8, <1>9, <2>1, <2>2 DEF OneRows, OneKept
<1> QED
  BY <1>10, <1>11

-----------------------------------------------------------------------------
(* All steps *)

LEMMA OneRowsInit == M!Init => OneRows
<1> SUFFICES ASSUME M!Init PROVE OneRows
  OBVIOUS
<1>1. /\ e_i = 0 /\ step = "build" /\ queued = {} /\ running = {} /\ complete = {}
      /\ table_out = {} /\ probe_out_nrow_accu = 0
      /\ toutrow = [s \in M!AllSlices |-> 0]
  BY DEF M!Init
<1>2. \A k, s : ~Queued(k, s) /\ ~Started(k, s) /\ ~Executing(k, s) /\ ~Complete(k, s)
  BY <1>1 DEF Queued, Started, Executing, Complete
<1>3. \A s \in Nat : ~ResultTaken(s)
  BY <1>1 DEF ResultTaken
<1>4. OneTable
  <2>1. PICK table \in ProbeTables : l_new_part_offset = table.nrow /\ matching = table.matching
    BY DEF M!Init
  <2>2. table \in [nrow : Nat, matching : SUBSET Nat]
    BY JoinerAssumption
  <2> QED
    BY <2>1, <2>2 DEF OneTable
<1>5. OneOrdered /\ TableBuilt /\ CopyAllowed /\ OneKept
  BY <1>1, <1>2 DEF OneOrdered, TableBuilt, CopyAllowed,
                    OneKept, SliceCopied, SliceSent, SliceProbed, SliceBack
<1>6. BuffersTwice
  BY DEF M!Init, BuffersTwice, IsPair
<1>7. OnePieces
  <2>1. RowsIn(table_out) = {}
    BY <1>1 DEF RowsIn
  <2>2. \A s \in M!AllSlices : ~ResultTaken(s)
    BY <1>3, JoinerAssumption DEF M!AllSlices
  <2> QED
    BY <1>1, <2>1, <2>2, FS_EmptySet DEF OnePieces, AddsUp
<1>8. OneCounts
  <2>1. \A s \in M!AllSlices : toutrow[s] = 0
    BY <1>1
  <2>2. IsFiniteSet(Numbers(M!AllSlices, toutrow)) /\ Cardinality(Numbers(M!AllSlices, toutrow)) = 0
    BY <2>1, NumbersNone
  <2>3. M!RowsOut = Numbers(M!AllSlices, toutrow)
    BY DEF M!RowsOut, Numbers
  <2> QED
    BY <1>1, <2>1, <2>2, <2>3, SameCardinality DEF OneCounts, M!out_nrow_sum
<1> QED
  BY <1>4, <1>5, <1>6, <1>7, <1>8 DEF OneRows

LEMMA OneRowsOfWaits ==
  ASSUME OneInv, OneRows,
         M!WaitForBuild \/ M!NoResult \/ M!Stopped \/ (M!WaitForProbe /\ e_i >= ProbeSlices)
  PROVE  OneRows'
<1>1. e_i \in Nat /\ ProbeSlices \in Nat
  BY JoinerAssumption DEF OneInv, TypesOfOne
<1>2. UNCHANGED <<l_new_part_offset, matching, toutrow, probe_out_nrow_accu, table_out,
                  queued, running, complete, build_in, buf_build_in, hj_tmp,
                  probe_in, buf_probe_in, buf_probe_out, probe_out, e_i>>
  <2>1. CASE M!WaitForBuild
    BY <2>1 DEF M!WaitForBuild, M!events, M!hostBuffers, M!deviceBuffers, M!result, M!tableL
  <2>2. CASE M!NoResult
    BY <2>2 DEF M!NoResult, M!events, M!hostBuffers, M!deviceBuffers, M!result, M!tableL
  <2>3. CASE M!Stopped
    BY <2>3 DEF M!Stopped, M!vars, M!events, M!hostBuffers, M!deviceBuffers, M!result, M!tableL
  <2>4. CASE M!WaitForProbe /\ e_i >= ProbeSlices
    BY <1>1, <2>4 DEF M!WaitForProbe, M!events, M!hostBuffers, M!deviceBuffers, M!result, M!tableL
  <2> QED
    BY <2>1, <2>2, <2>3, <2>4
<1>3. \/ step' = step
      \/ step = "built" /\ step' = "wait"
      \/ step = "results" /\ step' = "launch" /\ e_i <= 1
      \/ step = "wait" /\ step' = "results"
  BY <1>1 DEF M!WaitForBuild, M!NoResult, M!Stopped, M!WaitForProbe, M!vars
<1>4. \A s \in Nat : ResultTaken(s)' <=> ResultTaken(s)
  BY <1>1, <1>2, <1>3 DEF ResultTaken
<1> QED
  BY <1>2, <1>3, <1>4, OneRowsStill

LEMMA OneRowsNext == OneInv /\ OneRows /\ M!Next => OneRows'
<1> SUFFICES ASSUME OneInv, OneRows, M!Next PROVE OneRows'
  OBVIOUS
<1>1. e_i \in Nat /\ ProbeSlices \in Nat /\ queued \subseteq KindsOfOne \X Nat
  BY JoinerAssumption DEF OneInv, TypesOfOne
<1>2. CASE M!WaitForBuild \/ M!NoResult \/ M!Stopped
  BY <1>2, OneRowsOfWaits
<1>3. CASE M!WaitForProbe
  <2>1. CASE e_i < ProbeSlices
    <3>1. /\ step = "wait" /\ M!MayCopy(e_i) /\ step' = "copy"
          /\ probe_in' = [probe_in EXCEPT ![sid(e_i)] = M!TornRows]
          /\ UNCHANGED <<l_new_part_offset, matching, toutrow, probe_out_nrow_accu, table_out,
                         queued, running, complete, build_in, buf_build_in, hj_tmp,
                         buf_probe_in, buf_probe_out, probe_out, e_i>>
      BY <1>3, <2>1 DEF M!WaitForProbe, M!k_id, sid, M!events, M!deviceBuffers, M!result, M!tableL
    <3> QED
      BY <3>1, OneRowsOfCopy
  <2>2. CASE e_i >= ProbeSlices
    BY <1>3, <2>2, OneRowsOfWaits
  <2> QED
    BY <1>1, <2>1, <2>2
<1>4. CASE M!CopySlice
  <2>1. /\ step = "copy" /\ step' = "results" /\ queued' = queued \cup {<<"l_h2d", e_i>>}
        /\ probe_in' = [probe_in EXCEPT ![sid(e_i)] = M!RowsOfSlice(e_i)]
        /\ UNCHANGED <<l_new_part_offset, matching, toutrow, probe_out_nrow_accu, table_out,
                       running, complete, build_in, buf_build_in, hj_tmp,
                       buf_probe_in, buf_probe_out, probe_out, e_i>>
    BY <1>4 DEF M!CopySlice, M!k_id, sid, M!deviceBuffers, M!result, M!tableL
  <2>2. M!MayCopy(e_i)
    BY <2>1 DEF OneRows, CopyAllowed
  <2> QED
    BY <2>1, <2>2, OneRowsOfCopy
<1>5. CASE M!BuildTable \/ M!TakeResult \/ M!Launch
  BY <1>5, OneRowsOfBuild, OneRowsOfResult, OneRowsOfLaunch
<1>6. CASE M!Device
  <2>1. ASSUME NEW c \in queued, M!Start(c[1], c[2]) PROVE OneRows'
    <3>1. c[1] \in KindsOfOne /\ c[2] \in Nat
      BY <1>1
    <3> QED
      BY <2>1, <3>1, OneRowsOfStart
  <2>2. CASE M!TransferBuild
    <3>1. M!Finish("o_h2d", 0) /\ Executing("o_h2d", 0) /\ "o_h2d" \in KindsOfOne
      BY <2>2 DEF M!TransferBuild, M!Finish, Executing, KindsOfOne
    <3>2. build_in = 0
      BY <3>1, OneSourceKept
    <3>3. buf_build_in' = 0 /\ UNCHANGED <<probe_out, buf_probe_in, buf_probe_out, hj_tmp>>
      BY <2>2, <3>2 DEF M!TransferBuild
    <3> QED
      BY <3>1, <3>3, OneRowsOfFinish
  <2>3. CASE M!Build
    <3>1. M!Finish("o_krn", 0) /\ Executing("o_krn", 0) /\ "o_krn" \in KindsOfOne
      BY <2>3 DEF M!Build, M!Finish, Executing, KindsOfOne
    <3>2. buf_build_in = 0
      BY <3>1, OneSourceKept
    <3>3. hj_tmp' = 0 /\ UNCHANGED <<probe_out, buf_build_in, buf_probe_in, buf_probe_out>>
      BY <2>3, <3>2 DEF M!Build
    <3> QED
      BY <3>1, <3>3, OneRowsOfFinish
  <2>4. ASSUME NEW s \in M!AllSlices, M!TransferSlice(s) PROVE OneRows'
    <3>1. s \in Nat
      BY JoinerAssumption DEF M!AllSlices
    <3>2. M!Finish("l_h2d", s) /\ Executing("l_h2d", s) /\ "l_h2d" \in KindsOfOne
      BY <2>4 DEF M!TransferSlice, M!Finish, Executing, KindsOfOne, ProbeKinds
    <3>3. probe_in[sid(s)] = M!RowsOfSlice(s)
      BY <3>1, <3>2, OneSourceKept
    <3>4. /\ buf_probe_in' = [buf_probe_in EXCEPT ![sid(s)] = M!RowsOfSlice(s)]
          /\ UNCHANGED <<probe_out, buf_build_in, buf_probe_out, hj_tmp>>
      BY <2>4, <3>3 DEF M!TransferSlice, M!k_id, sid
    <3> QED
      BY <3>1, <3>2, <3>4, OneRowsOfFinish
  <2>5. ASSUME NEW s \in M!AllSlices, M!Probe(s) PROVE OneRows'
    <3>1. s \in Nat
      BY JoinerAssumption DEF M!AllSlices
    <3>2. M!Finish("l_krn", s) /\ Executing("l_krn", s) /\ "l_krn" \in KindsOfOne
      BY <2>5 DEF M!Probe, M!Finish, Executing, KindsOfOne, ProbeKinds
    <3>3. buf_probe_in[sid(s)] = M!RowsOfSlice(s) /\ hj_tmp = 0
      BY <3>1, <3>2, OneSourceKept
    <3>4. {row \in buf_probe_in[sid(s)] : M!Found(row)} = OneHits(s)
      BY <3>3 DEF OneHits, M!Found, M!Matched, M!Torn
    <3>5. /\ buf_probe_out' = [buf_probe_out EXCEPT ![sid(s)] = OneHits(s)]
          /\ UNCHANGED <<probe_out, buf_build_in, buf_probe_in, hj_tmp>>
      BY <2>5, <3>4 DEF M!Probe, M!k_id, sid
    <3> QED
      BY <3>1, <3>2, <3>5, OneRowsOfFinish
  <2>6. ASSUME NEW s \in M!AllSlices, M!TransferBack(s) PROVE OneRows'
    <3>1. s \in Nat
      BY JoinerAssumption DEF M!AllSlices
    <3>2. M!Finish("l_d2h", s) /\ Executing("l_d2h", s) /\ "l_d2h" \in KindsOfOne
      BY <2>6 DEF M!TransferBack, M!Finish, Executing, KindsOfOne, ProbeKinds
    <3>3. buf_probe_out[sid(s)] = OneHits(s)
      BY <3>1, <3>2, OneSourceKept
    <3>4. /\ probe_out' = [probe_out EXCEPT ![sid(s)] = OneHits(s)]
          /\ UNCHANGED <<buf_build_in, buf_probe_in, buf_probe_out, hj_tmp>>
      BY <2>6, <3>3 DEF M!TransferBack, M!k_id, sid, M!deviceBuffers
    <3> QED
      BY <3>1, <3>2, <3>4, OneRowsOfFinish
  <2> QED
    BY <1>6, <2>1, <2>2, <2>3, <2>4, <2>5, <2>6 DEF M!Device
<1> QED
  BY <1>2, <1>3, <1>4, <1>5, <1>6 DEF M!Next, M!MainThread

(* The results of all slices have been taken in the end.                      *)
LEMMA OneJoined == OneInv /\ OneRows => M!JoinCorrect
<1> SUFFICES ASSUME OneInv, OneRows, step = "done" PROVE M!JoinCorrect
  BY DEF M!JoinCorrect
<1>1. e_i = ProbeSlices + 2 /\ ProbeSlices \in Nat /\ l_new_part_offset \in Nat /\ matching \subseteq Nat
  BY JoinerAssumption DEF OneInv, Taken, M!Rounds, OneRows, OneTable
<1>2. \A s \in M!AllSlices : ResultTaken(s) /\ s \in Nat
  BY <1>1 DEF M!AllSlices, ResultTaken
<1>3. M!Copied = UNION {OneHits(s) : s \in M!AllSlices} /\ M!Copied = RowsIn(table_out)
  BY <1>2 DEF OneRows, OnePieces, M!Copied, RowsIn
<1>4. M!Matches \subseteq M!Copied
  <2> SUFFICES ASSUME NEW row \in M!Matches PROVE row \in M!Copied
    OBVIOUS
  <2>1. row \in matching /\ row \in Nat /\ row < l_new_part_offset
    BY <1>1 DEF M!Matches
  <2>2. PICK s \in M!AllSlices : row \in M!RowsOfSlice(s)
    BY <2>1, OneRowsCovered DEF OneRows
  <2> QED
    BY <1>3, <2>1, <2>2 DEF OneHits
<1>5. ASSUME l_new_part_offset % ProbeSlices = 0 PROVE M!Copied = M!Matches
  <2>1. ASSUME NEW row \in M!Copied PROVE row \in M!Matches
    <3>1. PICK s \in M!AllSlices : row \in M!RowsOfSlice(s) /\ row \in matching
      BY <1>3, <2>1 DEF OneHits
    <3> QED
      BY <1>5, <3>1, OneRowsInTable DEF OneRows, M!Matches
  <2> QED
    BY <1>4, <2>1
<1>6. AddsUp(table_out, probe_out_nrow_accu) /\ M!out_nrow_sum = probe_out_nrow_accu
  BY DEF OneRows, OnePieces, OneCounts
<1>7. \A x, y \in table_out : x = y \/ M!Follows(x, y) \/ M!Follows(y, x)
  BY DEF OneRows, OnePieces
<1>8. \A x \in table_out : x.at + M!Cardinality(x.rows) <= M!out_nrow_sum
  BY <1>6, SameCardinality DEF AddsUp
<1>9. M!out_nrow_sum = M!Cardinality(M!Copied)
  BY <1>3, <1>6, SameCardinality DEF AddsUp
<1> QED
  BY <1>4, <1>5, <1>7, <1>8, <1>9 DEF M!JoinCorrect

-----------------------------------------------------------------------------
(* Both solutions *)

LEMMA JInvAlways == JoinSpec => []JInv
<1>1. JoinInit => JInv
  BY OneInit, IInvInit, EndInvInit DEF JoinInit, JInv
<1>2. JInv /\ [JoinNext]_joinVars => JInv'
  <2> SUFFICES ASSUME JInv, [JoinNext]_joinVars PROVE JInv'
    OBVIOUS
  <2>1. CASE join_sol1
    <3>1. solution = 1 /\ solution' = 1 /\ OneInv /\ M!Next
      BY <2>1 DEF join_sol1, JInv
    <3> QED
      BY <3>1, OneNext DEF JInv
  <2>2. CASE join_sol2
    <3>1. solution = 2 /\ solution' = 2 /\ IInv /\ EndInv /\ Next
      BY <2>2 DEF join_sol2, JInv
    <3> QED
      BY <3>1, IInvNext, EndInvNext DEF JInv
  <2>3. CASE UNCHANGED joinVars
    <3>1. UNCHANGED vars /\ solution' = solution
      BY <2>3 DEF joinVars
    <3>2. CASE solution = 1
      <4>1. UNCHANGED <<e_i, queued, running, complete, step>>
        BY <3>1 DEF vars, main, events
      <4> QED
        BY <3>1, <3>2, <4>1, OneStill DEF JInv
    <3>3. CASE solution = 2
      BY <3>1, <3>3, IInvNext, EndInvNext DEF JInv
    <3> QED
      BY <3>2, <3>3 DEF JInv
  <2> QED
    BY <2>1, <2>2, <2>3 DEF JoinNext
<1> QED
  BY <1>1, <1>2, PTL DEF JoinSpec

(* In the join as a whole: with one build there is only one table.            *)
THEOREM HashTableOfJoin == JoinSpec => []HashTableKept
<1>1. JInv => HashTableKept
  <2>1. OneInv => HashTableKept
    BY DEF OneInv, TypesOfOne, KindsOfOne, ProbeKinds, HashTableKept
  <2> QED
    BY <2>1, HashTableOfSlice DEF JInv
<1> QED
  BY <1>1, JInvAlways, PTL

(* When the buffers are released every command and every copy is over, in      *)
(* both solutions: it is enough that join_sol2 waits for the results of the     *)
(* last two slices, and that the loop of join_sol1 has two rounds more than     *)
(* there are slices.                                                          *)
THEOREM JoinLeavesNothing == JoinSpec => []NothingLeft
<1>1. JInv => NothingLeft
  BY NoneLeft, NoneLeftOfOne DEF JInv, NothingLeft
<1> QED
  BY <1>1, JInvAlways, PTL

JRows ==
  \/ solution = 1 /\ OneRows
  \/ solution = 2 /\ RowsInv

LEMMA JRowsAlways == JoinSpec => [](JInv /\ JRows)
<1>1. JoinInit => JRows
  BY OneRowsInit, RowsInvInit DEF JoinInit, JRows
<1>2. JInv /\ JRows /\ [JoinNext]_joinVars => JRows'
  <2> SUFFICES ASSUME JInv, JRows, [JoinNext]_joinVars PROVE JRows'
    OBVIOUS
  <2>1. CASE join_sol1
    <3>1. solution = 1 /\ solution' = 1 /\ OneInv /\ OneRows /\ M!Next
      BY <2>1 DEF join_sol1, JInv, JRows
    <3> QED
      BY <3>1, OneRowsNext DEF JRows
  <2>2. CASE join_sol2
    <3>1. solution = 2 /\ solution' = 2 /\ IInv /\ EndInv /\ RowsInv /\ Next
      BY <2>2 DEF join_sol2, JInv, JRows
    <3> QED
      BY <3>1, RowsInvNext DEF JRows
  <2>3. CASE UNCHANGED joinVars
    <3>1. UNCHANGED vars /\ solution' = solution
      BY <2>3 DEF joinVars
    <3>2. CASE solution = 1
      <4>1. OneInv /\ OneRows
        BY <3>2 DEF JInv, JRows
      <4>2. UNCHANGED <<l_new_part_offset, matching, toutrow, probe_out_nrow_accu, table_out,
                        queued, running, complete, build_in, buf_build_in, hj_tmp,
                        probe_in, buf_probe_in, buf_probe_out, probe_out, e_i>> /\ step' = step
        BY <3>1 DEF vars, main, events, hostBuffers, deviceBuffers, result, tableL
      <4>3. \A s \in Nat : ResultTaken(s)' <=> ResultTaken(s)
        BY <4>2 DEF ResultTaken
      <4>4. OneRows'
        BY <4>1, <4>2, <4>3, OneRowsStill
      <4> QED
        BY <3>1, <3>2, <4>4 DEF JRows
    <3>3. CASE solution = 2
      BY <3>1, <3>3, RowsInvNext DEF JInv, JRows
    <3> QED
      BY <3>2, <3>3 DEF JRows
  <2> QED
    BY <2>1, <2>2, <2>3 DEF JoinNext
<1> QED
  BY <1>1, <1>2, JInvAlways, PTL DEF JoinSpec

(* At the end table C has every row of table L that finds one of table O, once *)
(* and in order, whatever the sizes of the partitions and of the slices: the   *)
(* offsets at which memcpy_c puts the rows of a slice are the sums of the       *)
(* results before, and no buffer is written again before it has been read.     *)
(* join_sol1 may find more, behind the end of table L, if its slices do not    *)
(* fill the table.                                                            *)
THEOREM JoinFindsMatches == JoinSpec => []MatchesOnce
<1>1. JInv /\ JRows => MatchesOnce
  BY OneJoined, AllJoined DEF JInv, JRows, MatchesOnce
<1> QED
  BY <1>1, JRowsAlways, PTL
=============================================================================
