------------------------ MODULE MoverRoundTripProofs ------------------------
(***************************************************************************)
(* Theorems about MoverRoundTrip: what GzipCompress promises of its buffers,  *)
(* its stream and its checksum, and that the content comes back from both      *)
(* decompressors, for every number of chunks, of units and of words, for both  *)
(* functions and every file.  The compressor's variables change only while it  *)
(* compresses, so that CInv, its inductive invariant, is one of the whole      *)
(* round trip; DInv adds the decompressors and their device.                   *)
(***************************************************************************)
EXTENDS MoverRoundTrip, WellFoundedInduction, TLAPS

USE MoverAssumption

Items == 1..Chunks
Stages == {"h2d", "kernel", "d2h"}
Pushed == [k : 0..Chunks, last : BOOLEAN]

CompressorTypes ==
  /\ overlapped \in BOOLEAN /\ checksum_type \in BOOLEAN
  /\ pc \in {"pop", "popping", "enqueue", "finish", "push", "complement",
             "terminate", "store", "join", "end"}
  /\ curItem \in Items /\ clast \in BOOLEAN
  /\ hostIn \in 0..Chunks /\ hostOut \in 0..Chunks
  /\ devIn \in [Items -> 0..Chunks] /\ devOut \in [Items -> 0..Chunks]
  /\ command \in [Stages -> [Items -> {"none", "queued", "running", "done"}]]
  /\ outThread \in [Items -> {"none", "wait", "push", "complement", "event", "end"}]
  /\ outputEvents \subseteq Items
  /\ outputStream \in Seq(Pushed)
  /\ waiter \in {"join", "end"}

(* What both functions know of the last chunk. *)
LastChunk ==
  /\ pc \in {"enqueue", "finish", "push", "complement"} /\ curItem = Chunks => clast
  /\ pc \in {"terminate", "store", "join", "end"} => clast
  /\ waiter = "end" => pc = "end"

-----------------------------------------------------------------------------
(* The overlapped function: the items enqueued, the graph of the events, and  *)
(* what each buffer holds as long as somebody will read it.                   *)

Enqueued == IF pc \in {"pop", "popping", "enqueue"} THEN curItem - 1 ELSE curItem
Started(c, j) == command[c][j] \in {"running", "done"}
Completed(c, j) == command[c][j] = "done"

EventsOf(j) ==
  /\ \A c \in Stages : command[c][j] = "none" <=> j > Enqueued
  /\ outThread[j] = "none" <=> j > Enqueued
  /\ Started("kernel", j) => Completed("h2d", j)
  /\ Started("d2h", j) => /\ Completed("kernel", j)
                         /\ \A k \in 1..(j - 1) : k \in outputEvents
  /\ outThread[j] \in {"push", "complement", "event", "end"} => Completed("d2h", j)
  /\ j \in outputEvents <=> outThread[j] = "end"
  /\ pc = "end" => outThread[j] \in {"none", "end"}

EventGraph ==
  /\ pc \in {"pop", "popping", "enqueue", "store", "join", "end"}
  /\ \A j \in Items : EventsOf(j)

HeldFor(j) ==
  /\ command["h2d"][j] \in {"queued", "running"} =>
       j = Enqueued /\ pc \notin {"popping", "enqueue"}
  /\ Completed("h2d", j) => devIn[j] = j
  /\ Completed("kernel", j) => devOut[j] = j
  /\ Completed("d2h", j) /\ outThread[j] # "end" => hostOut = j

BuffersHeld ==
  /\ \A j \in Items : HeldFor(j)
  /\ pc = "enqueue" => hostIn = curItem
  /\ pc \in {"pop", "store", "join", "end"} /\ Enqueued > 0 => hostIn = Enqueued

(* The items pushed are those whose thread is past its push. *)
PushedInTurn ==
  /\ waiter = "join" =>
       /\ Len(outputStream) <= Enqueued
       /\ \A j \in Items : outThread[j] \in {"complement", "event", "end"} <=>
            j <= Len(outputStream)
  /\ waiter = "end" => Len(outputStream) = curItem + 1
  /\ \A i \in 1..Len(outputStream) :
       outputStream[i] = IF i <= curItem THEN C!Chunk(i) ELSE C!Terminator

Overlapped == overlapped => EventGraph /\ BuffersHeld /\ PushedInTurn

-----------------------------------------------------------------------------
(* The continuous function: one command at a time, and where the register is. *)

OneAtATime ==
  /\ pc # "join"
  /\ \A j \in Items :
       /\ outThread[j] = "none"
       /\ \A c \in Stages : /\ j < curItem => command[c][j] = "done"
                            /\ j > curItem => command[c][j] = "none"
  /\ pc \in {"pop", "popping"} => \A c \in Stages : command[c][curItem] = "none"
  /\ command["kernel"][curItem] # "none" => Completed("h2d", curItem)
  /\ command["d2h"][curItem] # "none" => Completed("kernel", curItem)
  /\ pc = "enqueue" => /\ \A c \in Stages : command[c][curItem] \in {"none", "done"}
                       /\ command["d2h"][curItem] = "none"
  /\ pc \notin {"pop", "popping", "enqueue", "finish"} => Completed("d2h", curItem)

OneBuffer ==
  /\ pc \in {"enqueue", "finish"} => hostIn = curItem
  /\ Completed("h2d", curItem) => devIn[1] = curItem
  /\ Completed("kernel", curItem) => devOut[1] = curItem
  /\ Completed("d2h", curItem) => hostOut = curItem

Covered(n, inverted) == [over |-> [k \in 1..n |-> k], inverted |-> inverted]
Register ==
  /\ ~Completed("h2d", curItem) => hostSum = Covered(curItem - 1, FALSE)
  /\ Completed("h2d", curItem) /\ ~Completed("kernel", curItem) =>
       devSum = Covered(curItem - 1, FALSE)
  /\ Completed("kernel", curItem) /\ ~Completed("d2h", curItem) =>
       devSum = Covered(curItem, checksum_type)
  /\ Completed("d2h", curItem) /\ pc \in {"finish", "push", "complement"} =>
       hostSum = Covered(curItem, checksum_type)
  /\ pc \in {"terminate", "store"} => hostSum = Covered(curItem, FALSE)
  /\ pc = "end" => checksum = Covered(curItem, FALSE)

PushedOneByOne ==
  /\ Len(outputStream) =
       IF waiter = "end" THEN curItem + 2
       ELSE IF pc \in {"store", "end"} THEN curItem + 1
       ELSE IF pc \in {"complement", "terminate"} THEN curItem ELSE curItem - 1
  /\ \A i \in 1..Len(outputStream) :
       outputStream[i] = IF i <= curItem THEN C!Chunk(i) ELSE C!Terminator

Continuous == ~overlapped => OneAtATime /\ OneBuffer /\ Register /\ PushedOneByOne

CInv == CompressorTypes /\ LastChunk /\ Overlapped /\ Continuous

-----------------------------------------------------------------------------
(* One output thread, one item of the stream at a time. *)
LEMMA ThreadSet ==
  ASSUME CompressorTypes, NEW j \in Items, NEW v, outThread' = [outThread EXCEPT ![j] = v]
  PROVE  \A i \in Items : outThread'[i] = IF i = j THEN v ELSE outThread[i]
BY DEF CompressorTypes

LEMMA PushAppends ==
  ASSUME CompressorTypes, NEW item \in Pushed, outputStream' = Append(outputStream, item)
  PROVE  /\ outputStream' \in Seq(Pushed) /\ Len(outputStream') = Len(outputStream) + 1
         /\ \A i \in 1..Len(outputStream) : outputStream'[i] = outputStream[i]
         /\ outputStream'[Len(outputStream')] = item
BY DEF CompressorTypes

LEMMA PushedItems == C!Terminator \in Pushed /\ \A k \in 0..Chunks : C!Chunk(k) \in Pushed
BY DEF C!Terminator, C!Chunk, C!Torn, Pushed

LEMMA InitCInv == C!Init => CInv
<1> SUFFICES ASSUME C!Init PROVE CInv
  OBVIOUS
<1>0. /\ pc = "pop" /\ curItem = 1 /\ clast = FALSE /\ waiter = "join"
      /\ outputStream = <<>> /\ outputEvents = {}
      /\ \A c \in Stages : \A j \in Items : command[c][j] = "none"
      /\ \A j \in Items : outThread[j] = "none" /\ devIn[j] = 0 /\ devOut[j] = 0
  BY DEF C!Init, C!Items, C!Torn, Items, Stages
<1>1. CompressorTypes
  <2>1. /\ overlapped \in BOOLEAN /\ checksum_type \in BOOLEAN /\ curItem \in Items
        /\ hostIn \in 0..Chunks /\ hostOut \in 0..Chunks /\ outputEvents \subseteq Items
        /\ outputStream \in Seq(Pushed)
    BY <1>0 DEF C!Init, C!Torn, Items
  <2>2. /\ devIn \in [Items -> 0..Chunks] /\ devOut \in [Items -> 0..Chunks]
        /\ command \in [Stages -> [Items -> {"none", "queued", "running", "done"}]]
        /\ outThread \in [Items -> {"none", "wait", "push", "complement", "event", "end"}]
    BY DEF C!Init, C!Items, C!Torn, Items, Stages
  <2> QED BY <1>0, <2>1, <2>2 DEF CompressorTypes
<1>2. LastChunk
  BY <1>0 DEF LastChunk
<1>3. Overlapped
  <2>1. EventGraph
    BY <1>0 DEF EventGraph, EventsOf, Enqueued, Started, Completed, Items, Stages
  <2>2. BuffersHeld /\ PushedInTurn
    BY <1>0 DEF BuffersHeld, HeldFor, PushedInTurn, Enqueued, Completed, Items, Stages
  <2> QED BY <2>1, <2>2 DEF Overlapped
<1>4. Continuous
  <2>1. OneAtATime /\ OneBuffer /\ PushedOneByOne
    BY <1>0 DEF OneAtATime, OneBuffer, PushedOneByOne, Completed, Items, Stages
  <2>2. <<>> = [k \in 1..0 |-> k]
    OBVIOUS
  <2>3. Register
    BY <1>0, <2>2 DEF Register, Completed, Covered, C!Init, Items, Stages
  <2> QED BY <2>1, <2>3 DEF Continuous
<1> QED BY <1>1, <1>2, <1>3, <1>4 DEF CInv

(* Types, and what both functions know of the last chunk. *)
LEMMA TypesStep ==
  ASSUME CInv, waiter = "join", CompressorThread \/ (\E j \in Items : C!OutputThread(j) \/ C!Queue(j))
  PROVE  CompressorTypes' /\ LastChunk'
<1> USE DEF C!mode, C!buffers, C!sums
<1>c. CompressorTypes /\ LastChunk
  BY DEF CInv
<1>1. ASSUME C!PopBegin PROVE CompressorTypes' /\ LastChunk'
  BY <1>c, <1>1 DEF CompressorTypes, LastChunk, C!PopBegin, C!Torn
<1>2. ASSUME C!PopEnd PROVE CompressorTypes' /\ LastChunk'
  BY SMTT(30), <1>c, <1>2 DEF CompressorTypes, LastChunk, C!PopEnd, Items
<1>3. ASSUME C!StoreChecksum PROVE CompressorTypes' /\ LastChunk'
  BY <1>c, <1>3 DEF CompressorTypes, LastChunk, C!StoreChecksum
<1>4. ASSUME C!EnqueueOne PROVE CompressorTypes' /\ LastChunk'
  BY <1>c, <1>4 DEF CompressorTypes, LastChunk, C!EnqueueOne, Stages
<1>5. ASSUME C!Finish PROVE CompressorTypes' /\ LastChunk'
  BY <1>c, <1>5 DEF CompressorTypes, LastChunk, C!Finish
<1>6. ASSUME C!PushOne PROVE CompressorTypes' /\ LastChunk'
  <2>1. outputStream' \in Seq(Pushed)
    BY <1>c, <1>6, PushedItems, PushAppends DEF CompressorTypes, C!PushOne
  <2> QED BY <1>c, <1>6, <2>1 DEF CompressorTypes, LastChunk, C!PushOne
<1>7. ASSUME C!ComplementOne PROVE CompressorTypes' /\ LastChunk'
  BY SMTT(30), <1>c, <1>7 DEF CompressorTypes, LastChunk, C!ComplementOne, Items
<1>8. ASSUME C!Terminate PROVE CompressorTypes' /\ LastChunk'
  <2>1. outputStream' \in Seq(Pushed)
    BY <1>c, <1>8, PushedItems, PushAppends DEF C!Terminate
  <2> QED BY <1>c, <1>8, <2>1 DEF CompressorTypes, LastChunk, C!Terminate
<1>9. ASSUME C!EnqueueAll PROVE CompressorTypes' /\ LastChunk'
  <2>1. command' \in [Stages -> [Items -> {"none", "queued", "running", "done"}]]
    BY <1>c, <1>9 DEF CompressorTypes, C!EnqueueAll
  <2>2. outThread' \in [Items -> {"none", "wait", "push", "complement", "event", "end"}]
    BY <1>c, <1>9 DEF CompressorTypes, C!EnqueueAll
  <2>3. curItem' \in Items /\ pc' \in {"store", "pop"} /\ LastChunk'
    BY <1>c, <1>9 DEF CompressorTypes, LastChunk, C!EnqueueAll, Items
  <2> QED BY <1>c, <1>9, <2>1, <2>2, <2>3 DEF CompressorTypes, C!EnqueueAll
<1>10. ASSUME C!JoinAll PROVE CompressorTypes' /\ LastChunk'
  BY <1>c, <1>10 DEF CompressorTypes, LastChunk, C!JoinAll
<1>11. ASSUME C!Wait PROVE CompressorTypes' /\ LastChunk'
  <2>1. outputStream' \in Seq(Pushed)
    BY <1>c, <1>11, PushedItems, PushAppends DEF C!Wait
  <2> QED BY <1>c, <1>11, <2>1 DEF CompressorTypes, LastChunk, C!Wait
<1>12. ASSUME NEW j \in Items, C!OutWait(j) PROVE CompressorTypes' /\ LastChunk'
  BY <1>c, <1>12 DEF CompressorTypes, LastChunk, C!OutWait
<1>13. ASSUME NEW j \in Items, C!OutPush(j) PROVE CompressorTypes' /\ LastChunk'
  <2>1. outputStream' \in Seq(Pushed)
    BY <1>c, <1>13, PushedItems, PushAppends DEF CompressorTypes, C!OutPush
  <2> QED BY <1>c, <1>13, <2>1 DEF CompressorTypes, LastChunk, C!OutPush
<1>14. ASSUME NEW j \in Items, C!OutComplement(j) PROVE CompressorTypes' /\ LastChunk'
  BY <1>c, <1>14 DEF CompressorTypes, LastChunk, C!OutComplement
<1>15. ASSUME NEW j \in Items, C!OutEvent(j) PROVE CompressorTypes' /\ LastChunk'
  BY <1>c, <1>15 DEF CompressorTypes, LastChunk, C!OutEvent
<1>16. ASSUME NEW j \in Items, C!Transfer(j) PROVE CompressorTypes' /\ LastChunk'
  <2>1. command' \in [Stages -> [Items -> {"none", "queued", "running", "done"}]]
    BY <1>c, <1>16 DEF CompressorTypes, C!Transfer, Stages
  <2> QED BY <1>c, <1>16, <2>1 DEF CompressorTypes, LastChunk, C!Transfer
<1>17. ASSUME NEW j \in Items, C!Compress(j) PROVE CompressorTypes' /\ LastChunk'
  <2>1. command' \in [Stages -> [Items -> {"none", "queued", "running", "done"}]]
    BY <1>c, <1>17 DEF CompressorTypes, C!Compress, Stages
  <2>2. devOut' \in [Items -> 0..Chunks]
    BY <1>c, <1>17 DEF CompressorTypes, C!Compress, C!Buf, Items
  <2> QED BY <1>c, <1>17, <2>1, <2>2 DEF CompressorTypes, LastChunk, C!Compress
<1>18. ASSUME NEW j \in Items, C!TransferBack(j) PROVE CompressorTypes' /\ LastChunk'
  <2>1. command' \in [Stages -> [Items -> {"none", "queued", "running", "done"}]]
    BY <1>c, <1>18 DEF CompressorTypes, C!TransferBack, Stages
  <2>2. hostOut' \in 0..Chunks
    BY <1>c, <1>18 DEF CompressorTypes, C!TransferBack, C!Buf, Items
  <2> QED BY <1>c, <1>18, <2>1, <2>2 DEF CompressorTypes, LastChunk, C!TransferBack
<1>19. ASSUME NEW j \in Items, NEW c \in Stages, C!Start(c, j) PROVE CompressorTypes' /\ LastChunk'
  <2>1. command' \in [Stages -> [Items -> {"none", "queued", "running", "done"}]]
    BY <1>c, <1>19 DEF CompressorTypes, C!Start
  <2>2. C!Torn \in 0..Chunks
    BY DEF C!Torn
  <2>3. devIn' \in [Items -> 0..Chunks]
    BY <1>c, <1>19, <2>2 DEF CompressorTypes, C!Start
  <2>4. devOut' \in [Items -> 0..Chunks]
    BY <1>c, <1>19, <2>2 DEF CompressorTypes, C!Start
  <2>5. hostOut' \in 0..Chunks
    BY <1>c, <1>19, <2>2 DEF CompressorTypes, C!Start
  <2> QED BY <1>c, <1>19, <2>1, <2>3, <2>4, <2>5 DEF CompressorTypes, LastChunk, C!Start
<1>d. DOMAIN command = Stages
  BY <1>c DEF CompressorTypes
<1> QED
  BY <1>1, <1>2, <1>3, <1>4, <1>5, <1>6, <1>7, <1>8, <1>9, <1>10, <1>11, <1>12, <1>13, <1>14,
     <1>15, <1>16, <1>17, <1>18, <1>19, <1>d
  DEF CompressorThread, C!WorkshopThread, C!OutputThread, C!Queue

-----------------------------------------------------------------------------
(* The overlapped function *)

(* Only the last item brought back can still be in outputBufferHost: those   *)
(* before it have been pushed.                                               *)
LEMMA OthersPushed ==
  ASSUME CompressorTypes, EventGraph, NEW j \in Items, ~Completed("d2h", j),
         \A k \in 1..(j - 1) : k \in outputEvents
  PROVE  \A i \in Items : Completed("d2h", i) => outThread[i] = "end"
<1> SUFFICES ASSUME NEW i \in Items, Completed("d2h", i) PROVE outThread[i] = "end"
  OBVIOUS
<1>1. EventsOf(i) /\ EventsOf(j)
  BY DEF EventGraph
<1>2. ~(j \in outputEvents)
  BY <1>1 DEF EventsOf
<1>3. i < j
  BY <1>1, <1>2 DEF EventsOf, Started, Completed, Items
<1> QED BY <1>1, <1>3 DEF EventsOf, Items

LEMMA OverlappedThread ==
  ASSUME CInv, overlapped, waiter = "join", CompressorThread
  PROVE  EventGraph' /\ BuffersHeld' /\ PushedInTurn'
<1> DEFINE Kept == EventGraph' /\ BuffersHeld' /\ PushedInTurn'
<1> USE DEF C!mode, C!buffers, C!sums
<1>c. CompressorTypes /\ EventGraph /\ BuffersHeld /\ PushedInTurn
  BY DEF CInv, Overlapped
<1>e. \A i \in Items : EventsOf(i) /\ HeldFor(i)
  BY <1>c DEF EventGraph, BuffersHeld
<1>1. ASSUME C!PopBegin PROVE Kept
  <2>1. Enqueued' = Enqueued /\ pc = "pop" /\ pc' = "popping"
    BY <1>1 DEF C!PopBegin, Enqueued
  <2>2. \A i \in Items : EventsOf(i)'
    BY <1>e, <1>1, <2>1 DEF C!PopBegin, EventsOf, Started, Completed
  <2>3. \A i \in Items : HeldFor(i)'
    BY SMTT(30), <1>c, <1>e, <1>1, <2>1
       DEF C!PopBegin, C!Done, HeldFor, Completed, Enqueued, CompressorTypes, Items
  <2>4. PushedInTurn'
    BY <1>c, <1>1, <2>1 DEF C!PopBegin, PushedInTurn
  <2> QED BY <2>1, <2>2, <2>3, <2>4 DEF EventGraph, BuffersHeld
<1>2. ASSUME C!PopEnd PROVE Kept
  <2>1. Enqueued' = Enqueued /\ pc = "popping" /\ pc' = "enqueue" /\ hostIn' = curItem'
    BY <1>2 DEF C!PopEnd, Enqueued
  <2>2. \A i \in Items : EventsOf(i)'
    BY <1>e, <1>2, <2>1 DEF C!PopEnd, EventsOf, Started, Completed
  <2>3. \A i \in Items : HeldFor(i)'
    BY <1>e, <1>2, <2>1 DEF C!PopEnd, HeldFor, Completed
  <2>4. PushedInTurn'
    BY <1>c, <1>2, <2>1 DEF C!PopEnd, PushedInTurn
  <2> QED BY <2>1, <2>2, <2>3, <2>4 DEF EventGraph, BuffersHeld
<1>3. ASSUME C!StoreChecksum PROVE Kept
  <2>1. Enqueued' = Enqueued /\ pc = "store" /\ pc' = "join" /\ hostIn' = hostIn
    BY <1>3 DEF C!StoreChecksum, Enqueued
  <2>2. \A i \in Items : EventsOf(i)'
    BY <1>e, <1>3, <2>1 DEF C!StoreChecksum, EventsOf, Started, Completed
  <2>3. \A i \in Items : HeldFor(i)'
    BY <1>e, <1>3, <2>1 DEF C!StoreChecksum, HeldFor, Completed
  <2>4. PushedInTurn'
    BY <1>c, <1>3, <2>1 DEF C!StoreChecksum, PushedInTurn
  <2> QED BY <1>c, <2>1, <2>2, <2>3, <2>4 DEF EventGraph, BuffersHeld
<1>4. ASSUME C!EnqueueAll PROVE Kept
  <2>1. /\ pc = "enqueue" /\ pc' \in {"pop", "store"}
        /\ Enqueued = curItem - 1 /\ Enqueued' = curItem /\ curItem <= curItem'
        /\ hostIn' = hostIn /\ hostIn = curItem
    BY <1>c, <1>4 DEF C!EnqueueAll, Enqueued, BuffersHeld, CompressorTypes, Items
  <2>2. \A c \in Stages : \A i \in Items :
          command'[c][i] = IF i = curItem THEN "queued" ELSE command[c][i]
    BY <1>c, <1>4 DEF C!EnqueueAll, CompressorTypes
  <2>3. \A i \in Items : outThread'[i] = IF i = curItem THEN "wait" ELSE outThread[i]
    BY <1>c, <1>4 DEF C!EnqueueAll, CompressorTypes
  <2>4. curItem \in Nat /\ \A c \in Stages : command[c][curItem] = "none"
    BY <1>c, <1>e, <2>1 DEF EventsOf, CompressorTypes, Items
  <2>5. ASSUME NEW i \in Items PROVE EventsOf(i)'
    <3>1. CASE i = curItem
      BY <1>e, <1>4, <2>1, <2>2, <2>3, <3>1 DEF EventsOf, Started, Completed, C!EnqueueAll, Items, Stages
    <3>2. CASE i # curItem
      BY <1>e, <1>4, <2>1, <2>2, <2>3, <2>4, <3>2 DEF EventsOf, Started, Completed, C!EnqueueAll, Items, Stages
    <3> QED BY <3>1, <3>2
  <2>6. ASSUME NEW i \in Items PROVE HeldFor(i)'
    BY <1>e, <1>4, <2>1, <2>2, <2>3, <2>4 DEF HeldFor, Completed, C!EnqueueAll, Items, Stages
  <2>7. PushedInTurn'
    <3>1. \A i \in Items : outThread'[i] \in {"complement", "event", "end"} <=>
            outThread[i] \in {"complement", "event", "end"}
      BY <1>e, <2>1, <2>3 DEF EventsOf, Items
    <3>2. Len(outputStream) \in Nat
      BY <1>c DEF CompressorTypes
    <3> QED BY SMTT(30), <1>c, <1>4, <2>1, <2>4, <3>1, <3>2 DEF PushedInTurn, C!EnqueueAll
  <2> QED BY <2>1, <2>5, <2>6, <2>7 DEF EventGraph, BuffersHeld
<1>5. ASSUME C!JoinAll PROVE Kept
  <2>1. Enqueued' = Enqueued /\ pc = "join" /\ pc' = "end" /\ hostIn' = hostIn
    BY <1>5 DEF C!JoinAll, Enqueued
  <2>2. \A i \in Items : EventsOf(i)'
    BY <1>e, <1>5, <2>1 DEF C!JoinAll, EventsOf, Started, Completed, C!Items, Items
  <2>3. \A i \in Items : HeldFor(i)'
    BY <1>e, <1>5, <2>1 DEF C!JoinAll, HeldFor, Completed
  <2>4. PushedInTurn'
    BY <1>c, <1>5, <2>1 DEF C!JoinAll, PushedInTurn
  <2> QED BY <1>c, <2>1, <2>2, <2>3, <2>4 DEF EventGraph, BuffersHeld
<1>6. ASSUME C!Wait PROVE Kept
  <2>1. Enqueued' = Enqueued /\ Enqueued = curItem /\ pc = "end" /\ pc' = "end" /\ hostIn' = hostIn
    BY <1>6 DEF C!Wait, Enqueued
  <2>2. \A i \in Items : EventsOf(i)'
    BY <1>e, <1>6, <2>1 DEF C!Wait, EventsOf, Started, Completed
  <2>3. \A i \in Items : HeldFor(i)'
    BY <1>e, <1>6, <2>1 DEF C!Wait, HeldFor, Completed
  <2>4. Len(outputStream) = curItem
    <3>1. outThread[curItem] = "end" /\ curItem \in Items
      BY <1>c, <1>e, <2>1 DEF EventsOf, CompressorTypes, Items
    <3>2. curItem <= Len(outputStream) /\ Len(outputStream) <= curItem /\ Len(outputStream) \in Nat
      BY <1>c, <2>1, <3>1 DEF PushedInTurn, CompressorTypes
    <3> QED BY <3>1, <3>2 DEF Items
  <2>5. PushedInTurn'
    <3>1. /\ Len(outputStream') = curItem + 1 /\ outputStream'[curItem + 1] = C!Terminator
          /\ \A i \in 1..curItem : outputStream'[i] = outputStream[i]
      BY <1>c, <1>6, <2>4, PushAppends, PushedItems DEF C!Wait
    <3>2. curItem' = curItem /\ waiter' = "end" /\ curItem \in Nat
      BY <1>c, <1>6 DEF C!Wait, CompressorTypes, Items
    <3> QED BY <1>c, <2>4, <3>1, <3>2 DEF PushedInTurn
  <2> QED BY <1>c, <2>1, <2>2, <2>3, <2>5 DEF EventGraph, BuffersHeld
<1>7. ~(C!EnqueueOne \/ C!Finish \/ C!PushOne \/ C!ComplementOne \/ C!Terminate)
  BY <1>c DEF EventGraph, C!EnqueueOne, C!Finish, C!PushOne, C!ComplementOne, C!Terminate
<1> QED BY <1>1, <1>2, <1>3, <1>4, <1>5, <1>6, <1>7 DEF CompressorThread, C!WorkshopThread

LEMMA OverlappedOutput ==
  ASSUME CInv, overlapped, waiter = "join", NEW j \in Items, C!OutputThread(j)
  PROVE  EventGraph' /\ BuffersHeld' /\ PushedInTurn'
<1> DEFINE Kept == EventGraph' /\ BuffersHeld' /\ PushedInTurn'
<1> USE DEF C!mode, C!buffers, C!sums
<1>c. CompressorTypes /\ EventGraph /\ BuffersHeld /\ PushedInTurn
  BY DEF CInv, Overlapped
<1>e. \A i \in Items : EventsOf(i) /\ HeldFor(i)
  BY <1>c DEF EventGraph, BuffersHeld
<1>u. pc' = pc /\ curItem' = curItem /\ Enqueued' = Enqueued /\ hostIn' = hostIn /\ hostOut' = hostOut
      /\ devIn' = devIn /\ devOut' = devOut /\ command' = command /\ waiter' = waiter
  BY DEF C!OutputThread, C!OutWait, C!OutPush, C!OutComplement, C!OutEvent, Enqueued
<1>n. Len(outputStream) \in Nat
  BY <1>c DEF CompressorTypes
<1>1. ASSUME C!OutWait(j) PROVE Kept
  <2>1. \A i \in Items : outThread'[i] = IF i = j THEN "push" ELSE outThread[i]
    BY <1>c, <1>1, ThreadSet DEF C!OutWait
  <2>2. outThread[j] = "wait" /\ Completed("d2h", j) /\ outputEvents' = outputEvents /\ outputStream' = outputStream
    BY <1>1 DEF C!OutWait, C!Done, Completed
  <2>3. ASSUME NEW i \in Items PROVE EventsOf(i)' /\ HeldFor(i)'
    BY <1>e, <1>u, <2>1, <2>2 DEF EventsOf, HeldFor, Started, Completed
  <2>4. PushedInTurn'
    BY <1>c, <1>u, <2>1, <2>2 DEF PushedInTurn
  <2> QED BY <1>c, <1>u, <2>3, <2>4 DEF EventGraph, BuffersHeld
<1>2. ASSUME C!OutPush(j) PROVE Kept
  <2>1. \A i \in Items : outThread'[i] = IF i = j THEN "complement" ELSE outThread[i]
    BY <1>c, <1>2, ThreadSet DEF C!OutPush
  <2>2. outThread[j] = "push" /\ outputEvents' = outputEvents /\ hostOut \in 0..Chunks
        /\ outputStream' = Append(outputStream, C!Chunk(hostOut))
    BY <1>c, <1>2 DEF C!OutPush, CompressorTypes
  <2>3. ASSUME NEW i \in Items PROVE EventsOf(i)' /\ HeldFor(i)'
    BY <1>e, <1>u, <2>1, <2>2 DEF EventsOf, HeldFor, Started, Completed
  <2>4. /\ Len(outputStream') = Len(outputStream) + 1
        /\ \A i \in 1..Len(outputStream) : outputStream'[i] = outputStream[i]
        /\ outputStream'[Len(outputStream) + 1] = C!Chunk(hostOut)
    BY <1>c, <2>2, PushAppends, PushedItems
  <2>5. hostOut = j /\ \A k \in 1..(j - 1) : outThread[k] = "end"
    <3>1. Completed("d2h", j) /\ outThread[j] # "end"
      BY <1>e, <2>2 DEF EventsOf
    <3> QED BY <1>e, <2>2, <3>1 DEF EventsOf, HeldFor, Started, Completed, Items
  <2>6. Len(outputStream) = j - 1
    <3>1. ~(j <= Len(outputStream))
      BY <1>c, <2>2 DEF PushedInTurn
    <3>2. CASE j = 1
      BY <1>n, <3>1, <3>2
    <3>3. CASE j # 1
      <4>1. j - 1 \in Items /\ outThread[j - 1] = "end"
        BY <2>5, <3>3 DEF Items
      <4>2. j - 1 <= Len(outputStream)
        BY <1>c, <4>1 DEF PushedInTurn
      <4> QED BY <1>n, <3>1, <4>2 DEF Items
    <3> QED BY <3>2, <3>3
  <2>7. j <= Enqueued /\ j <= curItem
    BY <1>c, <1>e, <2>2 DEF EventsOf, Enqueued, CompressorTypes, Items
  <2>8. PushedInTurn'
    <3>1. Len(outputStream') = j
      BY <2>4, <2>6 DEF Items
    <3>2. \A i \in Items : outThread'[i] \in {"complement", "event", "end"} <=> i <= j
      <4> TAKE i \in Items
      <4>1. CASE i = j
        BY <2>1, <4>1 DEF Items
      <4>2. CASE i # j
        BY <1>c, <2>1, <2>6, <4>2 DEF PushedInTurn, Items
      <4> QED BY <4>1, <4>2
    <3>3. \A i \in 1..j : outputStream'[i] = C!Chunk(i)
      <4> TAKE i \in 1..j
      <4>1. CASE i = j
        BY <2>4, <2>5, <2>6, <4>1 DEF Items
      <4>2. CASE i # j
        <5>1. i \in 1..Len(outputStream) /\ i <= curItem
          BY <1>c, <2>6, <2>7, <4>2 DEF Items, CompressorTypes
        <5> QED BY <1>c, <2>4, <5>1 DEF PushedInTurn
      <4> QED BY <4>1, <4>2
    <3>4. \A i \in 1..j : i <= curItem
      BY <1>c, <2>7 DEF Items, CompressorTypes
    <3> QED BY <1>u, <2>7, <3>1, <3>2, <3>3, <3>4 DEF PushedInTurn
  <2> QED BY <1>c, <1>u, <2>3, <2>8 DEF EventGraph, BuffersHeld
<1>3. ASSUME C!OutComplement(j) PROVE Kept
  <2>1. \A i \in Items : outThread'[i] = IF i = j THEN "event" ELSE outThread[i]
    BY <1>c, <1>3, ThreadSet DEF C!OutComplement
  <2>2. outThread[j] = "complement" /\ outputEvents' = outputEvents /\ outputStream' = outputStream
    BY <1>3 DEF C!OutComplement
  <2>3. ASSUME NEW i \in Items PROVE EventsOf(i)' /\ HeldFor(i)'
    BY <1>e, <1>u, <2>1, <2>2 DEF EventsOf, HeldFor, Started, Completed
  <2>4. PushedInTurn'
    BY <1>c, <1>u, <2>1, <2>2 DEF PushedInTurn
  <2> QED BY <1>c, <1>u, <2>3, <2>4 DEF EventGraph, BuffersHeld
<1>4. ASSUME C!OutEvent(j) PROVE Kept
  <2>1. \A i \in Items : outThread'[i] = IF i = j THEN "end" ELSE outThread[i]
    BY <1>c, <1>4, ThreadSet DEF C!OutEvent
  <2>2. outThread[j] = "event" /\ outputEvents' = outputEvents \cup {j} /\ outputStream' = outputStream
    BY <1>4 DEF C!OutEvent
  <2>3. ASSUME NEW i \in Items PROVE EventsOf(i)'
    BY <1>e, <1>u, <2>1, <2>2 DEF EventsOf, Started, Completed
  <2>4. ASSUME NEW i \in Items PROVE HeldFor(i)'
    BY <1>e, <1>u, <2>1, <2>2 DEF HeldFor, Completed
  <2>5. PushedInTurn'
    BY <1>c, <1>u, <2>1, <2>2 DEF PushedInTurn
  <2> QED BY <1>c, <1>u, <2>3, <2>4, <2>5 DEF EventGraph, BuffersHeld
<1> QED BY <1>1, <1>2, <1>3, <1>4 DEF C!OutputThread

LEMMA OverlappedQueue ==
  ASSUME CInv, overlapped, waiter = "join", NEW j \in Items, C!Queue(j)
  PROVE  EventGraph' /\ BuffersHeld' /\ PushedInTurn'
<1> DEFINE Kept == EventGraph' /\ BuffersHeld' /\ PushedInTurn'
<1> USE DEF C!mode
<1>c. CompressorTypes /\ EventGraph /\ BuffersHeld /\ PushedInTurn
  BY DEF CInv, Overlapped
<1>e. \A i \in Items : EventsOf(i) /\ HeldFor(i)
  BY <1>c DEF EventGraph, BuffersHeld
<1>d. DOMAIN command = Stages
  BY <1>c DEF CompressorTypes
<1>u. /\ pc' = pc /\ curItem' = curItem /\ Enqueued' = Enqueued /\ hostIn' = hostIn /\ waiter' = waiter
      /\ outThread' = outThread /\ outputEvents' = outputEvents /\ outputStream' = outputStream
  BY DEF C!Queue, C!Start, C!Transfer, C!Compress, C!TransferBack, Enqueued
<1>p. PushedInTurn'
  BY <1>c, <1>u DEF PushedInTurn
<1>b. C!Buf(j) = j
  BY DEF C!Buf
<1>1. ASSUME NEW c \in Stages, C!Start(c, j) PROVE Kept
  <2>1. \A d \in Stages : \A i \in Items :
          command'[d][i] = IF d = c /\ i = j THEN "running" ELSE command[d][i]
    BY <1>c, <1>1 DEF CompressorTypes, C!Start
  <2>2. command[c][j] = "queued" /\ C!Dependencies(c, j)
    BY <1>1 DEF C!Start
  <2>3. c = "d2h" => \A k \in 1..(j - 1) : k \in outputEvents
    <3> SUFFICES ASSUME c = "d2h", j > 1, NEW k \in 1..(j - 1) PROVE k \in outputEvents
      BY DEF Items
    <3>1. j - 1 \in Items /\ j - 1 \in outputEvents
      BY <2>2 DEF C!Dependencies, Items
    <3>2. Started("d2h", j - 1)
      BY <1>e, <3>1 DEF EventsOf, Started, Completed
    <3> QED BY <1>e, <3>1, <3>2 DEF EventsOf, Items
  <2>4. /\ c = "kernel" => Completed("h2d", j)
        /\ c = "d2h" => Completed("kernel", j)
    BY <2>2 DEF C!Dependencies, C!Done, Completed
  <2>5. ASSUME NEW i \in Items PROVE EventsOf(i)'
    <3>1. CASE i = j
      BY <1>e, <1>u, <2>1, <2>2, <2>3, <2>4, <3>1 DEF EventsOf, Started, Completed, Stages
    <3>2. CASE i # j
      BY <1>e, <1>u, <2>1, <3>2 DEF EventsOf, Started, Completed, Stages
    <3> QED BY <3>1, <3>2
  <2>6. ASSUME NEW i \in Items PROVE HeldFor(i)'
    <3>1. \A d \in Stages : Completed(d, i)' => Completed(d, i) /\ ~(d = c /\ i = j)
      BY <2>1, <2>2 DEF Completed
    <3>2. command'["h2d"][i] \in {"queued", "running"} => command["h2d"][i] \in {"queued", "running"}
      BY <2>1, <2>2 DEF Stages
    <3>3. Completed("h2d", i)' => devIn'[i] = i
      BY <1>b, <1>c, <1>e, <1>1, <3>1 DEF C!Start, HeldFor, CompressorTypes, Stages
    <3>4. Completed("kernel", i)' => devOut'[i] = i
      BY <1>b, <1>c, <1>e, <1>1, <3>1 DEF C!Start, HeldFor, CompressorTypes, Stages
    <3>5. Completed("d2h", i)' /\ outThread'[i] # "end" => hostOut' = i
      <4>1. CASE c = "d2h"
        BY <1>c, <1>u, <2>2, <2>3, <3>1, <4>1, OthersPushed DEF Completed, Stages
      <4>2. CASE c # "d2h"
        BY <1>e, <1>u, <1>1, <3>1, <4>2 DEF C!Start, HeldFor, Stages
      <4> QED BY <4>1, <4>2
    <3> QED BY <1>e, <1>u, <3>2, <3>3, <3>4, <3>5 DEF HeldFor
  <2> QED BY <1>c, <1>u, <1>p, <2>5, <2>6 DEF EventGraph, BuffersHeld
<1>2. ASSUME C!Transfer(j) PROVE Kept
  <2>1. \A d \in Stages : \A i \in Items :
          command'[d][i] = IF d = "h2d" /\ i = j THEN "done" ELSE command[d][i]
    BY <1>c, <1>2 DEF CompressorTypes, C!Transfer, Stages
  <2>2. command["h2d"][j] = "running" /\ hostOut' = hostOut /\ devOut' = devOut
    BY <1>2 DEF C!Transfer
  <2>3. \A i \in Items : devIn'[i] = IF i = j THEN hostIn ELSE devIn[i]
    BY <1>b, <1>c, <1>2 DEF C!Transfer, CompressorTypes
  <2>4. hostIn = j
    BY <1>c, <1>e, <2>2 DEF EventGraph, BuffersHeld, HeldFor, Items
  <2>5. ASSUME NEW i \in Items PROVE EventsOf(i)'
    BY <1>e, <1>u, <2>1, <2>2 DEF EventsOf, Started, Completed, Stages
  <2>6. ASSUME NEW i \in Items PROVE HeldFor(i)'
    BY <1>e, <1>u, <2>1, <2>2, <2>3, <2>4 DEF HeldFor, Completed, Stages
  <2> QED BY <1>c, <1>u, <1>p, <2>5, <2>6 DEF EventGraph, BuffersHeld
<1>3. ASSUME C!Compress(j) PROVE Kept
  <2>1. \A d \in Stages : \A i \in Items :
          command'[d][i] = IF d = "kernel" /\ i = j THEN "done" ELSE command[d][i]
    BY <1>c, <1>3 DEF CompressorTypes, C!Compress, Stages
  <2>2. command["kernel"][j] = "running" /\ hostOut' = hostOut /\ devIn' = devIn
    BY <1>3 DEF C!Compress
  <2>3. \A i \in Items : devOut'[i] = IF i = j THEN devIn[j] ELSE devOut[i]
    BY <1>b, <1>c, <1>3 DEF C!Compress, CompressorTypes
  <2>4. devIn[j] = j
    BY <1>e, <2>2 DEF EventsOf, HeldFor, Started
  <2>5. ASSUME NEW i \in Items PROVE EventsOf(i)'
    BY <1>e, <1>u, <2>1, <2>2 DEF EventsOf, Started, Completed, Stages
  <2>6. ASSUME NEW i \in Items PROVE HeldFor(i)'
    BY <1>e, <1>u, <2>1, <2>2, <2>3, <2>4 DEF HeldFor, Completed, Stages
  <2> QED BY <1>c, <1>u, <1>p, <2>5, <2>6 DEF EventGraph, BuffersHeld
<1>4. ASSUME C!TransferBack(j) PROVE Kept
  <2>1. \A d \in Stages : \A i \in Items :
          command'[d][i] = IF d = "d2h" /\ i = j THEN "done" ELSE command[d][i]
    BY <1>c, <1>4 DEF CompressorTypes, C!TransferBack, Stages
  <2>2. command["d2h"][j] = "running" /\ devIn' = devIn /\ devOut' = devOut /\ hostOut' = devOut[j]
    BY <1>b, <1>4 DEF C!TransferBack
  <2>3. devOut[j] = j /\ \A k \in 1..(j - 1) : k \in outputEvents
    BY <1>e, <2>2 DEF EventsOf, HeldFor, Started
  <2>4. ASSUME NEW i \in Items PROVE EventsOf(i)'
    BY <1>e, <1>u, <2>1, <2>2 DEF EventsOf, Started, Completed, Stages
  <2>5. \A i \in Items : Completed("d2h", i) => outThread[i] = "end"
    BY <1>c, <2>2, <2>3, OthersPushed DEF Completed
  <2>6. ASSUME NEW i \in Items PROVE HeldFor(i)'
    BY <1>e, <1>u, <2>1, <2>2, <2>3, <2>5 DEF HeldFor, Completed, Stages
  <2> QED BY <1>c, <1>u, <1>p, <2>4, <2>6 DEF EventGraph, BuffersHeld
<1> QED BY <1>d, <1>1, <1>2, <1>3, <1>4 DEF C!Queue

-----------------------------------------------------------------------------
(* The continuous function *)

(* A command that is queued or running is the only one, and finish waits.    *)
LEMMA TheCommand ==
  ASSUME CompressorTypes, OneAtATime, NEW c \in Stages, NEW j \in Items,
         command[c][j] \in {"queued", "running"}
  PROVE  /\ j = curItem /\ pc = "finish"
         /\ c = "h2d" => /\ command["kernel"][j] = "none" /\ command["d2h"][j] = "none"
         /\ c = "kernel" => Completed("h2d", j) /\ command["d2h"][j] = "none"
         /\ c = "d2h" => Completed("h2d", j) /\ Completed("kernel", j)
<1>1. j = curItem
  <2>1. command[c][j] # "done" /\ command[c][j] # "none"
    OBVIOUS
  <2>2. ~(j < curItem) /\ ~(j > curItem)
    BY <2>1 DEF OneAtATime
  <2> QED BY <2>2 DEF CompressorTypes, Items
<1>2. pc = "finish"
  BY <1>1 DEF OneAtATime, Completed, Stages
<1> QED BY <1>1, <1>2 DEF OneAtATime, Completed, Stages

(* What the register covers grows by one chunk. *)
LEMMA CoversOneMore ==
  ASSUME NEW n \in Nat \ {0}
  PROVE  Append([k \in 1..(n - 1) |-> k], n) = [k \in 1..n |-> k]
<1> DEFINE s == [k \in 1..(n - 1) |-> k]
<1>1. s \in Seq(Nat) /\ Len(s) = n - 1
  OBVIOUS
<1>2. Append(s, n) \in Seq(Nat) /\ Len(Append(s, n)) = n
  BY <1>1
<1>3. [k \in 1..n |-> k] \in Seq(Nat) /\ Len([k \in 1..n |-> k]) = n
  OBVIOUS
<1>4. \A i \in 1..n : Append(s, n)[i] = i
  BY <1>1
<1> QED BY <1>2, <1>3, <1>4

LEMMA ContinuousThread ==
  ASSUME CInv, ~overlapped, waiter = "join", CompressorThread
  PROVE  OneAtATime' /\ OneBuffer' /\ Register' /\ PushedOneByOne'
<1> DEFINE Kept == OneAtATime' /\ OneBuffer' /\ Register' /\ PushedOneByOne'
<1> USE DEF C!mode, C!buffers, C!sums
<1>c. CompressorTypes /\ LastChunk /\ OneAtATime /\ OneBuffer /\ Register /\ PushedOneByOne
  BY DEF CInv, Continuous
<1>n. Len(outputStream) \in Nat /\ curItem \in Nat \ {0} /\ curItem \in Items
  BY <1>c DEF CompressorTypes, Items
<1>d. DOMAIN command = Stages
  BY <1>c DEF CompressorTypes
<1>1. ASSUME C!PopBegin PROVE Kept
  <2>1. OneAtATime'
    BY <1>c, <1>1 DEF C!PopBegin, OneAtATime, Completed
  <2>2. OneBuffer' /\ Register'
    BY <1>c, <1>1 DEF C!PopBegin, OneAtATime, OneBuffer, Register, Completed, Stages
  <2>3. PushedOneByOne'
    BY <1>c, <1>1 DEF C!PopBegin, PushedOneByOne
  <2> QED BY <2>1, <2>2, <2>3
<1>2. ASSUME C!PopEnd PROVE Kept
  <2>1. OneAtATime'
    BY <1>c, <1>2 DEF C!PopEnd, OneAtATime, Completed, Stages
  <2>2. OneBuffer' /\ Register'
    BY <1>c, <1>2 DEF C!PopEnd, OneAtATime, OneBuffer, Register, Completed, Stages
  <2>3. PushedOneByOne'
    BY <1>c, <1>2 DEF C!PopEnd, PushedOneByOne
  <2> QED BY <2>1, <2>2, <2>3
<1>3. ASSUME C!StoreChecksum PROVE Kept
  <2>1. OneAtATime'
    BY <1>c, <1>3 DEF C!StoreChecksum, OneAtATime, Completed
  <2>2. OneBuffer' /\ Register'
    BY <1>c, <1>3 DEF C!StoreChecksum, OneAtATime, OneBuffer, Register, Completed, Stages
  <2>3. PushedOneByOne'
    BY <1>c, <1>3 DEF C!StoreChecksum, PushedOneByOne
  <2> QED BY <2>1, <2>2, <2>3
<1>4. ASSUME C!EnqueueOne PROVE Kept
  <2>1. /\ pc = "enqueue" /\ pc' = "finish" /\ C!NextCommand \in Stages
        /\ command[C!NextCommand][curItem] = "none"
    BY <1>c, <1>4 DEF C!EnqueueOne, C!NextCommand, OneAtATime, Stages
  <2>2. \A c \in Stages : \A i \in Items :
          command'[c][i] = IF c = C!NextCommand /\ i = curItem THEN "queued" ELSE command[c][i]
    BY <1>c, <1>n, <1>4, <2>1 DEF C!EnqueueOne, CompressorTypes
  <2>3. \A c \in Stages : Completed(c, curItem)' <=> Completed(c, curItem)
    BY <1>c, <1>n, <1>4, <2>1, <2>2 DEF C!EnqueueOne, Completed
  <2>4. OneAtATime'
    <3>1. /\ command'["kernel"][curItem] # "none" => Completed("h2d", curItem)
          /\ command'["d2h"][curItem] # "none" => Completed("kernel", curItem)
      BY <1>c, <1>n, <2>1, <2>2 DEF C!NextCommand, OneAtATime, Completed, Stages
    <3>2. \A i \in Items : i # curItem => \A c \in Stages : command'[c][i] = command[c][i]
      BY <2>2
    <3> QED BY <1>c, <1>n, <1>4, <2>1, <2>3, <3>1, <3>2 DEF C!EnqueueOne, OneAtATime, Stages
  <2>5. OneBuffer'
    BY <1>c, <1>4, <2>1, <2>3 DEF C!EnqueueOne, OneBuffer, Stages
  <2>6. Register'
    <3>1. ~Completed("d2h", curItem)
      BY <1>c, <2>1 DEF OneAtATime, Completed
    <3> QED BY <1>c, <1>4, <2>1, <2>3, <3>1 DEF C!EnqueueOne, Register, Stages
  <2>7. PushedOneByOne'
    BY <1>c, <1>4 DEF C!EnqueueOne, PushedOneByOne
  <2> QED BY <2>4, <2>5, <2>6, <2>7
<1>5. ASSUME C!Finish PROVE Kept
  <2>1. OneAtATime'
    BY <1>c, <1>d, <1>5 DEF C!Finish, C!Done, OneAtATime, Completed, Stages
  <2>2. OneBuffer' /\ Register'
    BY <1>c, <1>5 DEF C!Finish, C!Done, OneBuffer, Register, Completed
  <2>3. PushedOneByOne'
    BY <1>c, <1>5 DEF C!Finish, PushedOneByOne
  <2> QED BY <2>1, <2>2, <2>3
<1>6. ASSUME C!PushOne PROVE Kept
  <2>1. Completed("d2h", curItem) /\ hostOut = curItem /\ Len(outputStream) = curItem - 1
    BY <1>c, <1>6 DEF C!PushOne, OneAtATime, OneBuffer, PushedOneByOne, LastChunk
  <2>2. OneAtATime'
    BY <1>c, <1>6, <2>1 DEF C!PushOne, OneAtATime, Completed
  <2>3. OneBuffer' /\ Register'
    BY <1>c, <1>6, <2>1 DEF C!PushOne, OneBuffer, Register, Completed
  <2>4. /\ Len(outputStream') = curItem /\ outputStream'[curItem] = C!Chunk(curItem)
        /\ \A i \in 1..(curItem - 1) : outputStream'[i] = outputStream[i]
    BY SMTT(30), <1>c, <1>n, <1>6, <2>1, PushAppends, PushedItems DEF C!PushOne, CompressorTypes
  <2>5. PushedOneByOne'
    BY <1>c, <1>n, <1>6, <2>1, <2>4 DEF C!PushOne, PushedOneByOne, LastChunk
  <2> QED BY <2>2, <2>3, <2>5
<1>7. ASSUME C!ComplementOne PROVE Kept
  <2>1. /\ pc = "complement" /\ Completed("d2h", curItem) /\ Completed("kernel", curItem)
        /\ Completed("h2d", curItem) /\ waiter' = "join"
    BY <1>c, <1>7 DEF C!ComplementOne, OneAtATime, Completed, Stages
  <2>2. hostSum' = Covered(curItem, FALSE)
    <3>1. hostSum = Covered(curItem, checksum_type) /\ hostSum' = C!Complement(hostSum)
      BY <1>c, <1>7, <2>1 DEF C!ComplementOne, Register
    <3>2. checksum_type \in BOOLEAN
      BY <1>c DEF CompressorTypes
    <3>3. CASE checksum_type
      BY <3>1, <3>3 DEF C!Complement, Covered
    <3>4. CASE ~checksum_type
      BY <3>1, <3>2, <3>4 DEF C!Complement, Covered
    <3> QED BY <3>3, <3>4
  <2>3. Len(outputStream) = curItem
    BY <1>c, <2>1 DEF PushedOneByOne, LastChunk
  <2>4. CASE clast
    <3>1. curItem' = curItem /\ pc' = "terminate"
      BY <1>7, <2>4 DEF C!ComplementOne
    <3>2. OneAtATime' /\ OneBuffer'
      BY <1>c, <1>7, <2>1, <3>1 DEF C!ComplementOne, OneAtATime, OneBuffer, Completed
    <3>3. Register'
      BY <1>7, <2>1, <2>2, <3>1 DEF C!ComplementOne, Register, Completed
    <3>4. PushedOneByOne'
      BY <1>c, <1>7, <2>1, <2>3, <3>1 DEF C!ComplementOne, PushedOneByOne
    <3> QED BY <3>2, <3>3, <3>4
  <2>5. CASE ~clast
    <3>1. curItem' = curItem + 1 /\ pc' = "pop" /\ curItem + 1 \in Items
      BY <1>c, <1>n, <1>7, <2>5 DEF C!ComplementOne, LastChunk, Items
    <3>2. \A c \in Stages : command[c][curItem + 1] = "none"
      BY <1>c, <1>n, <3>1 DEF OneAtATime
    <3>3. \A c \in Stages : \A i \in Items : i < curItem + 1 => command[c][i] = "done"
      BY <1>c, <1>n, <2>1 DEF OneAtATime, Completed, Stages, Items
    <3>4. OneAtATime' /\ OneBuffer'
      BY <1>c, <1>n, <1>7, <3>1, <3>2, <3>3 DEF C!ComplementOne, OneAtATime, OneBuffer, Completed, Items, Stages
    <3>5. Register'
      <4>1. hostSum' = Covered(curItem' - 1, FALSE)
        BY <1>n, <2>2, <3>1
      <4>2. \A c \in Stages : ~Completed(c, curItem)'
        BY <1>7, <3>1, <3>2 DEF C!ComplementOne, Completed
      <4> QED BY <3>1, <4>1, <4>2 DEF Register, Stages, Covered
    <3>6. PushedOneByOne'
      BY <1>c, <1>n, <1>7, <2>1, <2>3, <3>1 DEF C!ComplementOne, PushedOneByOne
    <3> QED BY <3>4, <3>5, <3>6
  <2> QED BY <2>4, <2>5
<1>8. ASSUME C!Terminate PROVE Kept
  <2>1. OneAtATime'
    BY <1>c, <1>8 DEF C!Terminate, OneAtATime, Completed
  <2>2. OneBuffer' /\ Register'
    BY <1>c, <1>8 DEF C!Terminate, OneAtATime, OneBuffer, Register, Completed
  <2>3. Len(outputStream) = curItem
    BY <1>c, <1>8 DEF C!Terminate, PushedOneByOne, LastChunk
  <2>4. /\ Len(outputStream') = curItem + 1 /\ outputStream'[curItem + 1] = C!Terminator
        /\ \A i \in 1..curItem : outputStream'[i] = outputStream[i]
    BY <1>c, <1>8, <2>3, PushAppends, PushedItems DEF C!Terminate
  <2>5. PushedOneByOne'
    BY <1>c, <1>n, <1>8, <2>3, <2>4 DEF C!Terminate, PushedOneByOne
  <2> QED BY <2>1, <2>2, <2>5
<1>9. ASSUME C!Wait PROVE Kept
  <2>1. OneAtATime'
    BY <1>c, <1>9 DEF C!Wait, OneAtATime, Completed
  <2>2. OneBuffer' /\ Register'
    BY <1>c, <1>9 DEF C!Wait, OneAtATime, OneBuffer, Register, Completed
  <2>3. Len(outputStream) = curItem + 1
    BY <1>c, <1>9 DEF C!Wait, PushedOneByOne
  <2>4. /\ Len(outputStream') = curItem + 2 /\ outputStream'[curItem + 2] = C!Terminator
        /\ \A i \in 1..(curItem + 1) : outputStream'[i] = outputStream[i]
    BY <1>c, <1>n, <1>9, <2>3, PushAppends, PushedItems DEF C!Wait
  <2>5. PushedOneByOne'
    BY <1>c, <1>n, <1>9, <2>3, <2>4 DEF C!Wait, PushedOneByOne
  <2> QED BY <2>1, <2>2, <2>5
<1>10. ~(C!EnqueueAll \/ C!JoinAll)
  BY <1>c DEF C!EnqueueAll, C!JoinAll, OneAtATime
<1> QED
  BY <1>1, <1>2, <1>3, <1>4, <1>5, <1>6, <1>7, <1>8, <1>9, <1>10 DEF CompressorThread, C!WorkshopThread

LEMMA ContinuousQueue ==
  ASSUME CInv, ~overlapped, waiter = "join", NEW j \in Items, C!Queue(j)
  PROVE  OneAtATime' /\ OneBuffer' /\ Register' /\ PushedOneByOne'
<1> DEFINE Kept == OneAtATime' /\ OneBuffer' /\ Register'
<1> USE DEF C!mode
<1>c. CompressorTypes /\ OneAtATime /\ OneBuffer /\ Register /\ PushedOneByOne
  BY DEF CInv, Continuous
<1>n. curItem \in Nat \ {0} /\ curItem \in Items /\ 1 \in Items
  BY <1>c DEF CompressorTypes, Items
<1>d. DOMAIN command = Stages
  BY <1>c DEF CompressorTypes
<1>u. /\ pc' = pc /\ curItem' = curItem /\ hostIn' = hostIn /\ waiter' = waiter /\ checksum' = checksum
      /\ checksum_type' = checksum_type
      /\ outThread' = outThread /\ outputEvents' = outputEvents /\ outputStream' = outputStream
  BY DEF C!Queue, C!Start, C!Transfer, C!Compress, C!TransferBack, C!sums
<1>p. PushedOneByOne'
  BY <1>c, <1>u DEF PushedOneByOne
<1>b. C!Buf(j) = 1
  BY DEF C!Buf
<1>o. ASSUME NEW c \in Stages, NEW v \in {"running", "done"}, command[c][j] \in {"queued", "running"},
             \A d \in Stages : \A i \in Items :
               command'[d][i] = IF d = c /\ i = j THEN v ELSE command[d][i]
      PROVE  OneAtATime'
  <2>1. j = curItem /\ pc = "finish"
    BY <1>c, <1>o, TheCommand
  <2>2. \A i \in Items : i # curItem => \A d \in Stages : command'[d][i] = command[d][i]
    BY <1>o, <2>1
  <2>3. /\ command'["kernel"][curItem] # "none" => Completed("h2d", curItem)'
        /\ command'["d2h"][curItem] # "none" => Completed("kernel", curItem)'
    BY <1>c, <1>n, <1>o, <1>u, <2>1 DEF OneAtATime, Completed, Stages
  <2> QED BY <1>c, <1>n, <1>u, <2>1, <2>2, <2>3 DEF OneAtATime
<1>1. ASSUME NEW c \in Stages, C!Start(c, j) PROVE Kept
  <2>1. \A d \in Stages : \A i \in Items :
          command'[d][i] = IF d = c /\ i = j THEN "running" ELSE command[d][i]
    BY <1>c, <1>1 DEF CompressorTypes, C!Start
  <2>2. command[c][j] = "queued" /\ hostSum' = hostSum /\ devSum' = devSum
    BY <1>1 DEF C!Start, C!sums
  <2>3. /\ j = curItem /\ pc = "finish"
        /\ c = "h2d" => /\ command["kernel"][j] = "none" /\ command["d2h"][j] = "none"
        /\ c = "kernel" => Completed("h2d", j) /\ command["d2h"][j] = "none"
        /\ c = "d2h" => Completed("h2d", j) /\ Completed("kernel", j)
    BY <1>c, <2>2, TheCommand
  <2>4. \A d \in Stages : Completed(d, curItem)' <=> Completed(d, curItem)
    BY <1>n, <1>u, <2>1, <2>2 DEF Completed
  <2>5. OneBuffer'
    <3>1. CASE c = "h2d"
      BY <1>c, <1>u, <1>1, <2>3, <2>4, <3>1 DEF C!Start, OneBuffer, Completed, Stages
    <3>2. CASE c = "kernel"
      BY <1>c, <1>u, <1>1, <2>2, <2>3, <2>4, <3>2 DEF C!Start, OneBuffer, Completed, Stages
    <3>3. CASE c = "d2h"
      BY <1>c, <1>u, <1>1, <2>2, <2>3, <2>4, <3>3 DEF C!Start, OneBuffer, Completed, Stages
    <3> QED BY <3>1, <3>2, <3>3 DEF Stages
  <2>6. Register'
    BY <1>c, <1>u, <2>2, <2>4 DEF Register, Stages
  <2> QED BY <1>o, <2>1, <2>2, <2>5, <2>6
<1>2. ASSUME C!Transfer(j) PROVE Kept
  <2>1. \A d \in Stages : \A i \in Items :
          command'[d][i] = IF d = "h2d" /\ i = j THEN "done" ELSE command[d][i]
    BY <1>c, <1>2 DEF CompressorTypes, C!Transfer, Stages
  <2>2. command["h2d"][j] = "running" /\ hostOut' = hostOut /\ devSum' = hostSum
    BY <1>2 DEF C!Transfer
  <2>3. /\ j = curItem /\ pc = "finish"
        /\ command["kernel"][j] = "none" /\ command["d2h"][j] = "none"
    BY <1>c, <2>2, TheCommand DEF Stages
  <2>4. devIn'[1] = curItem
    BY <1>b, <1>c, <1>n, <1>2, <2>3 DEF C!Transfer, OneBuffer, CompressorTypes
  <2>5. /\ command'["h2d"][curItem] = "done" /\ command'["kernel"][curItem] = "none"
        /\ command'["d2h"][curItem] = "none"
    BY <1>n, <2>1, <2>3 DEF Stages
  <2>6. OneBuffer'
    BY <1>c, <1>u, <2>3, <2>4, <2>5 DEF OneBuffer, Completed
  <2>7. Register'
    BY <1>c, <1>u, <2>2, <2>3, <2>5 DEF Register, Completed
  <2> QED BY <1>o, <2>1, <2>2, <2>6, <2>7 DEF Stages
<1>3. ASSUME C!Compress(j) PROVE Kept
  <2>1. \A d \in Stages : \A i \in Items :
          command'[d][i] = IF d = "kernel" /\ i = j THEN "done" ELSE command[d][i]
    BY <1>c, <1>3 DEF CompressorTypes, C!Compress, Stages
  <2>2. command["kernel"][j] = "running" /\ hostOut' = hostOut /\ devIn' = devIn
    BY <1>3 DEF C!Compress
  <2>3. j = curItem /\ pc = "finish" /\ Completed("h2d", j) /\ command["d2h"][j] = "none"
    BY <1>c, <2>2, TheCommand DEF Stages
  <2>4. devIn[1] = curItem /\ devOut'[1] = curItem
    BY <1>b, <1>c, <1>n, <1>3, <2>3 DEF C!Compress, OneBuffer, CompressorTypes
  <2>5. devSum' = Covered(curItem, checksum_type)
    <3>1. devSum = Covered(curItem - 1, FALSE)
      BY <1>c, <2>2, <2>3 DEF Register, Completed
    <3>2. devSum' = C!Crc(devSum, curItem)
      BY <1>b, <1>3, <2>4 DEF C!Compress
    <3> QED BY <1>n, <3>1, <3>2, CoversOneMore DEF C!Crc, Covered
  <2>6. /\ command'["h2d"][curItem] = "done" /\ command'["kernel"][curItem] = "done"
        /\ command'["d2h"][curItem] = "none"
    BY <1>n, <2>1, <2>3 DEF Stages, Completed
  <2>7. OneBuffer'
    BY <1>c, <1>u, <2>2, <2>3, <2>4, <2>6 DEF OneBuffer, Completed
  <2>8. Register'
    BY <1>u, <2>3, <2>5, <2>6 DEF Register, Completed
  <2> QED BY <1>o, <2>1, <2>2, <2>7, <2>8 DEF Stages
<1>4. ASSUME C!TransferBack(j) PROVE Kept
  <2>1. \A d \in Stages : \A i \in Items :
          command'[d][i] = IF d = "d2h" /\ i = j THEN "done" ELSE command[d][i]
    BY <1>c, <1>4 DEF CompressorTypes, C!TransferBack, Stages
  <2>2. /\ command["d2h"][j] = "running" /\ devIn' = devIn /\ devOut' = devOut
        /\ hostOut' = devOut[1] /\ hostSum' = devSum
    BY <1>b, <1>4 DEF C!TransferBack
  <2>3. j = curItem /\ pc = "finish" /\ Completed("h2d", j) /\ Completed("kernel", j)
    BY <1>c, <2>2, TheCommand DEF Stages
  <2>4. /\ command'["h2d"][curItem] = "done" /\ command'["kernel"][curItem] = "done"
        /\ command'["d2h"][curItem] = "done"
    BY <1>n, <2>1, <2>3 DEF Stages, Completed
  <2>5. OneBuffer'
    BY <1>c, <1>u, <2>2, <2>3, <2>4 DEF OneBuffer, Completed
  <2>6. Register'
    BY <1>c, <1>u, <2>2, <2>3, <2>4 DEF Register, Completed
  <2> QED BY <1>o, <2>1, <2>2, <2>5, <2>6 DEF Stages
<1> QED BY <1>d, <1>p, <1>1, <1>2, <1>3, <1>4 DEF C!Queue

-----------------------------------------------------------------------------
(* The round trip *)

LEMMA CompressorStep ==
  ASSUME CInv, waiter = "join", CompressorThread \/ (\E j \in Items : C!OutputThread(j) \/ C!Queue(j))
  PROVE  CInv'
<1>1. CompressorTypes' /\ LastChunk'
  BY TypesStep
<1>2. overlapped' = overlapped
  BY DEF CompressorThread, C!WorkshopThread, C!OutputThread, C!Queue, C!mode, C!PopBegin, C!PopEnd,
     C!StoreChecksum, C!EnqueueOne, C!Finish, C!PushOne, C!ComplementOne, C!Terminate, C!EnqueueAll,
     C!JoinAll, C!Wait, C!OutWait, C!OutPush, C!OutComplement, C!OutEvent,
     C!Start, C!Transfer, C!Compress, C!TransferBack
<1>3. CASE overlapped
  BY <1>1, <1>2, <1>3, OverlappedThread, OverlappedOutput, OverlappedQueue DEF CInv, Overlapped, Continuous
<1>4. CASE ~overlapped
  <2>1. \A j \in Items : ~C!OutputThread(j)
    BY <1>4 DEF CInv, Continuous, OneAtATime, C!OutputThread, C!OutWait, C!OutPush, C!OutComplement, C!OutEvent
  <2> QED BY <1>1, <1>2, <1>4, <2>1, ContinuousThread, ContinuousQueue DEF CInv, Overlapped, Continuous
<1> QED BY <1>3, <1>4

LEMMA CInvAlways == Spec => []CInv
<1>1. Init => CInv
  BY InitCInv DEF Init
<1>2. CInv /\ [Next]_vars => CInv'
  <2> SUFFICES ASSUME CInv, [Next]_vars PROVE CInv'
    OBVIOUS
  <2>1. CASE cvars' = cvars
    <3> USE <2>1 DEF cvars
    <3>1. CompressorTypes' /\ LastChunk'
      BY DEF CInv, CompressorTypes, LastChunk
    <3>2. EventGraph' <=> EventGraph
      BY DEF EventGraph, EventsOf, Enqueued, Started, Completed
    <3>3. BuffersHeld' <=> BuffersHeld
      BY DEF BuffersHeld, HeldFor, Enqueued, Completed
    <3>4. (PushedInTurn' <=> PushedInTurn) /\ (PushedOneByOne' <=> PushedOneByOne)
      BY DEF PushedInTurn, PushedOneByOne, Enqueued
    <3>5. (OneAtATime' <=> OneAtATime) /\ (OneBuffer' <=> OneBuffer)
      BY DEF OneAtATime, OneBuffer, Completed
    <3>6. Register' <=> Register
      BY DEF Register, Completed, Covered
    <3> QED BY <3>1, <3>2, <3>3, <3>4, <3>5, <3>6 DEF CInv, Overlapped, Continuous
  <2>2. CASE GzipCompress(CompressorThread)
    BY <2>2, CompressorStep DEF GzipCompress, Compressing
  <2>3. CASE \E j \in C!Items : GzipCompress(C!OutputThread(j) \/ C!Queue(j))
    BY <2>3, CompressorStep DEF GzipCompress, Compressing, C!Items, Items
  <2> QED
    BY <2>1, <2>2, <2>3 DEF Next, vars, GzipDecompress, ZstdDecompress, Execute, Stopped
<1> QED BY <1>1, <1>2, PTL DEF Spec

(* No chunk is overwritten before its transfer has ended, and no result       *)
(* before the thread of its item has pushed it, whatever the order in which    *)
(* the queue executes the commands.                                           *)
THEOREM ChunksKept == Spec => []BuffersKept
<1>1. CInv => BuffersKept
  <2> SUFFICES ASSUME CInv PROVE C!BuffersKept
    BY DEF BuffersKept
  <2>1. CASE overlapped
    <3>1. EventGraph /\ BuffersHeld /\ CompressorTypes
      BY <2>1 DEF CInv, Overlapped
    <3>2. ASSUME NEW j \in Items, command["h2d"][j] \in {"queued", "running"} PROVE hostIn = j
      BY <3>1, <3>2 DEF EventGraph, BuffersHeld, HeldFor, Items
    <3>3. ASSUME NEW j \in Items, outThread[j] = "push" PROVE hostOut = j
      BY <3>1, <3>3 DEF EventGraph, EventsOf, BuffersHeld, HeldFor
    <3> QED BY <3>1, <3>2, <3>3 DEF C!BuffersKept, C!Items, Items, EventGraph
  <2>2. CASE ~overlapped
    <3>1. CompressorTypes /\ OneAtATime /\ OneBuffer
      BY <2>2 DEF CInv, Continuous
    <3>2. ASSUME NEW j \in Items, command["h2d"][j] \in {"queued", "running"} PROVE hostIn = j
      BY <3>1, <3>2, TheCommand DEF OneBuffer, Stages
    <3> QED BY <3>1, <3>2 DEF C!BuffersKept, C!Items, Items, OneAtATime, OneBuffer
  <2> QED BY <2>1, <2>2
<1> QED BY <1>1, CInvAlways, PTL

(* What the compressor has pushed is in the order of the chunks. *)
LEMMA StreamOrdered == CInv => C!StreamInOrder
<1> SUFFICES ASSUME CInv PROVE C!StreamInOrder
  OBVIOUS
<1>1. StreamInOrder
  <2>0. CompressorTypes /\ LastChunk /\ curItem \in Nat \ {0} /\ Len(outputStream) \in Nat
    BY DEF CInv, CompressorTypes, Items
  <2>1. CASE overlapped
    <3>1. PushedInTurn /\ EventGraph
      BY <2>1 DEF CInv, Overlapped
    <3>2. Len(outputStream) > curItem => clast
      BY <2>0, <3>1 DEF PushedInTurn, Enqueued, LastChunk, CompressorTypes
    <3> QED BY <2>1, <3>1, <3>2 DEF C!StreamInOrder, PushedInTurn, StreamInOrder
  <2>2. CASE ~overlapped
    <3>1. PushedOneByOne
      BY <2>2 DEF CInv, Continuous
    <3>2. Len(outputStream) > curItem => clast
      BY <2>0, <3>1 DEF PushedOneByOne, LastChunk
    <3> QED BY <2>2, <3>1, <3>2 DEF C!StreamInOrder, PushedOneByOne, StreamInOrder
  <2> QED BY <2>1, <2>2
<1> QED BY <1>1 DEF StreamInOrder

(* The results leave in the order of the chunks, once each, and the last      *)
(* block headers after all of them.                                           *)
THEOREM ResultsInOrder == Spec => []StreamInOrder
<1>1. CInv => StreamInOrder
  BY StreamOrdered DEF StreamInOrder
<1> QED BY <1>1, CInvAlways, PTL

(* The continuous function hands each chunk the register of all the chunks     *)
(* before it, uncomplemented, and keeps the register of all of them.           *)
THEOREM ChecksumOfAll == Spec => []ChecksumContinues
<1>1. CInv => ChecksumContinues
  <2> SUFFICES ASSUME CInv, ~overlapped PROVE C!ChecksumContinues
    BY DEF ChecksumContinues, C!ChecksumContinues
  <2>1. OneAtATime /\ Register /\ CompressorTypes
    BY DEF CInv, Continuous
  <2>2. pc = "pop" => ~Completed("h2d", curItem)
    BY <2>1 DEF OneAtATime, Completed, Stages
  <2> QED BY <2>1, <2>2 DEF Register, Covered, C!ChecksumContinues, C!Covers
<1> QED BY <1>1, CInvAlways, PTL

-----------------------------------------------------------------------------
(***************************************************************************)
(* The content comes back.  FlatTo is the content of the first words of a      *)
(* sequence; Flow relates a sequence of words, of which some have been handed  *)
(* to xilMM2S, to the units that have arrived and to the words on their way.   *)
(***************************************************************************)
Words == [k : Nat, n : Nat]
Units == Nat \X (Nat \ {0})
InWords == [x : Words, last : BOOLEAN]
OutWords == [x : Units \cup {G!NoUnit}, last : BOOLEAN]

UnitsOf(w) == [j \in 1..w.n |-> <<w.k, j>>]
FlatTo(ws, i) == FlattenSeq([h \in 1..i |-> UnitsOf(ws[h])])

(* Of ws the first sent words have been handed over; mw and in are those that   *)
(* the engine has not read yet, w are the words from the engine on their way,   *)
(* D are the units that have arrived, and st is the device's status.            *)
Decoded(sent, mw, in) == sent - Len(mw) - Len(in)

Inbound(ws, sent, mw, in) ==
  /\ sent \in 0..Len(ws) /\ Len(mw) + Len(in) <= sent
  /\ \A j \in 1..Len(mw) : mw[j] = ws[Decoded(sent, mw, in) + Len(in) + j]
  /\ \A j \in 1..Len(in) :
       /\ in[j].x = ws[Decoded(sent, mw, in) + j]
       /\ in[j].last <=> Decoded(sent, mw, in) + j = Len(ws)

(* L is what the words that the engine has read contain, which are d of n.      *)
Outbound(L, d, n, D, w, st) ==
  /\ Len(D) <= Len(L) /\ \A j \in 1..Len(D) : D[j] = L[j]
  /\ Len(D) + Len(w) = Len(L) \/ (d = n /\ Len(D) + Len(w) = Len(L) + 1)
  /\ \A j \in 1..Len(w) :
       /\ w[j].x = IF Len(D) + j <= Len(L) THEN L[Len(D) + j] ELSE G!NoUnit
       /\ w[j].last <=> d = n /\ j = Len(w)
  /\ IF d = n /\ w = <<>> THEN st = 1 ELSE st = 0

Flow(ws, sent, D, mw, in, w, st) ==
  /\ Inbound(ws, sent, mw, in)
  /\ Outbound(FlatTo(ws, Decoded(sent, mw, in)), Decoded(sent, mw, in), Len(ws), D, w, st)

(* What the kernels and the streams hold.                                       *)
DeviceTypes ==
  /\ mm2s \in [words : Seq(Words), last : BOOLEAN] /\ inStream \in Seq(InWords)
  /\ engine \in Seq(OutWords) /\ outStream \in Seq(OutWords)
  /\ s2mm \in [runs : BOOLEAN, read : Nat, units : Seq(Units)]
  /\ restored \in Seq([units : Seq(Units), last : BOOLEAN])

Idle ==
  /\ mm2s.words = <<>> /\ inStream = <<>> /\ engine = <<>> /\ outStream = <<>> /\ ~s2mm.runs

(* While gzip's compressor runs the decompressor has not begun. *)
NotBegun ==
  /\ G!Start /\ file = <<>>

(* The units that the decompressor's two threads have. *)
Arrived == IF reader = "finish" THEN Out \o s2mm.units ELSE Out

LastIsLast(ended) == \A i \in 1..Len(restored) : restored[i].last <=> ended /\ i = Len(restored)

(* The decompressor of gzip: the words popped, on the device and arrived are the *)
(* file, and the two threads know how much of it is left.                       *)
GzipInv ==
  /\ file \in Seq(Words) /\ Len(file) > 0 /\ FlatTo(file, Len(file)) = Content
  /\ Flow(file, read, Arrived, mm2s.words, inStream, outStream \o engine, status)
  /\ mm2s.words # <<>> => (mm2s.last <=> read = Len(file))
  /\ writer \in {"pop", "finish", "end"} /\ reader \in {"start", "finish", "end"}
  /\ writer = "pop" => mm2s.words = <<>> /\ read < Len(file)
  /\ last \in BOOLEAN /\ (writer = "finish" => (last <=> read = Len(file)))
  /\ reader = "start" => status = 0
  /\ reader = "end" => status = 1
  /\ s2mm.runs => reader = "finish" /\ status = 0
  /\ LastIsLast(reader = "end")

(* A zstd frame: the thread's places in it, and how the blocks collected so far *)
(* follow what has come out already.                                          *)
FrameRecords == [checksum : BOOLEAN, lastBlock : BOOLEAN, size : Nat, blocks : Seq(Words)]
InTheFrame == {"block", "payload", "checksum", "start", "write", "read"}
AtFrame ==
  \E h \in 1..read :
    /\ Z!IsHeader(h) /\ Z!InFrame(h, read) /\ Out = Z!ContentTo(h)
    /\ Z!ContentTo(read) = Z!ContentTo(h) \o FlatTo(frame.blocks, Len(frame.blocks))

(* The thread between, in and after its frames; the device runs only from its   *)
(* start to the push.                                                         *)
ZstdInv ==
  /\ file \in ZstdFiles /\ read \in 0..Len(file)
  /\ frame \in FrameRecords /\ last \in BOOLEAN
  /\ writer \in {"magic", "header", "exit", "lost", "end"} \cup InTheFrame
  /\ last => read = Len(file)
  /\ LastIsLast(writer = "end")
  /\ \E p \in 0..Len(file) : Out = Z!ContentTo(p)
  /\ writer \in {"magic", "header"} => Out = Z!ContentTo(read)
  /\ writer = "header" => frame.blocks = <<>>
  /\ writer = "end" => Out = Z!Content
  /\ writer \in InTheFrame => AtFrame
  /\ writer \in {"checksum", "start", "write", "read"} => frame.blocks # <<>>
  /\ writer \notin {"write", "read"} => Idle
  /\ writer \in {"write", "read"} =>
       /\ Flow(frame.blocks, Len(frame.blocks), s2mm.units, mm2s.words, inStream,
               outStream \o engine, status)
       /\ mm2s.last /\ (s2mm.runs <=> status = 0)
       /\ s2mm.runs => s2mm.read = Len(s2mm.units)
  /\ writer = "read" => mm2s.words = <<>>

(* The invariant of the decompressors.                                         *)
DInv ==
  /\ Readable => DeviceTypes
  /\ lib \in {"gzip", "zstd"}
  /\ lib = "gzip" /\ waiter = "join" => NotBegun
  /\ lib = "gzip" /\ waiter = "end" => GzipInv
  /\ lib = "zstd" /\ Z!Readable => ZstdInv

HIDE MoverAssumption

(* A set of natural numbers has a least element. *)
LEMMA Least ==
  ASSUME NEW T, T \subseteq Nat, T # {}
  PROVE  \E m \in T : \A k \in T : m <= k
<1>1. PICK m \in T : \A k \in T : ~(<<k, m>> \in OpToRel(<, Nat))
  BY WFMin, NatLessThanWellFounded, Zenon
<1>2. \A k \in T : ~(k < m)
  BY <1>1 DEF OpToRel
<1> QED
  BY <1>2

(* Induction on the natural numbers, for a set in place of a predicate. *)
LEMMA Induction ==
  ASSUME NEW S, S \subseteq Nat, 0 \in S, \A n \in S : n + 1 \in S
  PROVE  S = Nat
<1> SUFFICES ASSUME S # Nat PROVE FALSE
  OBVIOUS
<1>1. PICK m \in Nat \ S : \A k \in Nat \ S : m <= k
  BY Least
<1>2. m # 0 /\ m - 1 \in Nat
  BY <1>1
<1>3. m - 1 \in S
  BY <1>1, <1>2
<1> QED
  BY <1>1, <1>2, <1>3

(* The function that FlattenSeq is defined with exists. *)
Upto(s, f, k) == f = [i \in 1..k |-> IF i = 1 THEN s[i] ELSE f[i - 1] \o s[i]]

(* The first items of s joined, as a function: one exists of every length. *)
LEMMA UptoExists ==
  ASSUME NEW s, NEW n \in Nat
  PROVE  \E f : Upto(s, f, n + 1)
<1> DEFINE S == {k \in Nat : \E f : Upto(s, f, k + 1)}
<1>1. 0 \in S
  <2>1. Upto(s, [i \in 1..1 |-> s[i]], 0 + 1)
    BY DEF Upto
  <2> QED BY <2>1
<1>2. ASSUME NEW k \in S PROVE k + 1 \in S
  <2>1. PICK f : Upto(s, f, k + 1)
    OBVIOUS
  <2> DEFINE next(x, i) == x \o s[i]
             m == k + 1
             g == [i \in 1..(m + 1) |-> IF i = m + 1 THEN next(f[m], i) ELSE f[i]]
  <2>2. Upto(s, g, m + 1)
    <3>1. f = [i \in 1..m |-> IF i = 1 THEN s[i] ELSE next(f[i - 1], i)]
      BY <2>1 DEF Upto
    <3>2. m \in Nat \ {0}
      OBVIOUS
    <3>3. g = [i \in 1..(m + 1) |-> IF i = 1 THEN s[i] ELSE next(g[i - 1], i)]
      <4> HIDE DEF next, m
      <4> QED BY <3>1, <3>2
    <3> QED BY <3>3 DEF Upto
  <2>3. \E h : Upto(s, h, (k + 1) + 1)
    <3> HIDE DEF g
    <3> QED BY <2>2 DEF m
  <2>4. k + 1 \in Nat
    OBVIOUS
  <2> QED BY <2>3, <2>4
<1>3. S = Nat
  <2> HIDE DEF S
  <2>1. S \subseteq Nat
    BY DEF S
  <2> QED BY <1>1, <1>2, <2>1, Induction
<1> QED BY <1>3

(* FlattenSeq is the last value of that function. *)
LEMMA FlattenIs ==
  ASSUME NEW s, Len(s) \in Nat \ {0}
  PROVE  \E f : Upto(s, f, Len(s)) /\ FlattenSeq(s) = f[Len(s)]
<1> DEFINE f == CHOOSE g : Upto(s, g, Len(s))
<1>1. Upto(s, f, Len(s))
  <2>1. Len(s) - 1 \in Nat /\ (Len(s) - 1) + 1 = Len(s)
    OBVIOUS
  <2>2. \E g : Upto(s, g, Len(s))
    BY <2>1, UptoExists
  <2> QED BY <2>2
<1>2. FlattenSeq(s) = f[Len(s)]
  BY DEF FlattenSeq, Upto
<1> HIDE DEF f
<1> QED BY <1>1, <1>2

(* Joining nothing gives nothing. *)
LEMMA FlattenNone == FlattenSeq(<<>>) = <<>>
BY DEF FlattenSeq

(* One more sequence is appended. *)
LEMMA FlattenOneMore ==
  ASSUME NEW U, NEW s \in Seq(Seq(U)), NEW t \in Seq(Seq(U)), Len(t) = Len(s) + 1,
         \A i \in 1..Len(s) : t[i] = s[i]
  PROVE  FlattenSeq(t) = FlattenSeq(s) \o t[Len(t)]
<1>1. Len(s) \in Nat /\ Len(t) \in Nat \ {0}
  OBVIOUS
<1>2. PICK g : Upto(t, g, Len(t)) /\ FlattenSeq(t) = g[Len(t)]
  BY <1>1, FlattenIs
<1>3. CASE s = <<>>
  <2>1. FlattenSeq(s) = <<>>
    BY <1>3, FlattenNone
  <2>2. Len(t) = 1 /\ g[1] = t[1] /\ t[1] \in Seq(U)
    BY <1>2, <1>3 DEF Upto
  <2> QED BY <1>2, <2>1, <2>2
<1>4. CASE s # <<>>
  <2>0. Len(s) \in Nat \ {0} /\ Len(t) - 1 = Len(s) /\ Len(t) # 1
    BY <1>1, <1>4
  <2>1. PICK f : Upto(s, f, Len(s)) /\ FlattenSeq(s) = f[Len(s)]
    BY <2>0, FlattenIs
  <2> DEFINE S == {i \in Nat : i + 1 <= Len(s) => f[i + 1] = g[i + 1]}
  <2>2. 0 \in S
    BY <1>1, <1>2, <2>0, <2>1 DEF Upto
  <2>3. ASSUME NEW i \in S PROVE i + 1 \in S
    <3> SUFFICES ASSUME (i + 1) + 1 <= Len(s) PROVE f[(i + 1) + 1] = g[(i + 1) + 1]
      OBVIOUS
    <3> DEFINE m == (i + 1) + 1
    <3>1. f[i + 1] = g[i + 1] /\ m \in 1..Len(s) /\ m # 1 /\ m - 1 = i + 1 /\ m \in 1..Len(t)
      BY <1>1
    <3> HIDE DEF m
    <3>2. f[m] = f[m - 1] \o s[m]
      BY <2>1, <3>1 DEF Upto
    <3>3. g[m] = g[m - 1] \o t[m]
      BY <1>2, <3>1 DEF Upto
    <3>4. f[m] = g[m]
      BY <3>1, <3>2, <3>3
    <3> QED BY <3>4 DEF m
  <2>4. S = Nat
    <3> HIDE DEF S
    <3>1. S \subseteq Nat
      BY DEF S
    <3> QED BY <2>2, <2>3, <3>1, Induction
  <2>5. f[Len(s)] = g[Len(s)]
    <3>1. Len(s) - 1 \in Nat /\ (Len(s) - 1) + 1 = Len(s) /\ (Len(s) - 1) + 1 <= Len(s)
      BY <2>0
    <3>2. Len(s) - 1 \in S
      BY <2>4, <3>1
    <3> QED BY <3>1, <3>2
  <2>6. g[Len(t)] = g[Len(t) - 1] \o t[Len(t)]
    <3>1. Len(t) \in 1..Len(t)
      BY <1>1
    <3> QED BY <1>2, <2>0, <3>1 DEF Upto
  <2> QED BY <1>2, <2>0, <2>1, <2>5, <2>6
<1> QED BY <1>3, <1>4

(* The elements of two sequences joined. *)
LEMMA JoinedTypes ==
  ASSUME NEW U, NEW a \in Seq(U), NEW b \in Seq(U)
  PROVE  /\ a \o b \in Seq(U) /\ Len(a \o b) = Len(a) + Len(b)
         /\ \A j \in 1..Len(a) : (a \o b)[j] = a[j]
         /\ \A j \in 1..Len(b) : (a \o b)[Len(a) + j] = b[j]
OBVIOUS

(* To join sequences is associative. *)
LEMMA Associates ==
  ASSUME NEW U, NEW a \in Seq(U), NEW b \in Seq(U), NEW c \in Seq(U)
  PROVE  (a \o b) \o c = a \o (b \o c)
OBVIOUS

(* Two sequences with the same elements are equal. *)
LEMMA SameElements ==
  ASSUME NEW U, NEW a \in Seq(U), NEW b \in Seq(U), Len(a) = Len(b),
         \A j \in 1..Len(a) : a[j] = b[j]
  PROVE  a = b
OBVIOUS

(* The first i of a sequence of sequences, one after another. *)
FirstOf(s, i) == FlattenSeq([h \in 1..i |-> s[h]])

(* None of them joined. *)
LEMMA FirstNone == \A s : FirstOf(s, 0) = <<>>
<1>1. \A s : [h \in 1..0 |-> s[h]] = <<>>
  OBVIOUS
<1> QED BY <1>1, FlattenNone DEF FirstOf

(* One item more. *)
LEMMA FirstNext ==
  ASSUME NEW U, NEW s \in Seq(Seq(U)), NEW i \in 0..(Len(s) - 1)
  PROVE  FirstOf(s, i + 1) = FirstOf(s, i) \o s[i + 1]
<1> DEFINE a == [h \in 1..i |-> s[h]]
           b == [h \in 1..(i + 1) |-> s[h]]
<1>1. i \in Nat /\ i + 1 \in 1..Len(s) /\ i + 1 \in Nat /\ 1..i \subseteq 1..Len(s)
      /\ 1..(i + 1) \subseteq 1..Len(s)
  OBVIOUS
<1>2. a \in Seq(Seq(U)) /\ Len(a) = i
  BY <1>1
<1>3. b \in Seq(Seq(U)) /\ Len(b) = i + 1 /\ b[i + 1] = s[i + 1] /\ \A h \in 1..i : b[h] = a[h]
  BY <1>1
<1> HIDE DEF a, b
<1>4. FlattenSeq(b) = FlattenSeq(a) \o b[Len(b)]
  BY <1>2, <1>3, FlattenOneMore
<1> QED BY <1>3, <1>4 DEF FirstOf, a, b

(* The first items joined are a sequence of what the items are sequences of. *)
LEMMA FirstTypes ==
  ASSUME NEW U, NEW s \in Seq(Seq(U)), NEW i \in 0..Len(s)
  PROVE  FirstOf(s, i) \in Seq(U)
<1> DEFINE S == {j \in Nat : j <= Len(s) => FirstOf(s, j) \in Seq(U)}
<1>1. 0 \in S
  <2>1. FirstOf(s, 0) = <<>> /\ <<>> \in Seq(U)
    BY FirstNone
  <2> QED BY <2>1
<1>2. ASSUME NEW j \in S PROVE j + 1 \in S
  <2> SUFFICES ASSUME j + 1 <= Len(s) PROVE FirstOf(s, j + 1) \in Seq(U)
    OBVIOUS
  <2>1. j \in 0..(Len(s) - 1) /\ j + 1 \in 1..Len(s) /\ FirstOf(s, j) \in Seq(U)
    OBVIOUS
  <2>2. FirstOf(s, j + 1) = FirstOf(s, j) \o s[j + 1]
    BY <2>1, FirstNext
  <2>3. s[j + 1] \in Seq(U)
    BY <2>1
  <2> QED BY <2>1, <2>2, <2>3, JoinedTypes
<1>3. S = Nat
  <2> HIDE DEF S
  <2>1. S \subseteq Nat
    BY DEF S
  <2> QED BY <1>1, <1>2, <2>1, Induction
<1> QED BY <1>3

(* It grows at its end. *)
Begins(a, b) == Len(a) <= Len(b) /\ \A m \in 1..Len(a) : b[m] = a[m]

(* More items joined begin with fewer of them joined. *)
LEMMA FirstGrows ==
  ASSUME NEW U, NEW s \in Seq(Seq(U)), NEW i \in 0..Len(s), NEW k \in i..Len(s)
  PROVE  Begins(FirstOf(s, i), FirstOf(s, k))
<1> DEFINE S == {j \in Nat : i + j <= Len(s) => Begins(FirstOf(s, i), FirstOf(s, i + j))}
<1>0. FirstOf(s, i) \in Seq(U) /\ Len(FirstOf(s, i)) \in Nat
  BY FirstTypes
<1>1. 0 \in S
  BY <1>0 DEF Begins
<1>2. ASSUME NEW j \in S PROVE j + 1 \in S
  <2> SUFFICES ASSUME i + (j + 1) <= Len(s) PROVE Begins(FirstOf(s, i), FirstOf(s, i + (j + 1)))
    OBVIOUS
  <2> DEFINE m == i + j
  <2>1. /\ m \in 0..(Len(s) - 1) /\ m \in 0..Len(s) /\ m + 1 \in 1..Len(s) /\ i + (j + 1) = m + 1
        /\ Begins(FirstOf(s, i), FirstOf(s, m))
    OBVIOUS
  <2> HIDE DEF m
  <2>2. FirstOf(s, m) \in Seq(U) /\ s[m + 1] \in Seq(U)
    BY <2>1, FirstTypes
  <2>3. FirstOf(s, m + 1) = FirstOf(s, m) \o s[m + 1]
    BY <2>1, FirstNext
  <2>4. /\ Len(FirstOf(s, m + 1)) = Len(FirstOf(s, m)) + Len(s[m + 1])
        /\ \A n \in 1..Len(FirstOf(s, m)) : FirstOf(s, m + 1)[n] = FirstOf(s, m)[n]
        /\ Len(FirstOf(s, m)) \in Nat /\ Len(s[m + 1]) \in Nat
    BY <2>2, <2>3, JoinedTypes
  <2>5. Begins(FirstOf(s, i), FirstOf(s, m + 1))
    BY <1>0, <2>1, <2>4 DEF Begins
  <2> QED BY <2>1, <2>5
<1>3. S = Nat
  <2> HIDE DEF S
  <2>1. S \subseteq Nat
    BY DEF S
  <2> QED BY <1>1, <1>2, <2>1, Induction
<1>4. k - i \in S /\ i + (k - i) = k
  <2>1. k - i \in Nat /\ i + (k - i) = k
    OBVIOUS
  <2> HIDE DEF S
  <2> QED BY <1>3, <2>1
<1> QED BY <1>4

(* The same for the content of words. *)
LEMMA UnitsTypes ==
  ASSUME NEW w \in Words
  PROVE  UnitsOf(w) \in Seq(Units) /\ Len(UnitsOf(w)) = w.n /\ w.n \in Nat /\ w.k \in Nat
<1>1. w.n \in Nat /\ w.k \in Nat
  BY DEF Words
<1>2. \A j \in 1..w.n : <<w.k, j>> \in Units
  BY <1>1 DEF Units
<1> QED BY <1>1, <1>2 DEF UnitsOf

(* The content of words is the units of the first of them, joined. *)
LEMMA FlatIsFirst ==
  ASSUME NEW ws \in Seq(Words)
  PROVE  /\ [h \in 1..Len(ws) |-> UnitsOf(ws[h])] \in Seq(Seq(Units))
         /\ Len([h \in 1..Len(ws) |-> UnitsOf(ws[h])]) = Len(ws)
         /\ \A i \in 0..Len(ws) :
              FlatTo(ws, i) = FirstOf([h \in 1..Len(ws) |-> UnitsOf(ws[h])], i)
<1> DEFINE s == [h \in 1..Len(ws) |-> UnitsOf(ws[h])]
<1>1. s \in Seq(Seq(Units)) /\ Len(s) = Len(ws) /\ Len(ws) \in Nat
  <2>1. \A h \in 1..Len(ws) : UnitsOf(ws[h]) \in Seq(Units)
    BY UnitsTypes
  <2>2. Len(ws) \in Nat
    OBVIOUS
  <2> QED BY <2>1, <2>2
<1>2. ASSUME NEW i \in 0..Len(ws) PROVE FlatTo(ws, i) = FirstOf(s, i)
  <2>1. [h \in 1..i |-> UnitsOf(ws[h])] = [h \in 1..i |-> s[h]]
    BY <1>1
  <2> HIDE DEF s
  <2> QED BY <2>1 DEF FlatTo, FirstOf
<1> QED BY <1>1, <1>2

(* No word has no content. *)
LEMMA FlatNone == \A ws : FlatTo(ws, 0) = <<>>
<1>1. \A ws : [h \in 1..0 |-> UnitsOf(ws[h])] = <<>>
  OBVIOUS
<1> QED BY <1>1, FlattenNone DEF FlatTo

(* The content of one word more. *)
LEMMA FlatNext ==
  ASSUME NEW ws \in Seq(Words), NEW i \in 0..(Len(ws) - 1)
  PROVE  FlatTo(ws, i + 1) = FlatTo(ws, i) \o UnitsOf(ws[i + 1])
<1> DEFINE s == [h \in 1..Len(ws) |-> UnitsOf(ws[h])]
<1>1. i \in 0..Len(ws) /\ i + 1 \in 0..Len(ws) /\ s[i + 1] = UnitsOf(ws[i + 1])
  OBVIOUS
<1>2. /\ s \in Seq(Seq(Units)) /\ Len(s) = Len(ws)
      /\ FlatTo(ws, i) = FirstOf(s, i) /\ FlatTo(ws, i + 1) = FirstOf(s, i + 1)
  BY <1>1, FlatIsFirst
<1> HIDE DEF s
<1>3. FirstOf(s, i + 1) = FirstOf(s, i) \o s[i + 1]
  BY <1>2, FirstNext
<1> QED BY <1>1, <1>2, <1>3

(* The content is a sequence of units. *)
LEMMA FlatTypes ==
  ASSUME NEW ws \in Seq(Words), NEW i \in 0..Len(ws)
  PROVE  FlatTo(ws, i) \in Seq(Units)
BY FlatIsFirst, FirstTypes

(* The content of more words begins with that of fewer. *)
LEMMA FlatGrows ==
  ASSUME NEW ws \in Seq(Words), NEW i \in 0..Len(ws), NEW k \in i..Len(ws)
  PROVE  Begins(FlatTo(ws, i), FlatTo(ws, k))
<1> DEFINE s == [h \in 1..Len(ws) |-> UnitsOf(ws[h])]
<1>1. k \in 0..Len(ws)
  OBVIOUS
<1>2. /\ s \in Seq(Seq(Units)) /\ Len(s) = Len(ws)
      /\ FlatTo(ws, i) = FirstOf(s, i) /\ FlatTo(ws, k) = FirstOf(s, k)
  BY <1>1, FlatIsFirst
<1> HIDE DEF s
<1> QED BY <1>2, FirstGrows

-----------------------------------------------------------------------------
(* What is on its way: a word handed over, read by the engine, received. *)
LEMMA NoUnitIsNone == G!NoUnit \notin Units
BY DEF G!NoUnit, Units

(* The words handed over are decoded, in the stream or still in xilMM2S. *)
LEMMA WordsFlow ==
  ASSUME NEW ws \in Seq(Words), NEW sent, NEW D, NEW w, NEW st,
         NEW mw \in Seq(Words), NEW in \in Seq(InWords), Flow(ws, sent, D, mw, in, w, st)
  PROVE  /\ Len(ws) \in Nat /\ Len(mw) \in Nat /\ Len(in) \in Nat /\ sent \in Nat
         /\ sent <= Len(ws) /\ Decoded(sent, mw, in) \in 0..Len(ws)
         /\ Decoded(sent, mw, in) + Len(in) + Len(mw) = sent
BY DEF Flow, Inbound, Decoded

(* xilMM2S sends a word. *)
LEMMA FlowSend ==
  ASSUME NEW ws \in Seq(Words), NEW sent, NEW D, NEW w, NEW st,
         NEW mw \in Seq(Words), NEW in \in Seq(InWords), Flow(ws, sent, D, mw, in, w, st),
         mw # <<>>, NEW lst, lst <=> sent = Len(ws) /\ Len(mw) < 2
  PROVE  Flow(ws, sent, D, Tail(mw), Append(in, G!Word(Head(mw), lst)), w, st)
<1> DEFINE m2 == Tail(mw)
           word == G!Word(Head(mw), lst)
           i2 == Append(in, word)
           d == Decoded(sent, mw, in)
<1>1. /\ Len(ws) \in Nat /\ Len(mw) \in Nat /\ Len(in) \in Nat /\ sent \in Nat
      /\ d \in 0..Len(ws) /\ d + Len(in) + Len(mw) = sent /\ sent <= Len(ws)
  BY WordsFlow
<1>2. Len(m2) = Len(mw) - 1 /\ Len(mw) >= 1 /\ \A j \in 1..Len(m2) : m2[j] = mw[j + 1]
  OBVIOUS
<1>3. /\ Len(i2) = Len(in) + 1 /\ i2[Len(in) + 1] = word
      /\ \A j \in 1..Len(in) : i2[j] = in[j]
  OBVIOUS
<1>4. word.x = mw[1] /\ (word.last <=> sent = Len(ws) /\ Len(mw) < 2)
  BY DEF G!Word
<1> HIDE DEF m2, i2, word
<1>5. Decoded(sent, m2, i2) = d
  BY <1>1, <1>2, <1>3 DEF Decoded
<1>6. Inbound(ws, sent, mw, in)
  BY DEF Flow
<1>7. Inbound(ws, sent, m2, i2)
  <2> HIDE DEF d
  <2>1. /\ \A j \in 1..Len(mw) : mw[j] = ws[d + Len(in) + j]
        /\ \A j \in 1..Len(in) : in[j].x = ws[d + j] /\ (in[j].last <=> d + j = Len(ws))
    BY <1>6 DEF Inbound, d
  <2>2. ASSUME NEW j \in 1..Len(m2) PROVE m2[j] = ws[d + Len(i2) + j]
    <3>1. j + 1 \in 1..Len(mw) /\ d + Len(in) + (j + 1) = d + Len(i2) + j
      BY <1>1, <1>2, <1>3
    <3> QED BY <1>2, <2>1, <3>1
  <2>3. ASSUME NEW j \in 1..Len(i2)
        PROVE  i2[j].x = ws[d + j] /\ (i2[j].last <=> d + j = Len(ws))
    <3>1. CASE j = Len(in) + 1
      <4>1. 1 \in 1..Len(mw) /\ d + Len(in) + 1 = d + j
        BY <1>1, <1>2, <3>1
      <4>2. mw[1] = ws[d + j]
        BY <2>1, <4>1
      <4>3. Len(mw) >= 1
        BY <1>2
      <4>d. d \in Nat
        BY <1>1
      <4>4. (sent = Len(ws) /\ Len(mw) < 2) <=> (d + j = Len(ws))
        BY <1>1, <3>1, <4>3, <4>d
      <4> QED BY <1>3, <1>4, <3>1, <4>2, <4>4
    <3>2. CASE j # Len(in) + 1
      <4>1. j \in 1..Len(in)
        BY <1>1, <1>3, <3>2
      <4> QED BY <1>3, <2>1, <4>1
    <3> QED BY <3>1, <3>2
  <2>4. sent \in 0..Len(ws) /\ Len(m2) + Len(i2) <= sent
    BY <1>1, <1>2, <1>3
  <2> QED BY <1>5, <2>2, <2>3, <2>4 DEF Inbound
<1>8. Flow(ws, sent, D, m2, i2, w, st)
  BY <1>5, <1>7 DEF Flow, d
<1> QED BY <1>8 DEF m2, i2, word

(* The words that leave the engine for a word of which X are the units. *)
LeavesFor(X, d, n, u) ==
  /\ Len(u) = Len(X) \/ (d = n /\ Len(u) = Len(X) + 1)
  /\ \A j \in 1..Len(u) : /\ u[j].x = IF j <= Len(X) THEN X[j] ELSE G!NoUnit
                          /\ u[j].last <=> d = n /\ j = Len(u)
  /\ d = n => u # <<>>

(* The words from the engine, when it has decoded a word that is not the first flagged one. *)
LEMMA OutDecode ==
  ASSUME NEW L \in Seq(Units), NEW X \in Seq(Units), NEW D \in Seq(Units), NEW w \in Seq(OutWords),
         NEW u \in Seq(OutWords), NEW d \in Nat, NEW n \in Nat, NEW st,
         NEW e \in Nat, e # n, Outbound(L, e, n, D, w, st),
         LeavesFor(X, d, n, u)
  PROVE  Outbound(L \o X, d, n, D, w \o u, st)
<1> DEFINE LX == L \o X
           wu == w \o u
<1>1. /\ Len(LX) = Len(L) + Len(X) /\ \A j \in 1..Len(L) : LX[j] = L[j]
      /\ \A j \in 1..Len(X) : LX[Len(L) + j] = X[j]
  BY JoinedTypes
<1>2. /\ Len(wu) = Len(w) + Len(u) /\ \A j \in 1..Len(w) : wu[j] = w[j]
      /\ \A j \in 1..Len(u) : wu[Len(w) + j] = u[j]
  BY JoinedTypes
<1> HIDE DEF LX, wu
<1>3. /\ Len(D) <= Len(L) /\ Len(D) + Len(w) = Len(L) /\ st = 0
      /\ \A j \in 1..Len(D) : D[j] = L[j]
      /\ \A j \in 1..Len(w) : w[j].x = L[Len(D) + j] /\ ~w[j].last
  BY DEF Outbound
<1>4. Len(L) \in Nat /\ Len(X) \in Nat /\ Len(D) \in Nat /\ Len(w) \in Nat /\ Len(u) \in Nat
  OBVIOUS
<1>5. d = n => Len(u) > 0
  BY <1>4 DEF LeavesFor
<1>n. /\ Len(LX) = Len(L) + Len(X) /\ Len(wu) = Len(w) + Len(u)
      /\ Len(D) <= Len(L) /\ Len(D) + Len(w) = Len(L)
  BY <1>1, <1>2, <1>3
<1>6. ASSUME NEW j \in 1..Len(wu)
      PROVE  /\ wu[j].x = IF Len(D) + j <= Len(LX) THEN LX[Len(D) + j] ELSE G!NoUnit
             /\ wu[j].last <=> d = n /\ j = Len(wu)
  <2>1. CASE j \in 1..Len(w)
    <3>1. /\ Len(D) + j \in 1..Len(L) /\ Len(D) + j <= Len(LX)
          /\ (d = n => j # Len(wu))
      BY <1>1, <1>2, <1>3, <1>4, <1>5, <2>1
    <3> QED BY <1>1, <1>2, <1>3, <2>1, <3>1
  <2>2. CASE j \notin 1..Len(w)
    <3> DEFINE i == j - Len(w)
    <3>1. /\ i \in 1..Len(u) /\ j = Len(w) + i /\ Len(D) + j = Len(L) + i
          /\ (Len(D) + j <= Len(LX) <=> i <= Len(X)) /\ (j = Len(wu) <=> i = Len(u))
          /\ (i <= Len(X) => i \in 1..Len(X))
      <4>1. j \in Nat /\ j > Len(w) /\ j <= Len(w) + Len(u)
        BY <1>4, <1>n, <2>2
      <4>2. i \in 1..Len(u) /\ j = Len(w) + i
        BY <1>4, <4>1
      <4>3. Len(D) + j = Len(L) + i
        <5>1. Len(D) + (Len(w) + i) = (Len(D) + Len(w)) + i
          BY <1>4, <4>2
        <5> QED BY <1>n, <4>2, <5>1, Zenon
      <4>4. Len(D) + j <= Len(LX) <=> i <= Len(X)
        BY <1>4, <1>n, <4>2, <4>3
      <4>5. j = Len(wu) <=> i = Len(u)
        BY <1>4, <1>n, <4>2
      <4>6. i <= Len(X) => i \in 1..Len(X)
        BY <1>4, <4>2
      <4> QED BY <4>2, <4>3, <4>4, <4>5, <4>6
    <3> HIDE DEF i
    <3>2. wu[j] = u[i]
      BY <1>2, <3>1
    <3>3. u[i].x = (IF i <= Len(X) THEN X[i] ELSE G!NoUnit) /\ (u[i].last <=> d = n /\ i = Len(u))
      BY <3>1 DEF LeavesFor
    <3> QED BY <1>1, <3>1, <3>2, <3>3
  <2> QED BY <2>1, <2>2
<1>7. \A j \in 1..Len(D) : D[j] = LX[j]
  <2>1. \A j \in 1..Len(D) : j \in 1..Len(L)
    BY <1>3, <1>4
  <2> QED BY <1>1, <1>3, <2>1
<1>8. Len(D) <= Len(LX) /\ (Len(D) + Len(wu) = Len(LX) \/ (d = n /\ Len(D) + Len(wu) = Len(LX) + 1))
  <2>1. Len(u) = Len(X) \/ (d = n /\ Len(u) = Len(X) + 1)
    BY DEF LeavesFor
  <2>2. Len(D) <= Len(LX) /\ Len(D) + Len(wu) = Len(L) + Len(u)
    <3>1. Len(D) <= Len(LX)
      BY <1>n, <1>4
    <3>2. Len(D) + Len(wu) = (Len(D) + Len(w)) + Len(u)
      BY <1>n, <1>4
    <3> QED BY <1>n, <3>1, <3>2, Zenon
  <2>3. Len(u) = Len(X) => Len(D) + Len(wu) = Len(LX)
    BY <1>n, <2>2, Zenon
  <2>4. Len(u) = Len(X) + 1 => Len(D) + Len(wu) = Len(LX) + 1
    BY <1>n, <1>4, <2>2
  <2> QED BY <2>1, <2>2, <2>3, <2>4
<1>9. ~(d = n /\ wu = <<>>)
  <2>1. wu = <<>> => Len(wu) = 0
    OBVIOUS
  <2> QED BY <1>2, <1>4, <1>5, <2>1
<1>10. Outbound(LX, d, n, D, wu, st)
  BY <1>3, <1>6, <1>7, <1>8, <1>9 DEF Outbound
<1> QED BY <1>10 DEF LX, wu

(* The words from the engine, when xilS2MM has taken one of them. *)
LEMMA OutReceive ==
  ASSUME NEW L \in Seq(Units), NEW D \in Seq(Units), NEW w \in Seq(OutWords), w # <<>>,
         NEW d \in Nat, NEW n \in Nat, Outbound(L, d, n, D, w, 0)
  PROVE  Outbound(L, d, n, IF Head(w).x = G!NoUnit THEN D ELSE Append(D, Head(w).x), Tail(w),
                  IF Head(w).last THEN 1 ELSE 0)
<1> DEFINE t == Tail(w)
<1>1. /\ Len(L) \in Nat /\ Len(D) \in Nat /\ Len(w) \in Nat /\ Len(w) > 0 /\ Head(w) = w[1]
      /\ 1 \in 1..Len(w)
  OBVIOUS
<1>2. /\ Len(t) = Len(w) - 1 /\ \A j \in 1..Len(t) : t[j] = w[j + 1]
      /\ (t = <<>> <=> Len(w) <= 1)
  <2>1. t \in Seq(OutWords) /\ Len(t) = Len(w) - 1
    OBVIOUS
  <2>2. \A j \in 1..Len(t) : t[j] = w[j + 1]
    OBVIOUS
  <2>3. t = <<>> <=> Len(t) <= 0
    <3>1. \A q \in Seq(OutWords) : q = <<>> <=> Len(q) <= 0
      OBVIOUS
    <3> HIDE DEF t
    <3> QED BY <2>1, <3>1
  <2> HIDE DEF t
  <2> QED BY <1>1, <2>1, <2>2, <2>3
<1> HIDE DEF t
<1>3. /\ Len(D) <= Len(L) /\ \A j \in 1..Len(D) : D[j] = L[j]
      /\ Len(D) + Len(w) = Len(L) \/ (d = n /\ Len(D) + Len(w) = Len(L) + 1)
      /\ \A j \in 1..Len(w) :
           /\ w[j].x = IF Len(D) + j <= Len(L) THEN L[Len(D) + j] ELSE G!NoUnit
           /\ w[j].last <=> d = n /\ j = Len(w)
  BY DEF Outbound
<1>4. Head(w).last <=> d = n /\ Len(w) <= 1
  BY <1>1, <1>3
<1>n. /\ Len(D) <= Len(L) /\ Len(t) = Len(w) - 1
      /\ Len(D) + Len(w) = Len(L) \/ (d = n /\ Len(D) + Len(w) = Len(L) + 1)
  BY <1>2, <1>3
<1>5. CASE Len(D) + 1 <= Len(L)
  <2> DEFINE E == Append(D, Head(w).x)
  <2>1. Head(w).x = L[Len(D) + 1] /\ Len(D) + 1 \in 1..Len(L)
    BY <1>1, <1>3, <1>5
  <2>2. L[Len(D) + 1] \in Units
    BY <2>1
  <2>3. Head(w).x # G!NoUnit
    BY <2>1, <2>2, NoUnitIsNone
  <2>4. /\ Len(E) = Len(D) + 1 /\ E[Len(D) + 1] = L[Len(D) + 1]
        /\ \A j \in 1..Len(D) : E[j] = D[j]
    BY <2>1, <2>2
  <2> HIDE DEF E
  <2>5. \A j \in 1..Len(E) : E[j] = L[j]
    <3>1. \A j \in 1..Len(E) : j \in 1..Len(D) \/ j = Len(D) + 1
      BY <1>1, <2>4
    <3> QED BY <1>3, <2>4, <3>1
  <2>6. ASSUME NEW j \in 1..Len(t)
        PROVE  /\ t[j].x = IF Len(E) + j <= Len(L) THEN L[Len(E) + j] ELSE G!NoUnit
               /\ t[j].last <=> d = n /\ j = Len(t)
    <3>0. Len(E) = Len(D) + 1
      BY <2>4
    <3>1. /\ j + 1 \in 1..Len(w) /\ Len(D) + (j + 1) = Len(E) + j
          /\ (j + 1 = Len(w) <=> j = Len(t))
      BY <1>1, <1>n, <3>0
    <3>2. /\ w[j + 1].x = IF Len(D) + (j + 1) <= Len(L) THEN L[Len(D) + (j + 1)] ELSE G!NoUnit
          /\ w[j + 1].last <=> d = n /\ j + 1 = Len(w)
      BY <1>3, <3>1
    <3>3. t[j] = w[j + 1]
      BY <1>2
    <3>4. t[j].x = IF Len(E) + j <= Len(L) THEN L[Len(E) + j] ELSE G!NoUnit
      BY <3>1, <3>2, <3>3
    <3>5. t[j].last <=> d = n /\ j = Len(t)
      BY <3>1, <3>2, <3>3
    <3> QED BY <3>4, <3>5
  <2>7. /\ Len(E) <= Len(L)
        /\ Len(E) + Len(t) = Len(L) \/ (d = n /\ Len(E) + Len(t) = Len(L) + 1)
    <3>1. Len(E) = Len(D) + 1
      BY <2>4
    <3>2. Len(E) <= Len(L)
      BY <1>5, <3>1
    <3>3. Len(E) + Len(t) = Len(D) + Len(w)
      BY <1>1, <1>n, <3>1
    <3> QED BY <1>n, <3>2, <3>3, Zenon
  <2>8. Outbound(L, d, n, E, t, IF Head(w).last THEN 1 ELSE 0)
    BY <1>2, <1>4, <2>5, <2>6, <2>7 DEF Outbound
  <2> QED BY <2>3, <2>8 DEF E, t
<1>6. CASE ~(Len(D) + 1 <= Len(L))
  <2>1. d = n /\ Len(w) <= 1 /\ Len(D) = Len(L)
    BY <1>1, <1>n, <1>6
  <2>2. Head(w).x = G!NoUnit
    BY <1>1, <1>3, <1>6
  <2>3. Len(D) + Len(t) = Len(L) /\ ~(\E j \in 1..Len(t) : TRUE) /\ t = <<>> /\ Head(w).last
    BY <1>2, <1>4, <2>1
  <2>4. Outbound(L, d, n, D, t, 1)
    BY <1>1, <1>3, <2>1, <2>3 DEF Outbound
  <2> QED BY <2>2, <2>3, <2>4 DEF t
<1> QED BY <1>5, <1>6

(* The engine decodes a word. *)
LEMMA FlowDecode ==
  ASSUME NEW ws \in Seq(Words), NEW sent, NEW D \in Seq(Units), NEW w \in Seq(OutWords), NEW st,
         NEW mw \in Seq(Words), NEW in \in Seq(InWords), Flow(ws, sent, D, mw, in, w, st),
         in # <<>>, NEW u \in Seq(OutWords),
         LeavesFor(UnitsOf(Head(in).x), Decoded(sent, mw, in) + 1, Len(ws), u)
  PROVE  Flow(ws, sent, D, mw, Tail(in), w \o u, st)
<1> DEFINE i2 == Tail(in)
           d == Decoded(sent, mw, in)
           X == UnitsOf(ws[d + 1])
<1>1. /\ Len(ws) \in Nat /\ Len(mw) \in Nat /\ Len(in) \in Nat /\ sent \in Nat
      /\ d \in 0..Len(ws) /\ d + Len(in) + Len(mw) = sent /\ sent <= Len(ws)
  BY WordsFlow
<1>2. Len(i2) = Len(in) - 1 /\ Len(in) >= 1 /\ \A j \in 1..Len(i2) : i2[j] = in[j + 1]
  OBVIOUS
<1>3. Head(in) = in[1] /\ 1 \in 1..Len(in)
  OBVIOUS
<1> HIDE DEF i2
<1>4. Decoded(sent, mw, i2) = d + 1
  BY <1>1, <1>2 DEF Decoded
<1>5. d \in 0..(Len(ws) - 1) /\ d + 1 \in 1..Len(ws) /\ d + 1 \in Nat
  BY <1>1, <1>2
<1>6. Inbound(ws, sent, mw, in) /\ Outbound(FlatTo(ws, d), d, Len(ws), D, w, st)
  BY DEF Flow
<1>7. Head(in).x = ws[d + 1]
  BY <1>3, <1>6 DEF Inbound
<1>8. X \in Seq(Units) /\ FlatTo(ws, d + 1) = FlatTo(ws, d) \o X
  <2>1. ws[d + 1] \in Words
    BY <1>5
  <2>2. X \in Seq(Units)
    BY <2>1, UnitsTypes
  <2>3. FlatTo(ws, d + 1) = FlatTo(ws, d) \o UnitsOf(ws[d + 1])
    BY <1>5, FlatNext
  <2> QED BY <2>2, <2>3
<1>9. Outbound(FlatTo(ws, d + 1), d + 1, Len(ws), D, w \o u, st)
  <2>1. FlatTo(ws, d) \in Seq(Units) /\ d \in Nat /\ d # Len(ws)
    BY <1>1, <1>5, FlatTypes
  <2>2. LeavesFor(X, d + 1, Len(ws), u)
    BY <1>7
  <2> HIDE DEF d, X
  <2>3. Outbound(FlatTo(ws, d) \o X, d + 1, Len(ws), D, w \o u, st)
    BY <1>1, <1>5, <1>6, <1>8, <2>1, <2>2, OutDecode
  <2> QED BY <1>8, <2>3
<1>10. Inbound(ws, sent, mw, i2)
  <2> HIDE DEF d
  <2>1. /\ \A j \in 1..Len(mw) : mw[j] = ws[d + Len(in) + j]
        /\ \A j \in 1..Len(in) : in[j].x = ws[d + j] /\ (in[j].last <=> d + j = Len(ws))
    BY <1>6 DEF Inbound, d
  <2>2. ASSUME NEW j \in 1..Len(mw) PROVE mw[j] = ws[(d + 1) + Len(i2) + j]
    <3>1. d + Len(in) + j = (d + 1) + Len(i2) + j
      BY <1>1, <1>2
    <3> QED BY <2>1, <3>1
  <2>3. ASSUME NEW j \in 1..Len(i2)
        PROVE  i2[j].x = ws[(d + 1) + j] /\ (i2[j].last <=> (d + 1) + j = Len(ws))
    <3>1. j + 1 \in 1..Len(in) /\ d + (j + 1) = (d + 1) + j
      BY <1>1, <1>2
    <3>2. i2[j] = in[j + 1]
      BY <1>2
    <3> QED BY <2>1, <3>1, <3>2
  <2>4. sent \in 0..Len(ws) /\ Len(mw) + Len(i2) <= sent
    BY <1>1, <1>2
  <2> QED BY <1>4, <2>2, <2>3, <2>4 DEF Inbound
<1>11. Flow(ws, sent, D, mw, i2, w \o u, st)
  BY <1>4, <1>9, <1>10 DEF Flow
<1> QED BY <1>11 DEF i2

(* xilS2MM takes a word. *)
LEMMA FlowReceive ==
  ASSUME NEW ws \in Seq(Words), NEW sent, NEW D \in Seq(Units), NEW w \in Seq(OutWords),
         NEW mw \in Seq(Words), NEW in \in Seq(InWords), Flow(ws, sent, D, mw, in, w, 0), w # <<>>
  PROVE  Flow(ws, sent, IF Head(w).x = G!NoUnit THEN D ELSE Append(D, Head(w).x), mw, in, Tail(w),
              IF Head(w).last THEN 1 ELSE 0)
<1> DEFINE d == Decoded(sent, mw, in)
<1>1. d \in 0..Len(ws) /\ d \in Nat /\ Len(ws) \in Nat
  <2>1. Len(ws) \in Nat /\ d \in 0..Len(ws)
    BY WordsFlow
  <2> QED BY <2>1
<1>2. FlatTo(ws, d) \in Seq(Units)
  BY <1>1, FlatTypes
<1>3. Outbound(FlatTo(ws, d), d, Len(ws), D, w, 0)
  BY DEF Flow
<1> HIDE DEF d
<1>4. Outbound(FlatTo(ws, d), d, Len(ws), IF Head(w).x = G!NoUnit THEN D ELSE Append(D, Head(w).x),
               Tail(w), IF Head(w).last THEN 1 ELSE 0)
  BY <1>1, <1>2, <1>3, OutReceive
<1> QED BY <1>4 DEF Flow, d

(* The words from sent to more are handed over. *)
LEMMA FlowMore ==
  ASSUME NEW ws \in Seq(Words), NEW sent, NEW D, NEW w, NEW st, NEW in \in Seq(InWords),
         Flow(ws, sent, D, <<>>, in, w, st), NEW more \in sent..Len(ws)
  PROVE  Flow(ws, more, D, SubSeq(ws, sent + 1, more), in, w, st)
<1> DEFINE m2 == SubSeq(ws, sent + 1, more)
           d == Decoded(sent, <<>>, in)
<1>1. /\ Len(ws) \in Nat /\ Len(in) \in Nat /\ sent \in Nat
      /\ d \in 0..Len(ws) /\ d + Len(in) = sent /\ sent <= Len(ws)
  BY DEF Flow, Inbound, Decoded
<1>2. more \in Nat /\ sent <= more /\ more <= Len(ws)
  BY <1>1
<1>3. Len(m2) = more - sent /\ \A j \in 1..Len(m2) : m2[j] = ws[sent + j]
  BY <1>1, <1>2
<1> HIDE DEF m2
<1>4. Decoded(more, m2, in) = d
  BY <1>1, <1>2, <1>3 DEF Decoded
<1>5. Inbound(ws, sent, <<>>, in)
  BY DEF Flow
<1>6. Inbound(ws, more, m2, in)
  <2> HIDE DEF d
  <2>1. \A j \in 1..Len(in) : in[j].x = ws[d + j] /\ (in[j].last <=> d + j = Len(ws))
    BY <1>5 DEF Inbound, d
  <2>2. \A j \in 1..Len(m2) : m2[j] = ws[d + Len(in) + j]
    BY <1>1, <1>3
  <2>3. more \in 0..Len(ws) /\ Len(m2) + Len(in) <= more
    BY <1>1, <1>2, <1>3
  <2> QED BY <1>4, <2>1, <2>2, <2>3 DEF Inbound
<1>7. Flow(ws, more, D, m2, in, w, st)
  BY <1>4, <1>6 DEF Flow, d
<1> QED BY <1>7 DEF m2

(* Nothing has been handed over, or a whole sequence at once. *)
LEMMA FlowBegins ==
  ASSUME NEW ws \in Seq(Words), ws # <<>>
  PROVE  /\ Flow(ws, 0, <<>>, <<>>, <<>>, <<>>, 0)
         /\ Flow(ws, Len(ws), <<>>, ws, <<>>, <<>>, 0)
<1>1. Len(ws) \in Nat /\ Len(ws) > 0 /\ 0 # Len(ws)
  OBVIOUS
<1>2. Decoded(0, <<>>, <<>>) = 0 /\ Decoded(Len(ws), ws, <<>>) = 0
  <2>1. \A n \in Nat : 0 - 0 - 0 = 0 /\ n - n - 0 = 0
    OBVIOUS
  <2>2. Len(<<>>) = 0
    OBVIOUS
  <2> QED BY <1>1, <2>1, <2>2, Zenon DEF Decoded
<1>3. FlatTo(ws, 0) = <<>>
  BY FlatNone
<1>4. Outbound(<<>>, 0, Len(ws), <<>>, <<>>, 0)
  BY <1>1 DEF Outbound
<1>5. Inbound(ws, 0, <<>>, <<>>)
  BY <1>1, <1>2 DEF Inbound
<1>6. Inbound(ws, Len(ws), ws, <<>>)
  <2>1. \A j \in 1..Len(ws) : 0 + Len(<<>>) + j = j
    BY <1>1
  <2> QED BY <1>1, <1>2, <2>1 DEF Inbound
<1> QED BY <1>2, <1>3, <1>4, <1>5, <1>6 DEF Flow

(* A function on 1..n whose values are in S is a sequence of n of S. *)
LEMMA OfElements ==
  ASSUME NEW S, NEW n \in Nat, NEW f, f = [j \in 1..n |-> f[j]], \A j \in 1..n : f[j] \in S
  PROVE  f \in Seq(S) /\ Len(f) = n
OBVIOUS

(* What leaves the engine for a word. *)
LEMMA PlainLeaves ==
  ASSUME NEW x \in Words, NEW a \in Nat, NEW b \in Nat, a # b
  PROVE  G!Plain(x) \in Seq(OutWords) /\ LeavesFor(UnitsOf(x), a, b, G!Plain(x))
<1> DEFINE p == G!Plain(x)
<1>1. x.n \in Nat /\ x.k \in Nat /\ UnitsOf(x) \in Seq(Units) /\ Len(UnitsOf(x)) = x.n
  BY UnitsTypes
<1>2. \A j \in 1..x.n : p[j].x = UnitsOf(x)[j] /\ ~p[j].last /\ p[j] \in OutWords
  <2>1. \A j \in 1..x.n : <<x.k, j>> \in Units
    BY <1>1 DEF Units
  <2> QED BY <2>1 DEF G!Plain, G!Word, UnitsOf, OutWords
<1>3. p \in Seq(OutWords) /\ Len(p) = x.n
  <2>1. p = [j \in 1..x.n |-> p[j]]
    BY DEF G!Plain
  <2> HIDE DEF p
  <2>2. \A j \in 1..x.n : p[j] \in OutWords
    BY <1>2
  <2> QED BY <1>1, <2>1, <2>2, OfElements
<1> HIDE DEF p
<1>4. LeavesFor(UnitsOf(x), a, b, p)
  BY <1>1, <1>2, <1>3 DEF LeavesFor
<1> QED BY <1>3, <1>4 DEF p

(* What the engine makes of the last word: its units, and the flag on the last of them or alone. *)
LEMMA FlaggedLeaves ==
  ASSUME NEW x \in Words, NEW u \in G!Flagged(x), NEW a \in Nat
  PROVE  u \in Seq(OutWords) /\ LeavesFor(UnitsOf(x), a, a, u)
<1> DEFINE p == G!Plain(x)
           z == G!Word(G!NoUnit, TRUE)
<1>1. x.n \in Nat /\ x.k \in Nat /\ UnitsOf(x) \in Seq(Units) /\ Len(UnitsOf(x)) = x.n
  BY UnitsTypes
<1>2. p \in Seq(OutWords) /\ LeavesFor(UnitsOf(x), a, a + 1, p) /\ a # a + 1
  BY PlainLeaves
<1>3. /\ Len(p) = x.n
      /\ \A j \in 1..x.n : p[j].x = UnitsOf(x)[j] /\ ~p[j].last
  BY <1>1, <1>2 DEF LeavesFor
<1>4. z \in OutWords /\ z.x = G!NoUnit /\ z.last
  BY DEF G!Word, OutWords
<1>5. u = Append(p, z) \/ (x.n # 0 /\ u = [p EXCEPT ![x.n].last = TRUE])
  BY <1>1 DEF G!Flagged
<1> HIDE DEF p, z
<1>6. CASE u = Append(p, z)
  <2>1. /\ u \in Seq(OutWords) /\ Len(u) = x.n + 1 /\ u[x.n + 1] = z
        /\ \A j \in 1..x.n : u[j] = p[j]
    BY <1>2, <1>3, <1>4, <1>6
  <2>2. ASSUME NEW j \in 1..Len(u)
        PROVE  /\ u[j].x = IF j <= Len(UnitsOf(x)) THEN UnitsOf(x)[j] ELSE G!NoUnit
               /\ u[j].last <=> a = a /\ j = Len(u)
    <3>1. CASE j \in 1..x.n
      <4>1. j <= Len(UnitsOf(x)) /\ j # Len(u)
        BY <1>1, <2>1, <3>1
      <4> QED BY <1>3, <2>1, <3>1, <4>1
    <3>2. CASE j \notin 1..x.n
      <4>1. ~(j <= Len(UnitsOf(x))) /\ j = Len(u) /\ j = x.n + 1
        BY <1>1, <2>1, <3>2
      <4> QED BY <1>4, <2>1, <4>1
    <3> QED BY <3>1, <3>2
  <2>3. u # <<>>
    BY <1>6, <1>2
  <2> QED BY <1>1, <2>1, <2>2, <2>3 DEF LeavesFor
<1>7. CASE x.n # 0 /\ u = [p EXCEPT ![x.n].last = TRUE]
  <2>0. x.n \in 1..x.n /\ DOMAIN p = 1..x.n
    BY <1>1, <1>2, <1>3, <1>7
  <2>1. /\ DOMAIN u = 1..x.n /\ \A j \in 1..x.n : j # x.n => u[j] = p[j]
        /\ u[x.n] = [p[x.n] EXCEPT !.last = TRUE]
    BY <1>7, <2>0
  <2>2. p[x.n] \in OutWords
    BY <1>2, <1>3, <2>0
  <2>3. u[x.n].x = p[x.n].x /\ u[x.n].last /\ u[x.n] \in OutWords
    BY <2>1, <2>2 DEF OutWords
  <2>4. \A j \in 1..x.n : u[j] \in OutWords
    BY <1>2, <1>3, <2>1, <2>3
  <2>5. u = [j \in 1..x.n |-> u[j]]
    BY <1>7, <2>0
  <2>6. u \in Seq(OutWords) /\ Len(u) = x.n /\ u # <<>>
    <3>1. u \in Seq(OutWords) /\ Len(u) = x.n
      BY <1>1, <2>4, <2>5, OfElements
    <3>2. u # <<>>
      BY <1>1, <1>7, <3>1
    <3> QED BY <3>1, <3>2
  <2>7. ASSUME NEW j \in 1..Len(u)
        PROVE  /\ u[j].x = IF j <= Len(UnitsOf(x)) THEN UnitsOf(x)[j] ELSE G!NoUnit
               /\ u[j].last <=> a = a /\ j = Len(u)
    <3>1. j \in 1..x.n /\ j <= Len(UnitsOf(x))
      BY <1>1, <2>6
    <3> QED BY <1>3, <2>1, <2>3, <2>6, <3>1
  <2> QED BY <1>1, <2>6, <2>7 DEF LeavesFor
<1> QED BY <1>5, <1>6, <1>7

(* One word moves from a sequence to the one before it, or is taken from both.  *)
LEMMA GivenOne ==
  ASSUME NEW U, NEW o \in Seq(U), NEW e \in Seq(U), e # <<>>
  PROVE  Append(o, Head(e)) \o Tail(e) = o \o e
OBVIOUS

(* The first of two sequences joined is the first of the first. *)
LEMMA TakenOne ==
  ASSUME NEW U, NEW o \in Seq(U), NEW e \in Seq(U), o # <<>>
  PROVE  /\ Head(o) \in U /\ o \o e # <<>> /\ Head(o \o e) = Head(o)
         /\ Tail(o \o e) = Tail(o) \o e
OBVIOUS

-----------------------------------------------------------------------------
(* The device *)

(* What is on its way to xilS2MM. *)
LEMMA OutTypes ==
  ASSUME DeviceTypes
  PROVE  outStream \o engine \in Seq(OutWords)
BY JoinedTypes DEF DeviceTypes

(* What Decode takes and what it sends. *)
LEMMA DecodeTypes ==
  ASSUME DeviceTypes, G!Decode
  PROVE  /\ inStream # <<>> /\ Head(inStream) \in InWords /\ Head(inStream).x \in Words
         /\ engine' \in Seq(OutWords) /\ engine = <<>>
         /\ \A a, b \in Nat : (Head(inStream).last <=> a = b) =>
              LeavesFor(UnitsOf(Head(inStream).x), a, b, engine')
<1>1. /\ inStream # <<>> /\ engine = <<>> /\ inStream \in Seq(InWords)
      /\ engine' \in IF Head(inStream).last THEN G!Flagged(Head(inStream).x)
                     ELSE {G!Plain(Head(inStream).x)}
  BY DEF G!Decode, DeviceTypes
<1>2. Head(inStream) \in InWords
  BY <1>1
<1>3. Head(inStream).x \in Words /\ Head(inStream).last \in BOOLEAN
  BY <1>2 DEF InWords
<1>4. CASE Head(inStream).last
  <2>1. engine' \in G!Flagged(Head(inStream).x)
    BY <1>1, <1>4
  <2>2. \A a \in Nat : engine' \in Seq(OutWords) /\ LeavesFor(UnitsOf(Head(inStream).x), a, a, engine')
    BY <1>3, <2>1, FlaggedLeaves
  <2>3. 0 \in Nat
    OBVIOUS
  <2> QED BY <1>1, <1>2, <1>3, <1>4, <2>2, <2>3, Zenon
<1>5. CASE ~Head(inStream).last
  <2>1. engine' = G!Plain(Head(inStream).x)
    BY <1>1, <1>5
  <2>2. \A a, b \in Nat : a # b =>
          engine' \in Seq(OutWords) /\ LeavesFor(UnitsOf(Head(inStream).x), a, b, engine')
    BY <1>3, <2>1, PlainLeaves
  <2>3. 0 \in Nat /\ 1 \in Nat /\ 0 # 1
    OBVIOUS
  <2> QED BY <1>1, <1>2, <1>3, <1>5, <2>2, <2>3, Zenon
<1> QED BY <1>4, <1>5

(* The device keeps its types. *)
LEMMA DeviceTypesStep ==
  ASSUME DeviceTypes, G!Device, restored' = restored
  PROVE  DeviceTypes'
<1>1. CASE G!Send
  <2>1. Head(mm2s.words) \in Words /\ Tail(mm2s.words) \in Seq(Words) /\ mm2s.last \in BOOLEAN
    BY <1>1 DEF DeviceTypes, G!Send
  <2>2. G!Word(Head(mm2s.words), mm2s.last /\ Len(mm2s.words) = 1) \in InWords
    BY <2>1 DEF G!Word, InWords
  <2>3. inStream' \in Seq(InWords)
    BY <1>1, <2>2 DEF DeviceTypes, G!Send
  <2>4. mm2s' \in [words : Seq(Words), last : BOOLEAN]
    BY <1>1, <2>1 DEF DeviceTypes, G!Send
  <2> QED BY <1>1, <2>3, <2>4 DEF DeviceTypes, G!Send
<1>2. CASE G!Decode
  <2>1. engine' \in Seq(OutWords)
    BY <1>2, DecodeTypes
  <2>2. inStream' \in Seq(InWords)
    BY <1>2 DEF DeviceTypes, G!Decode
  <2> QED BY <1>2, <2>1, <2>2 DEF DeviceTypes, G!Decode
<1>3. CASE G!Give
  <2>1. Head(engine) \in OutWords /\ engine' \in Seq(OutWords)
    BY <1>3 DEF DeviceTypes, G!Give
  <2>2. outStream' \in Seq(OutWords)
    BY <1>3, <2>1 DEF DeviceTypes, G!Give
  <2> QED BY <1>3, <2>1, <2>2 DEF DeviceTypes, G!Give
<1>4. CASE G!Receive
  <2>1. Head(outStream) \in OutWords /\ outStream' \in Seq(OutWords)
    BY <1>4 DEF DeviceTypes, G!Receive
  <2>2. Head(outStream).x # G!NoUnit => Head(outStream).x \in Units
    BY <2>1 DEF OutWords
  <2>3. s2mm'.units \in Seq(Units) /\ s2mm'.read \in Nat /\ s2mm'.runs \in BOOLEAN
    BY <1>4, <2>2 DEF DeviceTypes, G!Receive
  <2>4. s2mm' \in [runs : BOOLEAN, read : Nat, units : Seq(Units)]
    BY <1>4, <2>3 DEF G!Receive
  <2> QED BY <1>4, <2>1, <2>4 DEF DeviceTypes, G!Receive
<1> QED BY <1>1, <1>2, <1>3, <1>4 DEF G!Device

(* A word is sent, decoded or given: nothing arrives. *)
LEMMA DeviceMoves ==
  ASSUME DeviceTypes, NEW ws \in Seq(Words), NEW sent, NEW D \in Seq(Units),
         Flow(ws, sent, D, mm2s.words, inStream, outStream \o engine, status),
         mm2s.words # <<>> => (mm2s.last <=> sent = Len(ws)),
         G!Send \/ G!Decode \/ G!Give
  PROVE  /\ Flow(ws, sent, D, mm2s'.words, inStream', outStream' \o engine', status')
         /\ s2mm' = s2mm /\ status' = status /\ mm2s'.last = mm2s.last
         /\ mm2s'.words # <<>> => mm2s.words # <<>>
<1>0. /\ mm2s.words \in Seq(Words) /\ inStream \in Seq(InWords) /\ mm2s.last \in BOOLEAN
      /\ engine \in Seq(OutWords) /\ outStream \in Seq(OutWords)
      /\ outStream \o engine \in Seq(OutWords)
  BY OutTypes DEF DeviceTypes
<1>1. CASE G!Send
  <2>1. /\ mm2s.words # <<>> /\ mm2s'.words = Tail(mm2s.words) /\ mm2s'.last = mm2s.last
        /\ inStream' = Append(inStream, G!Word(Head(mm2s.words), mm2s.last /\ Len(mm2s.words) = 1))
        /\ engine' = engine /\ outStream' = outStream /\ s2mm' = s2mm /\ status' = status
    BY <1>1 DEF G!Send, DeviceTypes
  <2>2. Len(mm2s.words) = 1 <=> Len(mm2s.words) < 2
    <3>1. \A n \in Nat : n >= 1 => (n = 1 <=> n < 2)
      OBVIOUS
    <3>2. Len(mm2s.words) \in Nat /\ Len(mm2s.words) >= 1
      BY <1>0, <2>1
    <3> QED BY <3>1, <3>2, Zenon
  <2>3. (mm2s.last /\ Len(mm2s.words) = 1) <=> (sent = Len(ws) /\ Len(mm2s.words) < 2)
    BY <2>1, <2>2
  <2>4. Flow(ws, sent, D, Tail(mm2s.words),
             Append(inStream, G!Word(Head(mm2s.words), mm2s.last /\ Len(mm2s.words) = 1)),
             outStream \o engine, status)
    BY <1>0, <2>1, <2>3, FlowSend
  <2> QED BY <2>1, <2>4
<1>2. CASE G!Decode
  <2>1. /\ inStream # <<>> /\ inStream' = Tail(inStream) /\ mm2s' = mm2s /\ outStream' = outStream
        /\ s2mm' = s2mm /\ status' = status
    BY <1>2 DEF G!Decode
  <2>2. /\ engine = <<>> /\ engine' \in Seq(OutWords)
        /\ \A a, b \in Nat : (Head(inStream).last <=> a = b) =>
              LeavesFor(UnitsOf(Head(inStream).x), a, b, engine')
    BY <1>2, DecodeTypes
  <2> DEFINE d == Decoded(sent, mm2s.words, inStream)
  <2>3. d + 1 \in Nat /\ Len(ws) \in Nat
    <3>1. d \in 0..Len(ws) /\ Len(ws) \in Nat
      BY <1>0, WordsFlow
    <3> QED BY <3>1
  <2>4. Head(inStream).last <=> d + 1 = Len(ws)
    <3>1. Head(inStream) = inStream[1] /\ 1 \in 1..Len(inStream)
      BY <1>0, <2>1
    <3> QED BY <3>1 DEF Flow, Inbound
  <2>5. LeavesFor(UnitsOf(Head(inStream).x), d + 1, Len(ws), engine')
    <3> HIDE DEF d
    <3> QED BY <2>2, <2>3, <2>4
  <2>6. outStream \o engine = outStream
    BY <1>0, <2>2
  <2>7. Flow(ws, sent, D, mm2s.words, Tail(inStream), outStream \o engine', status)
    BY <1>0, <2>1, <2>2, <2>5, <2>6, FlowDecode
  <2> QED BY <2>1, <2>7
<1>3. CASE G!Give
  <2>1. /\ engine # <<>> /\ outStream' = Append(outStream, Head(engine)) /\ engine' = Tail(engine)
        /\ mm2s' = mm2s /\ inStream' = inStream /\ s2mm' = s2mm /\ status' = status
    BY <1>3 DEF G!Give
  <2>2. Append(outStream, Head(engine)) \o Tail(engine) = outStream \o engine
    BY <1>0, <2>1, GivenOne
  <2> QED BY <2>1, <2>2
<1> QED BY <1>1, <1>2, <1>3

(* The units after a word that may have none. *)
Received(D, word) == IF word.x = G!NoUnit THEN D ELSE Append(D, word.x)

(* The flow when xilS2MM takes a word, and what it does with it. *)
LEMMA DeviceReceives ==
  ASSUME DeviceTypes, NEW ws \in Seq(Words), NEW sent, NEW D \in Seq(Units),
         Flow(ws, sent, D, mm2s.words, inStream, outStream \o engine, status),
         s2mm.runs => status = 0, G!Receive
  PROVE  /\ Flow(ws, sent, Received(D, Head(outStream)), mm2s'.words, inStream',
                 outStream' \o engine', status')
         /\ status' = IF Head(outStream).last THEN 1 ELSE 0
         /\ s2mm'.units = Received(s2mm.units, Head(outStream))
         /\ s2mm'.read = s2mm.read + 1
         /\ s2mm'.runs <=> ~Head(outStream).last /\ s2mm.read + 1 < OutUnits
         /\ mm2s' = mm2s /\ s2mm.runs /\ status = 0
         /\ Head(outStream) \in OutWords /\ outStream # <<>>
<1>0. /\ mm2s.words \in Seq(Words) /\ inStream \in Seq(InWords)
      /\ engine \in Seq(OutWords) /\ outStream \in Seq(OutWords)
      /\ outStream \o engine \in Seq(OutWords)
  BY OutTypes DEF DeviceTypes
<1>1. /\ outStream # <<>> /\ s2mm.runs /\ status = 0 /\ outStream' = Tail(outStream)
      /\ status' = IF Head(outStream).last THEN 1 ELSE 0
      /\ s2mm'.units = Received(s2mm.units, Head(outStream))
      /\ s2mm'.read = s2mm.read + 1
      /\ s2mm'.runs <=> ~Head(outStream).last /\ s2mm.read + 1 < OutUnits
      /\ mm2s' = mm2s /\ inStream' = inStream /\ engine' = engine
  BY DEF G!Receive, Received
<1>2. /\ Head(outStream) \in OutWords /\ outStream \o engine # <<>>
      /\ Head(outStream \o engine) = Head(outStream)
      /\ Tail(outStream \o engine) = Tail(outStream) \o engine
  BY <1>0, <1>1, TakenOne
<1>3. Flow(ws, sent, Received(D, Head(outStream)), mm2s.words, inStream, Tail(outStream) \o engine,
           IF Head(outStream).last THEN 1 ELSE 0)
  BY <1>0, <1>1, <1>2, FlowReceive DEF Received
<1> QED BY <1>1, <1>2, <1>3

-----------------------------------------------------------------------------
(* What has been pushed *)

(* An item that a decompressor pushes. *)
Item == [units : Seq(Units), last : BOOLEAN]

(* What has come out is a sequence of units. *)
LEMMA OutIs ==
  ASSUME NEW r \in Seq(Item)
  PROVE  /\ [i \in 1..Len(r) |-> r[i].units] \in Seq(Seq(Units))
         /\ Len([i \in 1..Len(r) |-> r[i].units]) = Len(r)
         /\ FlattenSeq([i \in 1..Len(r) |-> r[i].units]) \in Seq(Units)
         /\ r = <<>> => FlattenSeq([i \in 1..Len(r) |-> r[i].units]) = <<>>
<1> DEFINE s == [i \in 1..Len(r) |-> r[i].units]
<1>1. Len(r) \in Nat /\ \A i \in 1..Len(r) : r[i].units \in Seq(Units)
  <2>1. Len(r) \in Nat /\ \A i \in 1..Len(r) : r[i] \in Item
    OBVIOUS
  <2>2. \A x \in Item : x.units \in Seq(Units)
    BY DEF Item
  <2> QED BY <2>1, <2>2
<1>2. s \in Seq(Seq(Units)) /\ Len(s) = Len(r)
  BY <1>1
<1>3. [h \in 1..Len(s) |-> s[h]] = s
  BY <1>2
<1>4. r = <<>> => s = <<>>
  OBVIOUS
<1> HIDE DEF s
<1>5. FirstOf(s, Len(s)) \in Seq(Units)
  <2>1. Len(s) \in 0..Len(s)
    BY <1>1, <1>2
  <2> QED BY <1>2, <2>1, FirstTypes
<1>6. FlattenSeq(s) \in Seq(Units)
  BY <1>3, <1>5 DEF FirstOf
<1> QED BY <1>2, <1>4, <1>6, FlattenNone DEF s

(* An item more adds its units to what has come out. *)
LEMMA OutGrows ==
  ASSUME NEW r \in Seq(Item), NEW item \in Item
  PROVE  FlattenSeq([i \in 1..Len(Append(r, item)) |-> Append(r, item)[i].units]) =
           FlattenSeq([i \in 1..Len(r) |-> r[i].units]) \o item.units
<1> DEFINE q == Append(r, item)
           s == [i \in 1..Len(r) |-> r[i].units]
           t == [i \in 1..Len(q) |-> q[i].units]
<1>1. /\ q \in Seq(Item) /\ Len(q) = Len(r) + 1 /\ q[Len(r) + 1] = item
      /\ \A i \in 1..Len(r) : q[i] = r[i]
  OBVIOUS
<1> HIDE DEF q
<1>2. s \in Seq(Seq(Units)) /\ t \in Seq(Seq(Units)) /\ Len(s) = Len(r) /\ Len(t) = Len(q)
  BY <1>1, OutIs
<1>3. Len(r) \in Nat /\ Len(q) \in 1..Len(q) /\ \A i \in 1..Len(r) : i \in 1..Len(q)
  BY <1>1
<1>4. \A i \in 1..Len(s) : t[i] = s[i]
  BY <1>1, <1>2, <1>3
<1>5. t[Len(t)] = item.units
  BY <1>1, <1>2, <1>3
<1> HIDE DEF s, t
<1>6. FlattenSeq(t) = FlattenSeq(s) \o t[Len(t)]
  BY <1>1, <1>2, <1>4, FlattenOneMore
<1> QED BY <1>5, <1>6 DEF s, t, q

(* The types of what the decompressor has. *)
LEMMA RestoredTypes ==
  ASSUME DeviceTypes
  PROVE  /\ restored \in Seq(Item) /\ Out \in Seq(Units) /\ s2mm.units \in Seq(Units)
         /\ restored = <<>> => Out = <<>>
<1>1. restored \in Seq(Item) /\ s2mm.units \in Seq(Units)
  BY DEF DeviceTypes, Item
<1> QED BY <1>1, OutIs DEF Out

(* What pushing an item does to restored and to Out. *)
LEMMA PushGrows ==
  ASSUME DeviceTypes, NEW item \in Item, restored' = Append(restored, item)
  PROVE  /\ Out' = Out \o item.units /\ restored' \in Seq(Item)
         /\ Len(restored') = Len(restored) + 1 /\ restored'[Len(restored')] = item
         /\ \A i \in 1..Len(restored) : restored'[i] = restored[i]
<1>1. restored \in Seq(Item)
  BY RestoredTypes
<1>2. Out' = Out \o item.units
  BY <1>1, OutGrows DEF Out
<1>3. /\ restored' \in Seq(Item) /\ Len(restored') = Len(restored) + 1
      /\ restored'[Len(restored')] = item
      /\ \A i \in 1..Len(restored) : restored'[i] = restored[i]
  BY <1>1
<1> QED BY <1>2, <1>3

(* An item with this flag is pushed, and it is the last one if it has it.      *)
LEMMA PushLast ==
  ASSUME DeviceTypes, NEW item \in Item, restored' = Append(restored, item), LastIsLast(FALSE),
         NEW e \in BOOLEAN, item.last <=> e
  PROVE  \A i \in 1..Len(restored') : restored'[i].last <=> e /\ i = Len(restored')
<1>1. /\ Len(restored') = Len(restored) + 1 /\ restored'[Len(restored')] = item
      /\ \A i \in 1..Len(restored) : restored'[i] = restored[i]
      /\ Len(restored) \in Nat
  BY PushGrows, RestoredTypes
<1>2. \A i \in 1..Len(restored) : ~restored[i].last
  BY DEF LastIsLast
<1>3. \A i \in 1..Len(restored') : i = Len(restored') \/ (i \in 1..Len(restored) /\ i # Len(restored'))
  BY <1>1
<1> QED BY <1>1, <1>2, <1>3

-----------------------------------------------------------------------------
(* The file that gzip's compressor leaves *)

(* The file that is written, word by word: a header, the chunks, two without content. *)
LEMMA WrittenIs ==
  ASSUME CInv, waiter = "end"
  PROVE  /\ curItem \in Nat \ {0} /\ Len(Written) = curItem + 3 /\ Written \in Seq(Words)
         /\ Written[1] = NoContent /\ Written[curItem + 2] = NoContent
         /\ Written[curItem + 3] = NoContent
         /\ \A i \in 1..curItem : Written[i + 1] = [k |-> i, n |-> Contents(i)]
<1>1. /\ curItem \in Nat \ {0} /\ Len(outputStream) \in Nat /\ Len(outputStream) >= curItem + 1
      /\ \A i \in 1..Len(outputStream) :
           outputStream[i] = IF i <= curItem THEN C!Chunk(i) ELSE C!Terminator
  <2>1. C!StreamInOrder /\ CompressorTypes
    BY StreamOrdered DEF CInv
  <2>2. curItem \in Nat \ {0} /\ Len(outputStream) \in Nat
    BY <2>1 DEF CompressorTypes, Items
  <2>3. Len(outputStream) >= curItem + 1
    BY <2>1, <2>2 DEF C!StreamInOrder
  <2> QED BY <2>1, <2>2, <2>3 DEF C!StreamInOrder
<1>2. \A i \in 1..Len(outputStream) : outputStream[i].last <=> i > curItem
  <2>1. C!Terminator.last /\ \A i \in 1..Len(outputStream) : ~C!Chunk(i).last
    BY DEF C!Chunk, C!Terminator
  <2>2. \A i \in 1..Len(outputStream) : i <= curItem <=> ~(i > curItem)
    BY <1>1
  <2> QED BY <1>1, <2>1, <2>2
<1>3. UntilLast = curItem + 1
  <2> DEFINE I == {i \in 1..Len(outputStream) : outputStream[i].last}
  <2>1. UntilLast = IF I # {} THEN Min(I) ELSE 0
    BY DEF UntilLast, SelectInSeq
  <2>2. curItem + 1 \in I
    BY <1>1, <1>2
  <2>3. \A i \in I : curItem + 1 <= i /\ i \in Int
    BY <1>1, <1>2
  <2> HIDE DEF I
  <2>4. Min(I) = curItem + 1
    <3>1. \A x \in I : (\A y \in I : x <= y) => x = curItem + 1
      BY <1>1, <2>2, <2>3
    <3> QED BY <2>2, <2>3, <3>1 DEF Min
  <2> QED BY <2>1, <2>2, <2>4
<1> DEFINE m == [i \in 1..(curItem + 1) |-> Encoded(outputStream[i])]
<1>4. Written = <<NoContent>> \o m \o <<NoContent>>
  BY <1>3 DEF Written
<1>5. NoContent \in Words
  BY DEF NoContent, Words
<1>6. \A i \in 1..curItem : m[i] = [k |-> i, n |-> Contents(i)] /\ m[i] \in Words
  <2>0. \A i \in 1..curItem : /\ i \in 1..Len(outputStream) /\ i \in 1..(curItem + 1)
                              /\ i <= curItem /\ i \in Nat
    BY <1>1
  <2>1. \A i \in 1..curItem : outputStream[i] = C!Chunk(i) /\ Contents(i) \in Nat
    BY <1>1, <2>0, MoverAssumption DEF Contents
  <2>2. \A i \in 1..curItem : m[i] = [k |-> i, n |-> Contents(i)]
    <3>1. \A i \in 1..curItem : m[i] = Encoded(C!Chunk(i))
      BY <2>0, <2>1
    <3>2. \A i \in 1..curItem : Encoded(C!Chunk(i)) = [k |-> i, n |-> Contents(i)]
      BY DEF Encoded, C!Chunk
    <3> HIDE DEF m
    <3> QED BY <3>1, <3>2
  <2> HIDE DEF m
  <2> QED BY <2>0, <2>1, <2>2 DEF Words
<1>7. m[curItem + 1] = NoContent
  <2>1. outputStream[curItem + 1] = C!Terminator /\ curItem + 1 \in 1..(curItem + 1)
    BY <1>1
  <2> QED BY <2>1 DEF Encoded, C!Terminator
<1>8. m \in Seq(Words) /\ Len(m) = curItem + 1
  <2>1. curItem + 1 \in Nat /\ m = [i \in 1..(curItem + 1) |-> m[i]]
    BY <1>1
  <2>2. \A i \in 1..(curItem + 1) : i \in 1..curItem \/ i = curItem + 1
    BY <1>1
  <2> HIDE DEF m
  <2>3. \A i \in 1..(curItem + 1) : m[i] \in Words
    BY <1>5, <1>6, <1>7, <2>2
  <2> QED BY <2>1, <2>3, OfElements
<1> HIDE DEF m
<1> DEFINE a == <<NoContent>> \o m
<1>9. /\ a \in Seq(Words) /\ Len(a) = curItem + 2 /\ a[1] = NoContent
      /\ \A i \in 1..(curItem + 1) : a[i + 1] = m[i]
  BY <1>1, <1>5, <1>8
<1> HIDE DEF a
<1>10. /\ Written \in Seq(Words) /\ Len(Written) = curItem + 3 /\ Written[curItem + 3] = NoContent
       /\ \A i \in 1..(curItem + 2) : Written[i] = a[i]
  <2>1. Written = Append(a, NoContent)
    BY <1>4, <1>5, <1>9 DEF a
  <2> QED BY <1>1, <1>5, <1>9, <2>1
<1>11. Written[1] = NoContent /\ Written[curItem + 2] = NoContent
  <2>1. /\ 1 \in 1..(curItem + 2) /\ curItem + 2 \in 1..(curItem + 2)
        /\ curItem + 1 \in 1..(curItem + 1) /\ (curItem + 1) + 1 = curItem + 2
    BY <1>1
  <2>2. a[curItem + 2] = m[curItem + 1]
    BY <1>9, <2>1
  <2> QED BY <1>7, <1>9, <1>10, <2>1, <2>2
<1>12. ASSUME NEW i \in 1..curItem PROVE Written[i + 1] = [k |-> i, n |-> Contents(i)]
  <2>1. i + 1 \in 1..(curItem + 2) /\ i \in 1..(curItem + 1)
    BY <1>1
  <2> QED BY <1>6, <1>9, <1>10, <2>1
<1> QED BY <1>1, <1>10, <1>11, <1>12

(* The file's content is that of the chunks. *)
LEMMA WrittenContent ==
  CInv /\ waiter = "end" /\ lib = "gzip" =>
    Written \in Seq(Words) /\ Written # <<>> /\ FlatTo(Written, Len(Written)) = Content
<1> SUFFICES ASSUME CInv, waiter = "end", lib = "gzip"
             PROVE  Written \in Seq(Words) /\ Written # <<>> /\ FlatTo(Written, Len(Written)) = Content
  OBVIOUS
<1> DEFINE s == [k \in 1..curItem |-> [j \in 1..Contents(k) |-> <<k, j>>]]
           w == Written
<1>1. /\ curItem \in Nat \ {0} /\ Len(w) = curItem + 3 /\ w \in Seq(Words)
      /\ w[1] = NoContent /\ w[curItem + 2] = NoContent /\ w[curItem + 3] = NoContent
      /\ \A i \in 1..curItem : w[i + 1] = [k |-> i, n |-> Contents(i)]
  BY WrittenIs
<1>2. Content = FirstOf(s, curItem)
  BY DEF Content, FirstOf
<1>3. s \in Seq(Seq(Units)) /\ Len(s) = curItem
  <2>1. curItem \in Nat /\ s = [k \in 1..curItem |-> s[k]]
    BY <1>1
  <2>2. \A k \in 1..curItem : Contents(k) \in Nat /\ k \in Nat
    BY <1>1, MoverAssumption DEF Contents
  <2>3. ASSUME NEW k \in 1..curItem PROVE s[k] \in Seq(Units)
    <3>1. \A j \in 1..Contents(k) : <<k, j>> \in Units
      BY <2>2 DEF Units
    <3> QED BY <2>2, <3>1
  <2> HIDE DEF s
  <2> QED BY <2>1, <2>3, OfElements
<1>4. \A k \in 1..curItem : s[k] = UnitsOf([k |-> k, n |-> Contents(k)])
  BY DEF UnitsOf
<1>5. UnitsOf(NoContent) = <<>>
  BY DEF UnitsOf, NoContent
<1> HIDE DEF s, w
<1> DEFINE S == {i \in Nat : i <= curItem => FlatTo(w, i + 1) = FirstOf(s, i)}
<1>6. 0 \in S
  <2>1. 0 \in 0..(Len(w) - 1) /\ 0 + 1 = 1
    BY <1>1
  <2>2. FlatTo(w, 0 + 1) = FlatTo(w, 0) \o UnitsOf(w[0 + 1])
    BY <1>1, <2>1, FlatNext
  <2>3. FlatTo(w, 0 + 1) = <<>>
    BY <1>1, <1>5, <2>1, <2>2, FlatNone
  <2> QED BY <2>3, FirstNone
<1>7. ASSUME NEW i \in S PROVE i + 1 \in S
  <2> SUFFICES ASSUME i + 1 <= curItem PROVE FlatTo(w, (i + 1) + 1) = FirstOf(s, i + 1)
    OBVIOUS
  <2>1. /\ FlatTo(w, i + 1) = FirstOf(s, i) /\ i + 1 \in 0..(Len(w) - 1) /\ i + 1 \in 1..curItem
        /\ i \in 0..(Len(s) - 1)
    BY <1>1, <1>3
  <2>2. FlatTo(w, (i + 1) + 1) = FlatTo(w, i + 1) \o UnitsOf(w[(i + 1) + 1])
    BY <1>1, <2>1, FlatNext
  <2>3. FirstOf(s, i + 1) = FirstOf(s, i) \o s[i + 1]
    BY <1>3, <2>1, FirstNext
  <2>4. UnitsOf(w[(i + 1) + 1]) = s[i + 1]
    BY <1>1, <1>4, <2>1
  <2> QED BY <2>1, <2>2, <2>3, <2>4
<1>8. S = Nat
  <2> HIDE DEF S
  <2>1. S \subseteq Nat
    BY DEF S
  <2> QED BY <1>6, <1>7, <2>1, Induction
<1>9. FlatTo(w, curItem + 1) = FirstOf(s, curItem)
  BY <1>1, <1>8
<1>10. FlatTo(w, curItem + 3) = FlatTo(w, curItem + 1)
  <2>1. /\ curItem + 1 \in 0..(Len(w) - 1) /\ (curItem + 1) + 1 \in 0..(Len(w) - 1)
        /\ (curItem + 1) + 1 = curItem + 2 /\ ((curItem + 1) + 1) + 1 = curItem + 3
        /\ curItem + 1 \in 0..Len(w)
    BY <1>1
  <2>2. FlatTo(w, (curItem + 1) + 1) = FlatTo(w, curItem + 1) \o UnitsOf(w[(curItem + 1) + 1])
    BY <1>1, <2>1, FlatNext
  <2>3. FlatTo(w, ((curItem + 1) + 1) + 1) =
          FlatTo(w, (curItem + 1) + 1) \o UnitsOf(w[((curItem + 1) + 1) + 1])
    BY <1>1, <2>1, FlatNext
  <2>4. UnitsOf(w[(curItem + 1) + 1]) = <<>> /\ UnitsOf(w[((curItem + 1) + 1) + 1]) = <<>>
    BY <1>1, <1>5, <2>1
  <2>5. FlatTo(w, curItem + 1) \in Seq(Units)
    BY <1>1, <2>1, FlatTypes
  <2>6. FlatTo(w, (curItem + 1) + 1) = FlatTo(w, curItem + 1)
    BY <2>2, <2>4, <2>5
  <2>7. FlatTo(w, ((curItem + 1) + 1) + 1) = FlatTo(w, curItem + 1)
    BY <2>3, <2>4, <2>5, <2>6
  <2> QED BY <2>1, <2>7
<1>11. w # <<>>
  BY <1>1
<1> QED BY <1>1, <1>2, <1>9, <1>10, <1>11 DEF w

-----------------------------------------------------------------------------
(* The content of a zstd file *)

(* A token has a sequence of units. *)
LEMMA TokenUnits ==
  ASSUME file \in Seq(Token)
  PROVE  \A i \in 1..Len(file) : Z!UnitsAt(i) \in Seq(Units)
<1> SUFFICES ASSUME NEW i \in 1..Len(file) PROVE Z!UnitsAt(i) \in Seq(Units)
  OBVIOUS
<1>1. file[i] \in Token
  OBVIOUS
<1>2. CASE file[i].t = "data"
  <2>1. file[i].n \in Nat /\ file[i].k \in Nat
    BY <1>1, <1>2 DEF Token
  <2>2. \A j \in 1..file[i].n : <<file[i].k, j>> \in Units
    BY <2>1 DEF Units
  <2> QED BY <1>2, <2>1, <2>2 DEF Z!UnitsAt
<1>3. CASE file[i].t # "data"
  BY <1>3 DEF Z!UnitsAt
<1> QED BY <1>2, <1>3

(* The content of a file's first tokens is their units, joined. *)
LEMMA ContentIsFirst ==
  ASSUME file \in Seq(Token)
  PROVE  /\ [h \in 1..Len(file) |-> Z!UnitsAt(h)] \in Seq(Seq(Units))
         /\ Len([h \in 1..Len(file) |-> Z!UnitsAt(h)]) = Len(file)
         /\ \A i \in 0..Len(file) :
              Z!ContentTo(i) = FirstOf([h \in 1..Len(file) |-> Z!UnitsAt(h)], i)
<1> DEFINE s == [h \in 1..Len(file) |-> Z!UnitsAt(h)]
<1>1. s \in Seq(Seq(Units)) /\ Len(s) = Len(file) /\ Len(file) \in Nat
  <2>1. Len(file) \in Nat /\ s = [h \in 1..Len(file) |-> s[h]]
    OBVIOUS
  <2>2. \A h \in 1..Len(file) : s[h] \in Seq(Units)
    BY TokenUnits
  <2> HIDE DEF s
  <2> QED BY <2>1, <2>2, OfElements
<1>2. ASSUME NEW i \in 0..Len(file) PROVE Z!ContentTo(i) = FirstOf(s, i)
  <2>1. [h \in 1..i |-> Z!UnitsAt(h)] = [h \in 1..i |-> s[h]]
    BY <1>1
  <2>2. Z!ContentTo(i) = FlattenSeq([h \in 1..i |-> Z!UnitsAt(h)])
    BY DEF Z!ContentTo, Z!FlattenSeq, FlattenSeq
  <2> HIDE DEF s
  <2> QED BY <2>1, <2>2 DEF FirstOf
<1> QED BY <1>1, <1>2

(* The content of one token more. *)
LEMMA ContentNext ==
  ASSUME file \in Seq(Token), NEW i \in 0..(Len(file) - 1)
  PROVE  Z!ContentTo(i + 1) = Z!ContentTo(i) \o Z!UnitsAt(i + 1)
<1> DEFINE s == [h \in 1..Len(file) |-> Z!UnitsAt(h)]
<1>1. i \in 0..Len(file) /\ i + 1 \in 0..Len(file) /\ s[i + 1] = Z!UnitsAt(i + 1)
  OBVIOUS
<1>2. /\ s \in Seq(Seq(Units)) /\ Len(s) = Len(file)
      /\ Z!ContentTo(i) = FirstOf(s, i) /\ Z!ContentTo(i + 1) = FirstOf(s, i + 1)
  BY <1>1, ContentIsFirst
<1> HIDE DEF s
<1>3. FirstOf(s, i + 1) = FirstOf(s, i) \o s[i + 1]
  BY <1>2, FirstNext
<1> QED BY <1>1, <1>2, <1>3

(* The content is a sequence of units. *)
LEMMA ContentTypes ==
  ASSUME file \in Seq(Token), NEW i \in 0..Len(file)
  PROVE  Z!ContentTo(i) \in Seq(Units)
BY ContentIsFirst, FirstTypes

(* The content of the file begins with that of its first tokens. *)
LEMMA ContentGrows ==
  ASSUME file \in Seq(Token), NEW i \in 0..Len(file)
  PROVE  Begins(Z!ContentTo(i), Z!Content)
<1> DEFINE s == [h \in 1..Len(file) |-> Z!UnitsAt(h)]
<1>1. Len(file) \in 0..Len(file) /\ Len(file) \in i..Len(file)
  OBVIOUS
<1>2. /\ s \in Seq(Seq(Units)) /\ Len(s) = Len(file)
      /\ Z!ContentTo(i) = FirstOf(s, i) /\ Z!Content = FirstOf(s, Len(file))
  BY <1>1, ContentIsFirst DEF Z!Content
<1> HIDE DEF s
<1> QED BY <1>1, <1>2, FirstGrows

(* A block is collected. *)
LEMMA FlatAppend ==
  ASSUME NEW bs \in Seq(Words), NEW w \in Words
  PROVE  /\ Append(bs, w) \in Seq(Words) /\ Len(Append(bs, w)) = Len(bs) + 1
         /\ FlatTo(Append(bs, w), Len(Append(bs, w))) = FlatTo(bs, Len(bs)) \o UnitsOf(w)
<1> DEFINE q == Append(bs, w)
<1>1. /\ q \in Seq(Words) /\ Len(q) = Len(bs) + 1 /\ q[Len(bs) + 1] = w
      /\ \A i \in 1..Len(bs) : q[i] = bs[i]
  OBVIOUS
<1> HIDE DEF q
<1>2. Len(bs) \in Nat /\ Len(bs) \in 0..(Len(q) - 1)
  BY <1>1
<1>3. FlatTo(q, Len(bs) + 1) = FlatTo(q, Len(bs)) \o UnitsOf(q[Len(bs) + 1])
  BY <1>1, <1>2, FlatNext
<1>4. FlatTo(q, Len(bs)) = FlatTo(bs, Len(bs))
  <2>1. [h \in 1..Len(bs) |-> UnitsOf(q[h])] = [h \in 1..Len(bs) |-> UnitsOf(bs[h])]
    BY <1>1
  <2> QED BY <2>1 DEF FlatTo
<1> QED BY <1>1, <1>3, <1>4 DEF q

-----------------------------------------------------------------------------
(* gzip and zlib: each step keeps GzipInv *)

(* The same of the next state, in which the file is written. *)
LEMMA WrittenContentNext ==
  (CInv /\ waiter = "end" /\ lib = "gzip" =>
     Written \in Seq(Words) /\ Written # <<>> /\ FlatTo(Written, Len(Written)) = Content)'
BY WrittenContent, PTL

(* The compressor has ended and the file is written. *)
LEMMA GzipBegins ==
  ASSUME CInv', NotBegun, DeviceTypes, UNCHANGED <<lib, dvars>>, lib = "gzip", waiter' = "end",
         file' = Written'
  PROVE  GzipInv'
<1> USE DEF dvars
<1>1. file' \in Seq(Words) /\ file' # <<>> /\ (FlatTo(file, Len(file)) = Content)'
  <2>1. Written' \in Seq(Words) /\ Written' # <<>> /\ (FlatTo(Written, Len(Written)) = Content)'
    BY WrittenContentNext
  <2>2. FlatTo(file, Len(file))' = FlatTo(Written, Len(Written))'
    BY DEF FlatTo, UnitsOf
  <2> QED BY <2>1, <2>2
<1>2. /\ read = 0 /\ writer = "pop" /\ last = FALSE /\ reader = "start" /\ restored = <<>>
      /\ mm2s.words = <<>> /\ inStream = <<>> /\ engine = <<>> /\ outStream = <<>> /\ status = 0
      /\ ~s2mm.runs
  BY DEF NotBegun, G!Start, G!DeviceInit
<1>3. Out' = <<>>
  <2>1. Out = <<>>
    BY <1>2, RestoredTypes
  <2> QED BY <2>1 DEF Out
<1>4. Flow(file', 0, <<>>, <<>>, <<>>, <<>>, 0)
  BY <1>1, FlowBegins
<1>5. (outStream \o engine)' = <<>> /\ Arrived' = <<>>
  BY <1>2, <1>3 DEF Arrived
<1>6. Flow(file, read, Arrived, mm2s.words, inStream, outStream \o engine, status)'
  BY <1>2, <1>4, <1>5
<1>7. Len(file') > 0 /\ Len(file') \in Nat
  BY <1>1
<1>8. LastIsLast(reader = "end")'
  BY <1>2 DEF LastIsLast
<1> QED BY <1>1, <1>2, <1>6, <1>7, <1>8 DEF GzipInv

(* What Arrived and status are, as the reader's place and the kernel say. *)
LEMMA GzipFacts ==
  ASSUME DeviceTypes, GzipInv
  PROVE  /\ Arrived \in Seq(Units) /\ Out \in Seq(Units) /\ s2mm.units \in Seq(Units)
         /\ mm2s.words \in Seq(Words) /\ inStream \in Seq(InWords)
         /\ outStream \o engine \in Seq(OutWords)
         /\ status \in {0, 1} /\ Len(file) \in Nat /\ read \in 0..Len(file)
<1>1. Out \in Seq(Units) /\ s2mm.units \in Seq(Units) /\ outStream \o engine \in Seq(OutWords)
  BY RestoredTypes, OutTypes
<1>2. Arrived \in Seq(Units)
  BY <1>1, JoinedTypes DEF Arrived
<1>3. mm2s.words \in Seq(Words) /\ inStream \in Seq(InWords)
  BY DEF DeviceTypes
<1>4. status \in {0, 1}
  BY DEF GzipInv, Flow, Outbound
<1>5. Len(file) \in Nat /\ read \in 0..Len(file)
  BY DEF GzipInv, Flow, Inbound
<1> QED BY <1>1, <1>2, <1>3, <1>4, <1>5

(* The device takes a step. *)
LEMMA GzipDevice ==
  ASSUME DeviceTypes, GzipInv, G!Device,
         UNCHANGED <<lib, cvars, file, read, writer, last, reader, frame, restored>>
  PROVE  GzipInv'
<1>f. /\ Arrived \in Seq(Units) /\ Out \in Seq(Units) /\ s2mm.units \in Seq(Units)
      /\ status \in {0, 1}
  BY GzipFacts
<1>g. /\ file \in Seq(Words)
      /\ Flow(file, read, Arrived, mm2s.words, inStream, outStream \o engine, status)
      /\ mm2s.words # <<>> => (mm2s.last <=> read = Len(file))
  BY DEF GzipInv
<1>o. Out' = Out
  BY DEF Out
<1>k. /\ file' \in Seq(Words) /\ Len(file') > 0 /\ (FlatTo(file, Len(file)) = Content)'
      /\ writer' \in {"pop", "finish", "end"} /\ reader' \in {"start", "finish", "end"}
      /\ last' \in BOOLEAN /\ (writer' = "finish" => (last' <=> read' = Len(file')))
      /\ LastIsLast(reader = "end")'
  <2>1. Content' = Content
    BY DEF Content, cvars, Contents, Z!Content, Z!ContentTo, Z!UnitsAt
  <2>2. FlatTo(file, Len(file))' = FlatTo(file, Len(file))
    BY DEF FlatTo, UnitsOf
  <2>3. LastIsLast(reader = "end")'
    BY DEF GzipInv, LastIsLast
  <2> QED BY <2>1, <2>2, <2>3 DEF GzipInv
<1>1. CASE G!Send \/ G!Decode \/ G!Give
  <2>1. /\ Flow(file, read, Arrived, mm2s'.words, inStream', outStream' \o engine', status')
        /\ s2mm' = s2mm /\ status' = status /\ mm2s'.last = mm2s.last
        /\ mm2s'.words # <<>> => mm2s.words # <<>>
    BY <1>1, <1>f, <1>g, DeviceMoves
  <2>2. Arrived' = Arrived
    BY <1>o, <2>1 DEF Arrived
  <2>3. Flow(file, read, Arrived, mm2s.words, inStream, outStream \o engine, status)'
    BY <2>1, <2>2
  <2>4. /\ mm2s'.words # <<>> => (mm2s'.last <=> read' = Len(file'))
        /\ writer' = "pop" => mm2s'.words = <<>> /\ read' < Len(file')
        /\ reader' = "start" => status' = 0
        /\ reader' = "end" => status' = 1
        /\ s2mm'.runs => reader' = "finish" /\ status' = 0
    BY <2>1 DEF GzipInv
  <2> QED BY <1>k, <2>3, <2>4 DEF GzipInv
<1>2. CASE G!Receive
  <2>1. /\ Flow(file, read, Received(Arrived, Head(outStream)), mm2s'.words, inStream',
                outStream' \o engine', status')
        /\ status' = IF Head(outStream).last THEN 1 ELSE 0
        /\ s2mm'.units = Received(s2mm.units, Head(outStream))
        /\ s2mm'.runs <=> ~Head(outStream).last /\ s2mm.read + 1 < OutUnits
        /\ mm2s' = mm2s /\ s2mm.runs /\ status = 0
        /\ Head(outStream) \in OutWords /\ outStream # <<>>
    <3>1. s2mm.runs => status = 0
      BY DEF GzipInv
    <3> QED BY <1>2, <1>f, <1>g, <3>1, DeviceReceives
  <2>2. reader = "finish" /\ reader' = "finish"
    BY <2>1 DEF GzipInv
  <2>3. Arrived' = Received(Arrived, Head(outStream))
    <3>1. Arrived = Out \o s2mm.units /\ Arrived' = Out \o s2mm'.units
      BY <1>o, <2>2 DEF Arrived
    <3>2. CASE Head(outStream).x = G!NoUnit
      BY <2>1, <3>1, <3>2 DEF Received
    <3>3. CASE Head(outStream).x # G!NoUnit
      <4>1. Head(outStream).x \in Units
        BY <2>1, <3>3 DEF OutWords
      <4>2. Out \o Append(s2mm.units, Head(outStream).x) = Append(Out \o s2mm.units, Head(outStream).x)
        BY <1>f, <4>1
      <4> QED BY <2>1, <3>1, <3>3, <4>2 DEF Received
    <3> QED BY <3>2, <3>3
  <2>4. Flow(file, read, Arrived, mm2s.words, inStream, outStream \o engine, status)'
    BY <2>1, <2>3
  <2>5. /\ mm2s'.words # <<>> => (mm2s'.last <=> read' = Len(file'))
        /\ writer' = "pop" => mm2s'.words = <<>> /\ read' < Len(file')
        /\ s2mm'.runs => reader' = "finish" /\ status' = 0
    BY <2>1, <2>2 DEF GzipInv
  <2> QED BY <1>k, <2>2, <2>4, <2>5 DEF GzipInv
<1> QED BY <1>1, <1>2 DEF G!Device

(* chunkWriter pops a chunk and has it sent. *)
LEMMA GzipWriterPop ==
  ASSUME DeviceTypes, GzipInv, G!WriterPop, UNCHANGED <<lib, cvars, frame>>
  PROVE  GzipInv' /\ DeviceTypes'
<1>f. /\ Arrived \in Seq(Units) /\ inStream \in Seq(InWords)
      /\ Len(file) \in Nat /\ read \in 0..Len(file)
  BY GzipFacts
<1>a. /\ writer = "pop" /\ writer' = "finish" /\ mm2s.words = <<>> /\ read < Len(file)
      /\ read' = (IF read + InUnits < Len(file) THEN read + InUnits ELSE Len(file))
      /\ (last' <=> read' = Len(file)) /\ last' \in BOOLEAN
      /\ mm2s' = [words |-> SubSeq(file, read + 1, read'), last |-> last']
      /\ UNCHANGED <<file, reader, restored, inStream, engine, outStream, s2mm, status>>
  BY DEF G!WriterPop, G!StartMM2S, GzipInv
<1>1. read' \in read..Len(file) /\ read \in Nat
  <2>1. InUnits \in Nat
    BY MoverAssumption
  <2> QED BY <1>a, <1>f, <2>1
<1>2. file \in Seq(Words) /\ Flow(file, read, Arrived, <<>>, inStream, outStream \o engine, status)
  BY <1>a DEF GzipInv
<1>3. Flow(file, read', Arrived, SubSeq(file, read + 1, read'), inStream, outStream \o engine, status)
  BY <1>1, <1>2, <1>f, FlowMore
<1>4. Arrived' = Arrived
  BY <1>a DEF Arrived, Out
<1>5. Flow(file, read, Arrived, mm2s.words, inStream, outStream \o engine, status)'
  BY <1>a, <1>3, <1>4
<1>6. (FlatTo(file, Len(file)) = Content)'
  <2>1. Content' = Content
    BY <1>a DEF Content, cvars, Contents, Z!Content, Z!ContentTo, Z!UnitsAt
  <2>2. FlatTo(file, Len(file))' = FlatTo(file, Len(file))
    BY <1>a DEF FlatTo, UnitsOf
  <2> QED BY <2>1, <2>2 DEF GzipInv
<1>7. LastIsLast(reader = "end")'
  BY <1>a DEF GzipInv, LastIsLast
<1>8. DeviceTypes'
  <2>1. SubSeq(file, read + 1, read') \in Seq(Words)
    BY <1>1, <1>2, <1>f
  <2> QED BY <1>a, <2>1 DEF DeviceTypes
<1>9. GzipInv'
  BY <1>a, <1>5, <1>6, <1>7 DEF GzipInv
<1> QED BY <1>8, <1>9

(* chunkWriter waits for xilMM2S. *)
LEMMA GzipWriterFinish ==
  ASSUME DeviceTypes, GzipInv, G!WriterFinish, UNCHANGED <<lib, cvars, frame>>
  PROVE  GzipInv' /\ DeviceTypes'
<1>f. Len(file) \in Nat /\ read \in 0..Len(file)
  BY GzipFacts
<1>a. /\ writer = "finish" /\ mm2s.words = <<>> /\ (last <=> read = Len(file))
      /\ writer' = (IF last THEN "end" ELSE "pop")
      /\ UNCHANGED <<file, read, last, reader, restored, mm2s, inStream, engine, outStream, s2mm, status>>
  BY DEF G!WriterFinish, G!MM2SDone, G!device, GzipInv
<1>1. Arrived' = Arrived
  BY <1>a DEF Arrived, Out
<1>2. Flow(file, read, Arrived, mm2s.words, inStream, outStream \o engine, status)'
  BY <1>a, <1>1 DEF GzipInv
<1>3. (FlatTo(file, Len(file)) = Content)'
  <2>1. Content' = Content
    BY <1>a DEF Content, cvars, Contents, Z!Content, Z!ContentTo, Z!UnitsAt
  <2>2. FlatTo(file, Len(file))' = FlatTo(file, Len(file))
    BY <1>a DEF FlatTo, UnitsOf
  <2> QED BY <2>1, <2>2 DEF GzipInv
<1>4. LastIsLast(reader = "end")'
  BY <1>a DEF GzipInv, LastIsLast
<1>5. writer' = "pop" => read' < Len(file')
  BY <1>a, <1>f
<1>6. DeviceTypes'
  BY <1>a DEF DeviceTypes
<1>7. GzipInv'
  BY <1>a, <1>2, <1>3, <1>4, <1>5 DEF GzipInv
<1> QED BY <1>6, <1>7

(* chunkReader starts xilS2MM. *)
LEMMA GzipReaderStart ==
  ASSUME DeviceTypes, GzipInv, G!ReaderStart, UNCHANGED <<lib, cvars, frame>>
  PROVE  GzipInv' /\ DeviceTypes'
<1>a. /\ reader = "start" /\ reader' = "finish" /\ status = 0 /\ status' = 0
      /\ s2mm' = [runs |-> TRUE, read |-> 0, units |-> <<>>]
      /\ UNCHANGED <<file, read, writer, last, restored, mm2s, inStream, engine, outStream>>
  BY DEF G!ReaderStart, G!StartS2MM, GzipInv
<1>1. Arrived' = Arrived
  <2>1. Arrived = Out /\ Arrived' = Out \o <<>>
    BY <1>a DEF Arrived, Out
  <2>2. Out \in Seq(Units)
    BY RestoredTypes
  <2> QED BY <2>1, <2>2
<1>2. Flow(file, read, Arrived, mm2s.words, inStream, outStream \o engine, status)'
  BY <1>a, <1>1 DEF GzipInv
<1>3. (FlatTo(file, Len(file)) = Content)'
  <2>1. Content' = Content
    BY <1>a DEF Content, cvars, Contents, Z!Content, Z!ContentTo, Z!UnitsAt
  <2>2. FlatTo(file, Len(file))' = FlatTo(file, Len(file))
    BY <1>a DEF FlatTo, UnitsOf
  <2> QED BY <2>1, <2>2 DEF GzipInv
<1>4. LastIsLast(reader = "end")'
  BY <1>a DEF GzipInv, LastIsLast
<1>5. DeviceTypes'
  BY <1>a DEF DeviceTypes
<1>6. GzipInv'
  BY <1>a, <1>2, <1>3, <1>4 DEF GzipInv
<1> QED BY <1>5, <1>6

(* chunkReader pushes what xilS2MM has collected. *)
LEMMA GzipReaderPush ==
  ASSUME DeviceTypes, GzipInv, G!ReaderPush, UNCHANGED <<lib, cvars, frame>>
  PROVE  GzipInv' /\ DeviceTypes'
<1> DEFINE item == [units |-> s2mm.units, last |-> status = 1]
<1>f. s2mm.units \in Seq(Units) /\ status \in {0, 1}
  BY GzipFacts
<1>a. /\ reader = "finish" /\ ~s2mm.runs
      /\ restored' = Append(restored, item)
      /\ reader' = (IF status = 1 THEN "end" ELSE "start")
      /\ UNCHANGED <<file, read, writer, last, mm2s, inStream, engine, outStream, s2mm, status>>
  BY DEF G!ReaderPush, G!S2MMDone, G!device
<1>b. item \in Item /\ item.units = s2mm.units /\ (item.last <=> reader' = "end")
  BY <1>a, <1>f DEF Item
<1> HIDE DEF item
<1>1. Out' = Out \o s2mm.units /\ restored' \in Seq(Item)
  BY <1>a, <1>b, PushGrows
<1>2. Arrived' = Arrived
  BY <1>a, <1>1 DEF Arrived
<1>3. Flow(file, read, Arrived, mm2s.words, inStream, outStream \o engine, status)'
  BY <1>a, <1>2 DEF GzipInv
<1>4. (FlatTo(file, Len(file)) = Content)'
  <2>1. Content' = Content
    BY <1>a DEF Content, cvars, Contents, Z!Content, Z!ContentTo, Z!UnitsAt
  <2>2. FlatTo(file, Len(file))' = FlatTo(file, Len(file))
    BY <1>a DEF FlatTo, UnitsOf
  <2> QED BY <2>1, <2>2 DEF GzipInv
<1>5. LastIsLast(reader = "end")'
  <2>1. LastIsLast(FALSE)
    BY <1>a DEF GzipInv, LastIsLast
  <2>2. (reader' = "end") \in BOOLEAN
    OBVIOUS
  <2>3. \A i \in 1..Len(restored') : restored'[i].last <=> reader' = "end" /\ i = Len(restored')
    BY <1>a, <1>b, <2>1, <2>2, PushLast
  <2> QED BY <2>3 DEF LastIsLast
<1>6. DeviceTypes'
  BY <1>a, <1>1 DEF DeviceTypes, Item
<1>7. GzipInv'
  BY <1>a, <1>f, <1>3, <1>4, <1>5 DEF GzipInv
<1> QED BY <1>6, <1>7

(* A step of one of the two threads. *)
LEMMA GzipStep ==
  ASSUME DeviceTypes, GzipInv, UNCHANGED <<lib, cvars, frame>>, G!Writer \/ G!Reader
  PROVE  GzipInv' /\ DeviceTypes'
BY GzipWriterPop, GzipWriterFinish, GzipReaderStart, GzipReaderPush DEF G!Writer, G!Reader

-----------------------------------------------------------------------------
(* zstd: each step keeps ZstdInv *)

(* Whether the code can read a file depends on the file alone. *)
LEMMA ReadableStays == file' = file => (Z!Readable' <=> Z!Readable)
<1> SUFFICES ASSUME file' = file PROVE Z!Readable' <=> Z!Readable
  OBVIOUS
<1>1. \A i, j : Z!Units(i, j)' = Z!Units(i, j)
  BY DEF Z!Units, Z!ContentTo, Z!UnitsAt
<1>2. \A i, j : Z!Blocks(i, j)' = Z!Blocks(i, j)
  BY DEF Z!Blocks
<1>3. {h \in 1..Len(file) : Z!IsHeader(h)}' = {h \in 1..Len(file) : Z!IsHeader(h)}
  BY DEF Z!IsHeader
<1> QED BY <1>1, <1>2, <1>3 DEF Z!Readable, Z!IsHeader, Z!InFrame

(* The token that is popped next. *)
LEMMA TokenTypes ==
  ASSUME ZstdInv, Z!More
  PROVE  /\ file \in Seq(Token) /\ Z!token \in Token /\ Z!token = file[read + 1]
         /\ Len(file) \in Nat /\ read \in 0..(Len(file) - 1) /\ read + 1 \in 1..Len(file)
         /\ Z!token.t = "header" => Z!token.checksum \in BOOLEAN
         /\ Z!token.t = "block" => Z!token.final \in BOOLEAN /\ Z!token.size \in Nat
         /\ Z!token.t = "data" => [k |-> Z!token.k, n |-> Z!token.n] \in Words
         /\ Z!UnitsAt(read + 1) = IF Z!token.t = "data"
                                  THEN UnitsOf([k |-> Z!token.k, n |-> Z!token.n]) ELSE <<>>
<1>1. file \in Seq(Token)
  BY TokensAssumption DEF ZstdInv
<1>2. Len(file) \in Nat /\ read \in 0..(Len(file) - 1) /\ read + 1 \in 1..Len(file)
  BY <1>1 DEF ZstdInv, Z!More
<1>3. Z!token = file[read + 1] /\ Z!token \in Token
  BY <1>1, <1>2 DEF Z!token
<1>4. /\ Z!token.t = "header" => Z!token.checksum \in BOOLEAN
      /\ Z!token.t = "block" => Z!token.final \in BOOLEAN /\ Z!token.size \in Nat
      /\ Z!token.t = "data" => Z!token.k \in Nat /\ Z!token.n \in Nat
  BY <1>3 DEF Token
<1>5. Z!UnitsAt(read + 1) = IF Z!token.t = "data"
                            THEN UnitsOf([k |-> Z!token.k, n |-> Z!token.n]) ELSE <<>>
  BY <1>3 DEF Z!UnitsAt, UnitsOf
<1> QED BY <1>1, <1>2, <1>3, <1>4, <1>5 DEF Words

(* The content and the frames of a file depend on the file alone. *)
LEMMA ContentUnchanged ==
  ASSUME file' = file
  PROVE  /\ \A p : Z!ContentTo(p)' = Z!ContentTo(p)
         /\ Z!Content' = Z!Content
         /\ \A h, j : Z!InFrame(h, j)' <=> Z!InFrame(h, j)
         /\ \A h : Z!IsHeader(h)' <=> Z!IsHeader(h)
BY DEF Z!Content, Z!ContentTo, Z!UnitsAt, Z!InFrame, Z!IsHeader

(* What every pop of a token does, and what it leaves alone. *)
LEMMA ZstdPops ==
  ASSUME DeviceTypes, ZstdInv, Z!Pop, writer \notin {"end", "write", "read"},
         writer' \notin {"end", "write", "read"}, frame' \in FrameRecords
  PROVE  /\ Z!More /\ file' = file /\ file' \in ZstdFiles /\ read' = read + 1 /\ read' \in 0..Len(file')
         /\ last' \in BOOLEAN /\ (last' => read' = Len(file')) /\ LastIsLast(writer = "end")'
         /\ Out' = Out /\ (\E p \in 0..Len(file) : Out = Z!ContentTo(p))'
         /\ Idle' /\ DeviceTypes' /\ Out \in Seq(Units)
         /\ Z!ContentTo(read)' = Z!ContentTo(read) \o Z!UnitsAt(read + 1)
         /\ Z!ContentTo(read) \in Seq(Units) /\ Z!UnitsAt(read + 1) \in Seq(Units)
<1>1. /\ Z!More /\ file' = file /\ read' = read + 1 /\ (last' <=> read' = Len(file)) /\ last' \in BOOLEAN
      /\ UNCHANGED <<restored, mm2s, inStream, engine, outStream, s2mm, status>>
  BY DEF Z!Pop, Z!device
<1>2. /\ file \in Seq(Token) /\ Len(file) \in Nat /\ read \in 0..(Len(file) - 1)
      /\ read + 1 \in 1..Len(file) /\ read \in 0..Len(file)
  BY <1>1, TokenTypes
<1>3. read' \in 0..Len(file') /\ (last' => read' = Len(file'))
  BY <1>1, <1>2
<1>4. LastIsLast(writer = "end")'
  BY <1>1 DEF ZstdInv, LastIsLast
<1>5. Out' = Out /\ Out \in Seq(Units)
  BY <1>1, RestoredTypes DEF Out
<1>6. (\E p \in 0..Len(file) : Out = Z!ContentTo(p))'
  BY <1>1, <1>5, ContentUnchanged DEF ZstdInv
<1>7. Idle' /\ DeviceTypes'
  BY <1>1 DEF ZstdInv, Idle, DeviceTypes
<1>8. Z!ContentTo(read)' = Z!ContentTo(read) \o Z!UnitsAt(read + 1)
  <2>1. Z!ContentTo(read)' = Z!ContentTo(read + 1)
    BY <1>1 DEF Z!ContentTo, Z!UnitsAt
  <2>2. Z!ContentTo(read + 1) = Z!ContentTo(read) \o Z!UnitsAt(read + 1)
    BY <1>2, ContentNext
  <2> QED BY <2>1, <2>2
<1>9. Z!ContentTo(read) \in Seq(Units) /\ Z!UnitsAt(read + 1) \in Seq(Units)
  BY <1>2, ContentTypes, TokenUnits
<1>10. file' \in ZstdFiles
  BY <1>1 DEF ZstdInv
<1> QED BY <1>1, <1>3, <1>4, <1>5, <1>6, <1>7, <1>8, <1>9, <1>10

(* A pop within a frame: what the token contains is added to the blocks. *)
LEMMA FrameGoesOn ==
  ASSUME DeviceTypes, ZstdInv, Z!Pop, writer \in InTheFrame \ {"write", "read"},
         writer' \in InTheFrame \ {"write", "read"}, frame' \in FrameRecords,
         Z!token.t # "header",
         FlatTo(frame'.blocks, Len(frame'.blocks)) =
           FlatTo(frame.blocks, Len(frame.blocks)) \o Z!UnitsAt(read + 1)
  PROVE  AtFrame'
<1>1. AtFrame
  BY DEF ZstdInv
<1>2. PICK h \in 1..read :
        /\ Z!IsHeader(h) /\ Z!InFrame(h, read) /\ Out = Z!ContentTo(h)
        /\ Z!ContentTo(read) = Z!ContentTo(h) \o FlatTo(frame.blocks, Len(frame.blocks))
  BY <1>1 DEF AtFrame
<1>3. writer \notin {"end", "write", "read"} /\ writer' \notin {"end", "write", "read"}
  BY DEF InTheFrame
<1>4. /\ Z!More /\ file' = file /\ read' = read + 1 /\ Out' = Out
      /\ Z!ContentTo(read)' = Z!ContentTo(read) \o Z!UnitsAt(read + 1)
      /\ Z!UnitsAt(read + 1) \in Seq(Units)
  BY <1>3, ZstdPops
<1>5. /\ file \in Seq(Token) /\ Len(file) \in Nat /\ read \in 0..(Len(file) - 1)
      /\ Z!token = file[read + 1]
  BY <1>4, TokenTypes
<1>6. h \in 1..read' /\ h \in 0..Len(file) /\ h \in Nat
  BY <1>4, <1>5
<1>7. Z!IsHeader(h)' /\ Out' = Z!ContentTo(h)'
  BY <1>2, <1>4, ContentUnchanged
<1>8. Z!InFrame(h, read)'
  <2>1. ~Z!IsHeader(read + 1)
    BY <1>5 DEF Z!IsHeader
  <2>2. \A g \in (h + 1)..(read + 1) : g \in (h + 1)..read \/ g = read + 1
    BY <1>5, <1>6
  <2>3. Z!InFrame(h, read + 1)
    BY <1>2, <2>1, <2>2 DEF Z!InFrame
  <2> QED BY <1>4, <2>3 DEF Z!InFrame, Z!IsHeader
<1>9. Z!ContentTo(read)' = Z!ContentTo(h)' \o FlatTo(frame'.blocks, Len(frame'.blocks))
  <2>1. Z!ContentTo(h) \in Seq(Units)
    BY <1>5, <1>6, ContentTypes
  <2>2. frame.blocks \in Seq(Words) /\ Len(frame.blocks) \in 0..Len(frame.blocks)
    BY DEF ZstdInv, FrameRecords
  <2>3. FlatTo(frame.blocks, Len(frame.blocks)) \in Seq(Units)
    BY <2>2, FlatTypes
  <2>4. (Z!ContentTo(h) \o FlatTo(frame.blocks, Len(frame.blocks))) \o Z!UnitsAt(read + 1) =
          Z!ContentTo(h) \o (FlatTo(frame.blocks, Len(frame.blocks)) \o Z!UnitsAt(read + 1))
    <3>1. \A a, b, c \in Seq(Units) : (a \o b) \o c = a \o (b \o c)
      BY Associates
    <3>2. Z!UnitsAt(read + 1) \in Seq(Units)
      BY <1>4
    <3> QED BY Zenon, <2>1, <2>3, <3>1, <3>2
  <2>5. Z!ContentTo(h)' = Z!ContentTo(h)
    BY <1>4, ContentUnchanged
  <2> QED BY <1>2, <1>4, <2>4, <2>5
<1>10. FlatTo(frame.blocks, Len(frame.blocks))' = FlatTo(frame'.blocks, Len(frame'.blocks))
  BY DEF FlatTo, UnitsOf
<1> QED BY <1>6, <1>7, <1>8, <1>9, <1>10 DEF AtFrame

(* A magic number is popped. *)
LEMMA ZstdMagic ==
  ASSUME DeviceTypes, ZstdInv, Z!Magic
  PROVE  ZstdInv' /\ DeviceTypes'
<1>a. /\ writer = "magic" /\ Z!Pop /\ frame' = Z!NoFrame
      /\ writer' = IF Z!token.t = "magic" THEN "header"
                   ELSE IF Z!token.t = "skippable" THEN "exit" ELSE "lost"
  BY DEF Z!Magic
<1>1. frame' \in FrameRecords /\ frame'.blocks = <<>>
  BY <1>a DEF FrameRecords, Z!NoFrame
<1>2. /\ Z!More /\ file' = file /\ file' \in ZstdFiles /\ read' = read + 1 /\ read' \in 0..Len(file')
      /\ last' \in BOOLEAN /\ (last' => read' = Len(file')) /\ LastIsLast(writer = "end")'
      /\ Out' = Out /\ (\E p \in 0..Len(file) : Out = Z!ContentTo(p))'
      /\ Idle' /\ DeviceTypes'
      /\ Z!ContentTo(read)' = Z!ContentTo(read) \o Z!UnitsAt(read + 1)
      /\ Z!ContentTo(read) \in Seq(Units)
  BY <1>a, <1>1, ZstdPops
<1>3. writer' = "header" => Out' = Z!ContentTo(read)'
  <2> SUFFICES ASSUME writer' = "header" PROVE Out' = Z!ContentTo(read)'
    OBVIOUS
  <2>1. Z!UnitsAt(read + 1) = <<>>
    BY <1>a, <1>2, TokenTypes
  <2>2. Out = Z!ContentTo(read)
    BY <1>a DEF ZstdInv
  <2> QED BY <1>2, <2>1, <2>2
<1> QED BY <1>a, <1>1, <1>2, <1>3 DEF ZstdInv, InTheFrame

(* A frame's header is popped: the frame begins, with no block collected. *)
LEMMA ZstdHeader ==
  ASSUME DeviceTypes, ZstdInv, Z!Header
  PROVE  ZstdInv' /\ DeviceTypes'
<1>a. /\ writer = "header" /\ Z!Pop
      /\ writer' = IF Z!token.t = "header" /\ Z!token.dictionary \in {0, 1} THEN "block" ELSE "lost"
      /\ frame' = IF Z!token.t = "header" THEN [frame EXCEPT !.checksum = Z!token.checksum] ELSE frame
  BY DEF Z!Header
<1>b. frame \in FrameRecords /\ frame.blocks = <<>>
  BY <1>a DEF ZstdInv
<1>1. Z!More
  BY <1>a DEF Z!Pop
<1>2. frame' \in FrameRecords /\ frame'.blocks = <<>>
  <2>1. Z!token.t = "header" => Z!token.checksum \in BOOLEAN
    BY <1>1, TokenTypes
  <2> QED BY <1>a, <1>b, <2>1 DEF FrameRecords
<1>3. /\ Z!More /\ file' = file /\ file' \in ZstdFiles /\ read' = read + 1 /\ read' \in 0..Len(file')
      /\ last' \in BOOLEAN /\ (last' => read' = Len(file')) /\ LastIsLast(writer = "end")'
      /\ Out' = Out /\ (\E p \in 0..Len(file) : Out = Z!ContentTo(p))'
      /\ Idle' /\ DeviceTypes'
      /\ Z!ContentTo(read)' = Z!ContentTo(read) \o Z!UnitsAt(read + 1)
      /\ Z!ContentTo(read) \in Seq(Units)
  BY <1>a, <1>2, ZstdPops
<1>4. writer' = "block" => AtFrame'
  <2> SUFFICES ASSUME writer' = "block" PROVE AtFrame'
    OBVIOUS
  <2>1. /\ Z!token.t = "header" /\ Z!UnitsAt(read + 1) = <<>> /\ Z!token = file[read + 1]
        /\ read \in 0..(Len(file) - 1) /\ Len(file) \in Nat
    BY <1>1, <1>a, TokenTypes
  <2>2. Out = Z!ContentTo(read)
    BY <1>a DEF ZstdInv
  <2>3. Out' = Z!ContentTo(read)'
    BY <1>3, <2>1, <2>2
  <2>4. read' \in 1..read'
    BY <1>3, <2>1
  <2>5. Z!IsHeader(read)'
    BY <1>3, <2>1 DEF Z!IsHeader
  <2>6. Z!InFrame(read, read)'
    <3>1. (read' + 1)..read' = {}
      BY <2>4
    <3> QED BY <3>1 DEF Z!InFrame
  <2>7. FlatTo(frame.blocks, Len(frame.blocks))' = <<>>
    <3>1. FlatTo(<<>>, Len(<<>>)) = <<>>
      BY FlatNone
    <3> QED BY <1>2, <3>1 DEF FlatTo, UnitsOf
  <2>8. Z!ContentTo(read)' = Z!ContentTo(read)' \o <<>>
    <3>1. Z!ContentTo(read)' = Z!ContentTo(read)
      BY <1>3, <2>1
    <3> QED BY <1>3, <3>1
  <2> QED BY <2>3, <2>4, <2>5, <2>6, <2>7, <2>8 DEF AtFrame
<1> QED BY <1>a, <1>2, <1>3, <1>4 DEF ZstdInv, InTheFrame

(* A block's header is popped. *)
LEMMA ZstdBlockHeader ==
  ASSUME DeviceTypes, ZstdInv, Z!BlockHeader
  PROVE  ZstdInv' /\ DeviceTypes'
<1>a. /\ writer = "block" /\ Z!Pop
      /\ writer' = IF Z!token.t = "block" THEN "payload" ELSE "lost"
      /\ frame' = IF Z!token.t = "block"
                  THEN [frame EXCEPT !.lastBlock = Z!token.final, !.size = Z!token.size] ELSE frame
  BY DEF Z!BlockHeader
<1>b. frame \in FrameRecords /\ frame.blocks \in Seq(Words) /\ Len(frame.blocks) \in 0..Len(frame.blocks)
  BY DEF ZstdInv, FrameRecords
<1>1. Z!More
  BY <1>a DEF Z!Pop
<1>2. frame' \in FrameRecords /\ frame'.blocks = frame.blocks
  <2>1. Z!token.t = "block" => Z!token.final \in BOOLEAN /\ Z!token.size \in Nat
    BY <1>1, TokenTypes
  <2> QED BY <1>a, <1>b, <2>1 DEF FrameRecords
<1>3. /\ Z!More /\ file' = file /\ file' \in ZstdFiles /\ read' = read + 1 /\ read' \in 0..Len(file')
      /\ last' \in BOOLEAN /\ (last' => read' = Len(file')) /\ LastIsLast(writer = "end")'
      /\ Out' = Out /\ (\E p \in 0..Len(file) : Out = Z!ContentTo(p))'
      /\ Idle' /\ DeviceTypes'
  BY <1>a, <1>2, ZstdPops
<1>4. writer' = "payload" => AtFrame'
  <2> SUFFICES ASSUME writer' = "payload" PROVE AtFrame'
    OBVIOUS
  <2>1. Z!token.t # "header" /\ Z!UnitsAt(read + 1) = <<>>
    BY <1>1, <1>a, TokenTypes
  <2>2. FlatTo(frame.blocks, Len(frame.blocks)) \in Seq(Units)
    BY <1>b, FlatTypes
  <2>3. FlatTo(frame'.blocks, Len(frame'.blocks)) =
          FlatTo(frame.blocks, Len(frame.blocks)) \o Z!UnitsAt(read + 1)
    BY <1>2, <2>1, <2>2
  <2>4. writer \in InTheFrame \ {"write", "read"} /\ writer' \in InTheFrame \ {"write", "read"}
    BY <1>a DEF InTheFrame
  <2> QED BY <1>a, <1>2, <2>1, <2>3, <2>4, FrameGoesOn
<1> QED BY <1>a, <1>2, <1>3, <1>4 DEF ZstdInv, InTheFrame

(* A block's bytes are popped and collected. *)
LEMMA ZstdPayload ==
  ASSUME DeviceTypes, ZstdInv, Z!Payload
  PROVE  ZstdInv' /\ DeviceTypes'
<1> DEFINE w == [k |-> Z!token.k, n |-> Z!token.n]
<1>a. /\ writer = "payload" /\ Z!Pop
      /\ writer' \in {"block", "checksum", "start", "lost"}
      /\ writer' # "lost" => Z!token.t = "data"
      /\ frame' = IF Z!token.t = "data" THEN [frame EXCEPT !.blocks = Append(@, w)] ELSE frame
  BY DEF Z!Payload, Z!AfterBlock
<1>b. frame \in FrameRecords /\ frame.blocks \in Seq(Words)
  BY DEF ZstdInv, FrameRecords
<1>1. Z!More
  BY <1>a DEF Z!Pop
<1>t. Z!token.t = "data" => w \in Words /\ Z!UnitsAt(read + 1) = UnitsOf(w)
  BY <1>1, TokenTypes
<1> HIDE DEF w
<1>2. frame' \in FrameRecords /\ (Z!token.t = "data" => frame'.blocks = Append(frame.blocks, w))
  <2>1. Z!token.t = "data" => Append(frame.blocks, w) \in Seq(Words)
    BY <1>b, <1>t
  <2> QED BY <1>a, <1>b, <2>1 DEF FrameRecords
<1>3. /\ Z!More /\ file' = file /\ file' \in ZstdFiles /\ read' = read + 1 /\ read' \in 0..Len(file')
      /\ last' \in BOOLEAN /\ (last' => read' = Len(file')) /\ LastIsLast(writer = "end")'
      /\ Out' = Out /\ (\E p \in 0..Len(file) : Out = Z!ContentTo(p))'
      /\ Idle' /\ DeviceTypes'
  BY <1>a, <1>2, ZstdPops
<1>4. writer' # "lost" => AtFrame' /\ frame'.blocks # <<>>
  <2> SUFFICES ASSUME writer' # "lost" PROVE AtFrame' /\ frame'.blocks # <<>>
    OBVIOUS
  <2>1. /\ Z!token.t # "header" /\ w \in Words /\ Z!UnitsAt(read + 1) = UnitsOf(w)
        /\ frame'.blocks = Append(frame.blocks, w)
    BY <1>a, <1>t, <1>2
  <2>2. FlatTo(frame'.blocks, Len(frame'.blocks)) =
          FlatTo(frame.blocks, Len(frame.blocks)) \o Z!UnitsAt(read + 1)
    BY <1>b, <2>1, FlatAppend
  <2>3. writer \in InTheFrame \ {"write", "read"} /\ writer' \in InTheFrame \ {"write", "read"}
    BY <1>a DEF InTheFrame
  <2>4. AtFrame'
    BY <1>a, <1>2, <2>1, <2>2, <2>3, FrameGoesOn
  <2>5. frame'.blocks # <<>>
    BY <1>b, <2>1
  <2> QED BY <2>4, <2>5
<1> QED BY <1>a, <1>2, <1>3, <1>4 DEF ZstdInv, InTheFrame

(* A block of no bytes is collected; nothing is popped. *)
LEMMA ZstdEmptyPayload ==
  ASSUME DeviceTypes, ZstdInv, Z!EmptyPayload
  PROVE  ZstdInv' /\ DeviceTypes'
<1> DEFINE w == [k |-> 0, n |-> 0]
<1>a. /\ writer = "payload" /\ last' = FALSE
      /\ writer' \in {"block", "checksum", "start"}
      /\ frame' = [frame EXCEPT !.blocks = Append(@, w)]
      /\ UNCHANGED <<file, read, restored, mm2s, inStream, engine, outStream, s2mm, status>>
  BY DEF Z!EmptyPayload, Z!AfterBlock, Z!device
<1>b. frame \in FrameRecords /\ frame.blocks \in Seq(Words) /\ Len(frame.blocks) \in 0..Len(frame.blocks)
  BY DEF ZstdInv, FrameRecords
<1>t. w \in Words /\ UnitsOf(w) = <<>>
  BY DEF Words, UnitsOf
<1> HIDE DEF w
<1>2. frame' \in FrameRecords /\ frame'.blocks = Append(frame.blocks, w) /\ frame'.blocks # <<>>
  <2>1. Append(frame.blocks, w) \in Seq(Words) /\ Append(frame.blocks, w) # <<>>
    BY <1>b, <1>t
  <2> QED BY <1>a, <1>b, <2>1 DEF FrameRecords
<1>3. FlatTo(frame'.blocks, Len(frame'.blocks)) = FlatTo(frame.blocks, Len(frame.blocks))
  <2>1. FlatTo(frame.blocks, Len(frame.blocks)) \in Seq(Units)
    BY <1>b, FlatTypes
  <2>2. FlatTo(frame'.blocks, Len(frame'.blocks)) =
          FlatTo(frame.blocks, Len(frame.blocks)) \o UnitsOf(w)
    BY <1>b, <1>t, <1>2, FlatAppend
  <2> QED BY <1>t, <2>1, <2>2
<1>4. AtFrame'
  <2>1. AtFrame
    BY <1>a DEF ZstdInv, InTheFrame
  <2>2. Out' = Out
    BY <1>a DEF Out
  <2>3. FlatTo(frame.blocks, Len(frame.blocks))' = FlatTo(frame'.blocks, Len(frame'.blocks))
    BY DEF FlatTo, UnitsOf
  <2>4. PICK h \in 1..read :
          /\ Z!IsHeader(h) /\ Z!InFrame(h, read) /\ Out = Z!ContentTo(h)
          /\ Z!ContentTo(read) = Z!ContentTo(h) \o FlatTo(frame.blocks, Len(frame.blocks))
    BY <2>1 DEF AtFrame
  <2>5. Z!IsHeader(h)' /\ Z!InFrame(h, read)'
    BY <1>a, <2>4 DEF Z!IsHeader, Z!InFrame
  <2>6. Z!ContentTo(read)' = Z!ContentTo(read) /\ Z!ContentTo(h)' = Z!ContentTo(h)
    BY <1>a DEF Z!ContentTo, Z!UnitsAt
  <2> QED BY <1>a, <1>3, <2>2, <2>3, <2>4, <2>5, <2>6 DEF AtFrame
<1>5. /\ (\E p \in 0..Len(file) : Out = Z!ContentTo(p))' /\ LastIsLast(writer = "end")'
      /\ Idle' /\ DeviceTypes'
  <2>1. (\E p \in 0..Len(file) : Out = Z!ContentTo(p))'
    BY <1>a, ContentUnchanged DEF ZstdInv, Out
  <2>2. LastIsLast(writer = "end")'
    BY <1>a DEF ZstdInv, LastIsLast
  <2>3. Idle' /\ DeviceTypes'
    BY <1>a DEF ZstdInv, Idle, DeviceTypes
  <2> QED BY <2>1, <2>2, <2>3
<1> QED BY <1>a, <1>2, <1>4, <1>5 DEF ZstdInv, InTheFrame

(* A frame's checksum is popped. *)
LEMMA ZstdChecksum ==
  ASSUME DeviceTypes, ZstdInv, Z!Checksum
  PROVE  ZstdInv' /\ DeviceTypes'
<1>a. /\ writer = "checksum" /\ Z!Pop /\ frame' = frame
      /\ writer' = IF Z!token.t = "sum" THEN "start" ELSE "lost"
  BY DEF Z!Checksum
<1>b. /\ frame \in FrameRecords /\ frame.blocks \in Seq(Words) /\ Len(frame.blocks) \in 0..Len(frame.blocks)
      /\ frame.blocks # <<>>
  BY <1>a DEF ZstdInv, FrameRecords
<1>1. Z!More
  BY <1>a DEF Z!Pop
<1>3. /\ Z!More /\ file' = file /\ file' \in ZstdFiles /\ read' = read + 1 /\ read' \in 0..Len(file')
      /\ last' \in BOOLEAN /\ (last' => read' = Len(file')) /\ LastIsLast(writer = "end")'
      /\ Out' = Out /\ (\E p \in 0..Len(file) : Out = Z!ContentTo(p))'
      /\ Idle' /\ DeviceTypes'
  BY <1>a, <1>b, ZstdPops
<1>4. writer' = "start" => AtFrame'
  <2> SUFFICES ASSUME writer' = "start" PROVE AtFrame'
    OBVIOUS
  <2>1. Z!token.t # "header" /\ Z!UnitsAt(read + 1) = <<>>
    BY <1>1, <1>a, TokenTypes
  <2>2. FlatTo(frame.blocks, Len(frame.blocks)) \in Seq(Units)
    BY <1>b, FlatTypes
  <2>3. FlatTo(frame'.blocks, Len(frame'.blocks)) =
          FlatTo(frame.blocks, Len(frame.blocks)) \o Z!UnitsAt(read + 1)
    BY <1>a, <2>1, <2>2
  <2>4. writer \in InTheFrame \ {"write", "read"} /\ writer' \in InTheFrame \ {"write", "read"}
    BY <1>a DEF InTheFrame
  <2>5. frame' \in FrameRecords
    BY <1>a, <1>b
  <2> QED BY <1>a, <2>1, <2>3, <2>4, <2>5, FrameGoesOn
<1> QED BY <1>a, <1>b, <1>3, <1>4 DEF ZstdInv, InTheFrame

(* The device is done: everything has arrived, and nothing is on its way. *)
LEMMA FlowEnds ==
  ASSUME NEW ws \in Seq(Words), NEW sent, NEW D \in Seq(Units), NEW w \in Seq(OutWords),
         NEW mw \in Seq(Words), NEW in \in Seq(InWords), Flow(ws, sent, D, mw, in, w, 1)
  PROVE  D = FlatTo(ws, Len(ws)) /\ mw = <<>> /\ in = <<>> /\ w = <<>>
<1> DEFINE d == Decoded(sent, mw, in)
<1>1. /\ Len(ws) \in Nat /\ Len(mw) \in Nat /\ Len(in) \in Nat /\ sent \in Nat
      /\ sent <= Len(ws) /\ d \in 0..Len(ws) /\ d + Len(in) + Len(mw) = sent
  BY WordsFlow
<1>2. Outbound(FlatTo(ws, d), d, Len(ws), D, w, 1)
  BY DEF Flow
<1>3. FlatTo(ws, d) \in Seq(Units)
  BY <1>1, FlatTypes
<1> HIDE DEF d
<1>4. d = Len(ws) /\ w = <<>>
  BY <1>2 DEF Outbound
<1>5. Len(mw) <= 0 /\ Len(in) <= 0
  BY <1>1, <1>4
<1>6. mw = <<>> /\ in = <<>>
  BY <1>5
<1>7. Len(D) = Len(FlatTo(ws, d)) /\ \A j \in 1..Len(D) : D[j] = FlatTo(ws, d)[j]
  <2>1. /\ Len(D) <= Len(FlatTo(ws, d)) /\ \A j \in 1..Len(D) : D[j] = FlatTo(ws, d)[j]
        /\ \/ Len(D) + Len(w) = Len(FlatTo(ws, d))
           \/ Len(D) + Len(w) = Len(FlatTo(ws, d)) + 1
    BY <1>2 DEF Outbound
  <2>2. Len(w) = 0 /\ Len(D) \in Nat /\ Len(FlatTo(ws, d)) \in Nat
    BY <1>3, <1>4
  <2> QED BY <2>1, <2>2
<1>8. D = FlatTo(ws, d)
  BY <1>3, <1>7, SameElements
<1> QED BY <1>4, <1>6, <1>8

(* A word that is not flagged has a unit, and the content is longer than what has arrived. *)
LEMMA FlowUnflagged ==
  ASSUME NEW ws \in Seq(Words), NEW sent, NEW D \in Seq(Units), NEW w \in Seq(OutWords),
         NEW mw \in Seq(Words), NEW in \in Seq(InWords), Flow(ws, sent, D, mw, in, w, 0), w # <<>>,
         ~Head(w).last
  PROVE  Head(w).x # G!NoUnit /\ Len(D) + 1 <= Len(FlatTo(ws, Len(ws)))
<1> DEFINE d == Decoded(sent, mw, in)
           L == FlatTo(ws, d)
<1>1. Len(ws) \in Nat /\ d \in 0..Len(ws) /\ Len(ws) \in d..Len(ws)
  <2>1. Len(ws) \in Nat /\ d \in 0..Len(ws)
    BY WordsFlow
  <2> QED BY <2>1
<1>2. Outbound(L, d, Len(ws), D, w, 0)
  BY DEF Flow
<1>3. L \in Seq(Units)
  BY <1>1, FlatTypes
<1>4. Len(L) <= Len(FlatTo(ws, Len(ws)))
  BY <1>1, FlatGrows DEF Begins
<1>5. FlatTo(ws, Len(ws)) \in Seq(Units)
  <2>1. Len(ws) \in 0..Len(ws)
    BY <1>1
  <2> QED BY <2>1, FlatTypes
<1> HIDE DEF L, d
<1>6. Len(w) \in Nat /\ Len(w) > 0 /\ Head(w) = w[1] /\ 1 \in 1..Len(w)
  OBVIOUS
<1>7. /\ Len(D) + Len(w) = Len(L) \/ (d = Len(ws) /\ Len(D) + Len(w) = Len(L) + 1)
      /\ w[1].x = IF Len(D) + 1 <= Len(L) THEN L[Len(D) + 1] ELSE G!NoUnit
      /\ w[1].last <=> d = Len(ws) /\ 1 = Len(w)
  BY <1>2, <1>6 DEF Outbound
<1>8. Len(L) \in Nat /\ Len(D) \in Nat /\ Len(FlatTo(ws, Len(ws))) \in Nat
  BY <1>3, <1>5
<1>9. Len(D) + 1 <= Len(L)
  <2>1. ~(d = Len(ws) /\ Len(w) <= 1)
    <3>1. \A q \in Nat : q > 0 /\ q <= 1 => 1 = q
      OBVIOUS
    <3>2. ~(d = Len(ws) /\ 1 = Len(w))
      BY Zenon, <1>6, <1>7
    <3> QED BY Zenon, <1>6, <3>1, <3>2
  <2>2. CASE Len(D) + Len(w) = Len(L)
    BY <1>6, <1>8, <2>2
  <2>3. CASE d = Len(ws) /\ Len(D) + Len(w) = Len(L) + 1
    BY <1>6, <1>8, <2>1, <2>3
  <2> QED BY <1>7, <2>2, <2>3
<1>10. Head(w).x # G!NoUnit
  <2>1. Head(w).x = L[Len(D) + 1]
    BY <1>6, <1>7, <1>9
  <2>2. Len(D) + 1 \in 1..Len(L)
    BY <1>8, <1>9
  <2>3. L[Len(D) + 1] \in Units
    BY <1>3, <2>2
  <2> QED BY <2>1, <2>3, NoUnitIsNone
<1>11. Len(D) + 1 <= Len(FlatTo(ws, Len(ws)))
  BY <1>4, <1>8, <1>9
<1> QED BY <1>10, <1>11

(* What is known of the frame depends on what has been popped and pushed alone. *)
LEMMA FrameStays ==
  ASSUME UNCHANGED <<file, read, frame, restored>>
  PROVE  /\ AtFrame' <=> AtFrame
         /\ Out' = Out /\ (\E p \in 0..Len(file) : Out = Z!ContentTo(p))' <=>
                          (\E p \in 0..Len(file) : Out = Z!ContentTo(p))
         /\ \A p : Z!ContentTo(p)' = Z!ContentTo(p)
<1>1. /\ \A p : Z!ContentTo(p)' = Z!ContentTo(p)
      /\ \A h, j : Z!InFrame(h, j)' <=> Z!InFrame(h, j)
      /\ \A h : Z!IsHeader(h)' <=> Z!IsHeader(h)
  BY ContentUnchanged
<1>2. Out' = Out
  BY DEF Out
<1>3. FlatTo(frame.blocks, Len(frame.blocks))' = FlatTo(frame.blocks, Len(frame.blocks))
  BY DEF FlatTo, UnitsOf
<1>4. AtFrame' <=> AtFrame
  BY <1>1, <1>2, <1>3 DEF AtFrame, Z!ContentTo, Z!UnitsAt
<1>5. (\E p \in 0..Len(file) : Out = Z!ContentTo(p))' <=> (\E p \in 0..Len(file) : Out = Z!ContentTo(p))
  BY <1>1, <1>2
<1> QED BY <1>1, <1>2, <1>4, <1>5

(* Both kernels are started on the frame. *)
LEMMA ZstdStartBoth ==
  ASSUME DeviceTypes, ZstdInv, Z!StartBoth
  PROVE  ZstdInv' /\ DeviceTypes'
<1>a. /\ writer = "start" /\ writer' = "write" /\ status' = 0
      /\ s2mm' = [runs |-> TRUE, read |-> 0, units |-> <<>>]
      /\ mm2s' = [words |-> frame.blocks, last |-> TRUE]
      /\ UNCHANGED <<file, read, last, frame, restored, inStream, engine, outStream>>
  BY DEF Z!StartBoth, Z!StartS2MM, Z!StartMM2S, Z!Status
<1>b. /\ frame \in FrameRecords /\ frame.blocks \in Seq(Words) /\ frame.blocks # <<>>
      /\ AtFrame /\ inStream = <<>> /\ engine = <<>> /\ outStream = <<>>
  BY <1>a DEF ZstdInv, FrameRecords, InTheFrame, Idle
<1>1. AtFrame' /\ (\E p \in 0..Len(file) : Out = Z!ContentTo(p))'
  BY <1>a, <1>b, FrameStays DEF ZstdInv
<1>2. Flow(frame.blocks, Len(frame.blocks), <<>>, frame.blocks, <<>>, <<>>, 0)
  BY <1>b, FlowBegins
<1>3. (outStream \o engine)' = <<>>
  BY <1>a, <1>b
<1>4. Flow(frame.blocks, Len(frame.blocks), s2mm.units, mm2s.words, inStream,
           outStream \o engine, status)'
  BY <1>a, <1>b, <1>2, <1>3
<1>5. LastIsLast(writer = "end")'
  BY <1>a DEF ZstdInv, LastIsLast
<1>6. DeviceTypes'
  BY <1>a, <1>b DEF DeviceTypes
<1>7. s2mm'.read = Len(s2mm'.units)
  BY <1>a
<1>8. ZstdInv'
  BY <1>a, <1>b, <1>1, <1>4, <1>5, <1>7 DEF ZstdInv, InTheFrame
<1> QED BY <1>6, <1>8

(* The thread has waited for xilMM2S. *)
LEMMA ZstdFinishWrite ==
  ASSUME DeviceTypes, ZstdInv, Z!FinishWrite
  PROVE  ZstdInv' /\ DeviceTypes'
<1>a. /\ writer = "write" /\ writer' = "read" /\ mm2s.words = <<>>
      /\ UNCHANGED <<file, read, last, frame, restored, mm2s, inStream, engine, outStream, s2mm, status>>
  BY DEF Z!FinishWrite, Z!MM2SDone, Z!device
<1>b. AtFrame
  BY <1>a DEF ZstdInv, InTheFrame
<1>1. AtFrame' /\ (\E p \in 0..Len(file) : Out = Z!ContentTo(p))'
  BY <1>a, <1>b, FrameStays DEF ZstdInv
<1>2. Flow(frame.blocks, Len(frame.blocks), s2mm.units, mm2s.words, inStream,
           outStream \o engine, status)'
  BY <1>a DEF ZstdInv
<1>3. LastIsLast(writer = "end")'
  BY <1>a DEF ZstdInv, LastIsLast
<1>4. DeviceTypes'
  BY <1>a DEF DeviceTypes
<1>5. ZstdInv'
  BY <1>a, <1>1, <1>2, <1>3 DEF ZstdInv, InTheFrame
<1> QED BY <1>4, <1>5

(* The thread pushes what xilS2MM has collected, which is the whole frame's content. *)
LEMMA ZstdPush ==
  ASSUME DeviceTypes, ZstdInv, Z!Push
  PROVE  ZstdInv' /\ DeviceTypes'
<1> DEFINE item == [units |-> s2mm.units, last |-> last]
<1>a. /\ writer = "read" /\ ~s2mm.runs /\ restored' = Append(restored, item)
      /\ writer' = IF last THEN "end" ELSE "magic"
      /\ UNCHANGED <<file, read, last, frame, mm2s, inStream, engine, outStream, s2mm, status>>
  BY DEF Z!Push, Z!S2MMDone, Z!device
<1>b. /\ frame \in FrameRecords /\ frame.blocks \in Seq(Words) /\ last \in BOOLEAN /\ AtFrame
      /\ (last => read = Len(file)) /\ file \in Seq(Token) /\ Len(file) \in Nat
      /\ read \in 0..Len(file) /\ (s2mm.runs <=> status = 0) /\ LastIsLast(FALSE)
      /\ Flow(frame.blocks, Len(frame.blocks), s2mm.units, mm2s.words, inStream,
              outStream \o engine, status)
  BY <1>a, TokensAssumption DEF ZstdInv, FrameRecords, InTheFrame, LastIsLast
<1>c. /\ item \in Item /\ item.units = s2mm.units /\ (item.last <=> writer' = "end")
      /\ s2mm.units \in Seq(Units) /\ Out \in Seq(Units) /\ outStream \o engine \in Seq(OutWords)
      /\ mm2s.words \in Seq(Words) /\ inStream \in Seq(InWords)
  BY <1>a, <1>b, RestoredTypes, OutTypes DEF Item, DeviceTypes
<1> HIDE DEF item
<1>1. status = 1
  BY <1>a, <1>b DEF Flow, Outbound
<1>2. /\ s2mm.units = FlatTo(frame.blocks, Len(frame.blocks))
      /\ mm2s.words = <<>> /\ inStream = <<>> /\ outStream \o engine = <<>>
  <2>1. Flow(frame.blocks, Len(frame.blocks), s2mm.units, mm2s.words, inStream, outStream \o engine, 1)
    BY <1>b, <1>1
  <2> QED BY <1>b, <1>c, <2>1, FlowEnds
<1>3. outStream = <<>> /\ engine = <<>>
  <2>1. outStream \in Seq(OutWords) /\ engine \in Seq(OutWords)
    BY DEF DeviceTypes
  <2>2. Len(outStream \o engine) = Len(outStream) + Len(engine) /\ Len(outStream \o engine) <= 0
    BY <1>2, <2>1, JoinedTypes
  <2>3. Len(outStream) <= 0 /\ Len(engine) <= 0
    BY <2>1, <2>2
  <2> QED BY <2>1, <2>3
<1>4. /\ Out' = Out \o s2mm.units /\ restored' \in Seq(Item)
  BY <1>a, <1>c, PushGrows
<1>5. Out' = Z!ContentTo(read)
  BY <1>b, <1>2, <1>4 DEF AtFrame
<1>6. /\ \A p : Z!ContentTo(p)' = Z!ContentTo(p)
      /\ Z!Content' = Z!Content
  BY <1>a, ContentUnchanged
<1>7. Z!ContentTo(read)' = Z!ContentTo(read)
  BY <1>a, <1>6 DEF Z!ContentTo, Z!UnitsAt
<1>8. (\E p \in 0..Len(file) : Out = Z!ContentTo(p))'
  BY <1>a, <1>b, <1>5, <1>6
<1>9. writer' = "end" => Out' = Z!Content'
  BY <1>a, <1>b, <1>5, <1>6 DEF Z!Content
<1>10. LastIsLast(writer = "end")'
  <2>1. (writer' = "end") \in BOOLEAN
    OBVIOUS
  <2>2. \A i \in 1..Len(restored') : restored'[i].last <=> writer' = "end" /\ i = Len(restored')
    BY <1>a, <1>b, <1>c, <2>1, PushLast
  <2> QED BY <2>2 DEF LastIsLast
<1>11. Idle'
  BY <1>a, <1>2, <1>3 DEF Idle
<1>12. DeviceTypes'
  BY <1>a, <1>4 DEF DeviceTypes, Item
<1>13. writer' \in {"magic", "end"}
  BY <1>a
<1>14. ZstdInv'
  BY <1>a, <1>b, <1>5, <1>7, <1>8, <1>9, <1>10, <1>11, <1>13 DEF ZstdInv, InTheFrame
<1> QED BY <1>12, <1>14

(* A step of the thread. *)
LEMMA ZstdStep ==
  ASSUME DeviceTypes, ZstdInv, Z!Step
  PROVE  ZstdInv' /\ DeviceTypes'
BY ZstdMagic, ZstdHeader, ZstdBlockHeader, ZstdPayload, ZstdEmptyPayload, ZstdChecksum,
   ZstdStartBoth, ZstdFinishWrite, ZstdPush DEF Z!Step

(* A frame of a file that can be read is shorter than xilS2MM's buffer. *)
LEMMA FrameFits ==
  ASSUME ZstdInv, Z!Readable, AtFrame
  PROVE  Len(FlatTo(frame.blocks, Len(frame.blocks))) < OutUnits
<1> DEFINE F == FlatTo(frame.blocks, Len(frame.blocks))
<1>1. PICK h \in 1..read :
        /\ Z!IsHeader(h) /\ Z!InFrame(h, read)
        /\ Z!ContentTo(read) = Z!ContentTo(h) \o FlatTo(frame.blocks, Len(frame.blocks))
  BY DEF AtFrame
<1>2. /\ file \in Seq(Token) /\ Len(file) \in Nat /\ read \in 0..Len(file)
      /\ frame.blocks \in Seq(Words)
  BY TokensAssumption DEF ZstdInv, FrameRecords
<1>3. h \in 1..Len(file) /\ read \in 1..Len(file) /\ h <= read /\ h \in 0..Len(file)
  BY <1>1, <1>2
<1>4. Z!Units(h, read) < OutUnits
  BY <1>1, <1>3 DEF Z!Readable
<1>5. F \in Seq(Units)
  <2>1. Len(frame.blocks) \in 0..Len(frame.blocks)
    BY <1>2
  <2> QED BY <1>2, <2>1, FlatTypes
<1>6. Z!ContentTo(h) \in Seq(Units)
  BY <1>2, <1>3, ContentTypes
<1> HIDE DEF F
<1>7. Z!ContentTo(read) = Z!ContentTo(h) \o F
  BY <1>1 DEF F
<1>8. Len(Z!ContentTo(h) \o F) = Len(Z!ContentTo(h)) + Len(F)
  BY <1>5, <1>6
<1>9. Z!Units(h, read) = Len(Z!ContentTo(h) \o F) - Len(Z!ContentTo(h))
  BY <1>7 DEF Z!Units
<1>10. Len(F) \in Nat /\ Len(Z!ContentTo(h)) \in Nat
  BY <1>5, <1>6
<1>11. Z!Units(h, read) = Len(F)
  BY <1>8, <1>9, <1>10
<1> QED BY <1>4, <1>11 DEF F

(* The device takes a step: as the frame fits, xilS2MM ends with the flagged word only. *)
LEMMA ZstdDevice ==
  ASSUME DeviceTypes, ZstdInv, Z!Readable, G!Device,
         UNCHANGED <<lib, cvars, file, read, writer, last, reader, frame, restored>>
  PROVE  ZstdInv'
<1>1. writer \in {"write", "read"} /\ writer \in InTheFrame
  <2>1. ~Idle
    BY DEF Idle, G!Device, G!Send, G!Decode, G!Give, G!Receive
  <2> QED BY <2>1 DEF ZstdInv, InTheFrame
<1>2. /\ frame.blocks \in Seq(Words) /\ AtFrame /\ mm2s.last /\ (s2mm.runs <=> status = 0)
      /\ (s2mm.runs => s2mm.read = Len(s2mm.units))
      /\ Flow(frame.blocks, Len(frame.blocks), s2mm.units, mm2s.words, inStream,
              outStream \o engine, status)
      /\ writer = "read" => mm2s.words = <<>>
  BY <1>1 DEF ZstdInv, FrameRecords
<1>3. s2mm.units \in Seq(Units) /\ outStream \o engine \in Seq(OutWords)
      /\ mm2s.words \in Seq(Words) /\ inStream \in Seq(InWords)
  BY RestoredTypes, OutTypes DEF DeviceTypes
<1>4. AtFrame' /\ (\E p \in 0..Len(file) : Out = Z!ContentTo(p))'
  BY <1>2, FrameStays DEF ZstdInv
<1>5. LastIsLast(writer = "end")'
  BY DEF ZstdInv, LastIsLast
<1>6. SUFFICES
        /\ Flow(frame.blocks, Len(frame.blocks), s2mm.units, mm2s.words, inStream,
                outStream \o engine, status)'
        /\ mm2s'.last /\ (s2mm'.runs <=> status' = 0)
        /\ s2mm'.runs => s2mm'.read = Len(s2mm'.units)
        /\ writer' = "read" => mm2s'.words = <<>>
  BY <1>1, <1>4, <1>5 DEF ZstdInv, InTheFrame
<1>7. CASE G!Send \/ G!Decode \/ G!Give
  <2>1. /\ Flow(frame.blocks, Len(frame.blocks), s2mm.units, mm2s'.words, inStream',
                outStream' \o engine', status')
        /\ s2mm' = s2mm /\ status' = status /\ mm2s'.last = mm2s.last
        /\ mm2s'.words # <<>> => mm2s.words # <<>>
    BY <1>2, <1>3, <1>7, DeviceMoves
  <2> QED BY <1>2, <2>1
<1>8. CASE G!Receive
  <2>1. /\ Flow(frame.blocks, Len(frame.blocks), Received(s2mm.units, Head(outStream)), mm2s'.words,
                inStream', outStream' \o engine', status')
        /\ status' = IF Head(outStream).last THEN 1 ELSE 0
        /\ s2mm'.units = Received(s2mm.units, Head(outStream))
        /\ s2mm'.read = s2mm.read + 1
        /\ s2mm'.runs <=> ~Head(outStream).last /\ s2mm.read + 1 < OutUnits
        /\ mm2s' = mm2s /\ s2mm.runs /\ status = 0
        /\ Head(outStream) \in OutWords /\ outStream # <<>>
    BY <1>2, <1>3, <1>8, DeviceReceives
  <2>2. s2mm.read = Len(s2mm.units)
    BY <1>2, <2>1
  <2>3. CASE Head(outStream).last
    BY <1>2, <2>1, <2>3
  <2>4. CASE ~Head(outStream).last
    <3>1. outStream \o engine # <<>> /\ Head(outStream \o engine) = Head(outStream)
      BY <2>1, TakenOne DEF DeviceTypes
    <3>2. /\ Head(outStream).x # G!NoUnit
          /\ Len(s2mm.units) + 1 <= Len(FlatTo(frame.blocks, Len(frame.blocks)))
      BY <1>2, <1>3, <2>1, <2>4, <3>1, FlowUnflagged
    <3>3. Len(FlatTo(frame.blocks, Len(frame.blocks))) < OutUnits
      BY <1>2, FrameFits
    <3>4. Len(s2mm.units) + 1 < OutUnits
      <4>1. Len(FlatTo(frame.blocks, Len(frame.blocks))) \in Nat
        <5>1. Len(frame.blocks) \in 0..Len(frame.blocks)
          BY <1>2
        <5> QED BY <1>2, <5>1, FlatTypes
      <4>2. OutUnits \in Nat /\ Len(s2mm.units) \in Nat
        BY <1>3, MoverAssumption
      <4> QED BY <3>2, <3>3, <4>1, <4>2
    <3>5. Head(outStream).x \in Units
      BY <2>1, <3>2 DEF OutWords
    <3>6. Len(s2mm'.units) = Len(s2mm.units) + 1
      BY <1>3, <2>1, <3>2, <3>5 DEF Received
    <3>7. s2mm'.runs /\ status' = 0 /\ s2mm'.read = Len(s2mm'.units)
      BY <2>1, <2>2, <2>4, <3>4, <3>6
    <3> QED BY <1>2, <2>1, <3>7
  <2> QED BY <2>3, <2>4
<1> QED BY <1>7, <1>8 DEF G!Device

-----------------------------------------------------------------------------
(* The round trip keeps DInv *)

(* The device at the start. *)
LEMMA DeviceInitTypes ==
  ASSUME G!DeviceInit \/ Z!DeviceInit, restored = <<>>
  PROVE  DeviceTypes /\ Idle
<1>1. /\ mm2s = [words |-> <<>>, last |-> FALSE]
      /\ inStream = <<>> /\ engine = <<>> /\ outStream = <<>>
      /\ s2mm = [runs |-> FALSE, read |-> 0, units |-> <<>>]
  BY DEF G!DeviceInit, Z!DeviceInit
<1>2. Idle
  BY <1>1 DEF Idle
<1>3. \A S : <<>> \in Seq(S)
  OBVIOUS
<1>4. mm2s \in [words : Seq(Words), last : BOOLEAN]
  BY <1>1, <1>3
<1>5. s2mm \in [runs : BOOLEAN, read : Nat, units : Seq(Units)]
  BY <1>1, <1>3
<1> QED BY <1>1, <1>2, <1>3, <1>4, <1>5 DEF DeviceTypes

(* DInv holds at the start. *)
LEMMA InitDInv == Init => DInv
<1> SUFFICES ASSUME Init PROVE DInv
  OBVIOUS
<1>1. CASE lib = "gzip"
  <2>1. file = <<>> /\ G!Start
    BY <1>1 DEF Init
  <2>2. DeviceTypes
    BY <2>1, DeviceInitTypes DEF G!Start
  <2>3. waiter = "join"
    BY DEF Init, C!Init
  <2> QED BY <1>1, <2>1, <2>2, <2>3 DEF DInv, NotBegun
<1>2. CASE lib = "zstd"
  <2>1. file \in ZstdFiles /\ Z!Start
    BY <1>2 DEF Init
  <2>2. DeviceTypes /\ Idle
    BY <2>1, DeviceInitTypes DEF Z!Start
  <2>3. file \in Seq(Token) /\ Len(file) \in Nat
    BY <2>1, TokensAssumption
  <2>4. read = 0 /\ writer = "magic" /\ last = FALSE /\ frame = Z!NoFrame /\ restored = <<>>
    BY <2>1 DEF Z!Start
  <2>5. frame \in FrameRecords
    BY <2>4 DEF FrameRecords, Z!NoFrame
  <2>6. Out = Z!ContentTo(0)
    <3>1. Out = <<>>
      BY <2>2, <2>4, RestoredTypes
    <3>2. 0 \in 0..Len(file)
      BY <2>3
    <3>3. Z!ContentTo(0) = FirstOf([h \in 1..Len(file) |-> Z!UnitsAt(h)], 0)
      BY <2>3, <3>2, ContentIsFirst
    <3> QED BY <3>1, <3>3, FirstNone
  <2>7. /\ read \in 0..Len(file) /\ Out = Z!ContentTo(read)
        /\ \E p \in 0..Len(file) : Out = Z!ContentTo(p)
    BY <2>3, <2>4, <2>6
  <2>8. LastIsLast(writer = "end")
    BY <2>4 DEF LastIsLast
  <2>9. ZstdInv
    BY <2>1, <2>2, <2>4, <2>5, <2>7, <2>8 DEF ZstdInv, InTheFrame
  <2> QED BY <1>2, <2>2, <2>9 DEF DInv
<1> QED BY <1>1, <1>2 DEF Init

(* DInv holds as long as nothing changes. *)
LEMMA DInvStutters ==
  ASSUME DInv, UNCHANGED vars
  PROVE  DInv'
<1> USE DEF vars, dvars, cvars
<1>1. (Z!Readable' <=> Z!Readable) /\ (Readable' <=> Readable)
  BY ReadableStays DEF Readable
<1>2. DeviceTypes' <=> DeviceTypes
  BY DEF DeviceTypes
<1>3. NotBegun' <=> NotBegun
  BY DEF NotBegun, G!Start, G!DeviceInit
<1>4. Out' = Out /\ Arrived' = Arrived
  BY DEF Out, Arrived
<1>5. GzipInv => GzipInv'
  <2> SUFFICES ASSUME GzipInv PROVE GzipInv'
    OBVIOUS
  <2>1. Content' = Content
    BY DEF Content, Contents, Z!Content, Z!ContentTo, Z!UnitsAt
  <2>2. FlatTo(file, Len(file))' = FlatTo(file, Len(file))
    BY DEF FlatTo, UnitsOf
  <2>3. LastIsLast(reader = "end")'
    BY DEF GzipInv, LastIsLast
  <2>4. Flow(file, read, Arrived, mm2s.words, inStream, outStream \o engine, status)'
    BY <1>4 DEF GzipInv
  <2> QED BY <2>1, <2>2, <2>3, <2>4 DEF GzipInv
<1>6. ZstdInv => ZstdInv'
  <2> SUFFICES ASSUME ZstdInv PROVE ZstdInv'
    OBVIOUS
  <2>1. /\ AtFrame' <=> AtFrame
        /\ (\E p \in 0..Len(file) : Out = Z!ContentTo(p))'
        /\ \A p : Z!ContentTo(p)' = Z!ContentTo(p)
    BY FrameStays DEF ZstdInv
  <2>2. Z!Content' = Z!Content /\ Z!ContentTo(read)' = Z!ContentTo(read)
    BY DEF Z!Content, Z!ContentTo, Z!UnitsAt
  <2>3. LastIsLast(writer = "end")'
    BY DEF ZstdInv, LastIsLast
  <2>4. Idle' <=> Idle
    BY DEF Idle
  <2>5. writer \in {"write", "read"} =>
          Flow(frame.blocks, Len(frame.blocks), s2mm.units, mm2s.words, inStream,
               outStream \o engine, status)'
    BY DEF ZstdInv
  <2> QED BY <1>4, <2>1, <2>2, <2>3, <2>4, <2>5 DEF ZstdInv
<1> QED BY <1>1, <1>2, <1>3, <1>5, <1>6 DEF DInv

(* Every step keeps DInv. *)
LEMMA DInvStep ==
  ASSUME CInv', DInv, Next
  PROVE  DInv'
<1>1. ASSUME Compressing, file' = IF waiter' = "end" THEN Written' ELSE file, UNCHANGED <<lib, dvars>>
      PROVE  DInv'
  <2> USE DEF dvars
  <2>1. lib = "gzip" /\ lib' = "gzip" /\ NotBegun /\ DeviceTypes
    BY <1>1 DEF DInv, Compressing, Readable
  <2>2. DeviceTypes'
    BY <1>1, <2>1 DEF DeviceTypes
  <2>3. waiter' = "join" => NotBegun'
    BY <1>1, <2>1 DEF NotBegun, G!Start, G!DeviceInit
  <2>4. waiter' = "end" => GzipInv'
    BY <1>1, <2>1, GzipBegins
  <2> QED BY <2>1, <2>2, <2>3, <2>4 DEF DInv
<1>2. ASSUME Decompressing, G!Writer \/ G!Reader, UNCHANGED <<lib, cvars, frame>>
      PROVE  DInv'
  <2>1. lib = "gzip" /\ lib' = "gzip" /\ waiter' = "end" /\ GzipInv /\ DeviceTypes
    BY <1>2 DEF DInv, Decompressing, Readable, cvars
  <2>2. GzipInv' /\ DeviceTypes'
    BY <1>2, <2>1, GzipStep
  <2> QED BY <2>1, <2>2 DEF DInv
<1>3. ASSUME ZstdDecompress PROVE DInv'
  <2>1. lib = "zstd" /\ lib' = "zstd" /\ Z!Step
    BY <1>3 DEF ZstdDecompress
  <2>2. file' = file
    BY <2>1 DEF Z!Step, Z!Pop, Z!Magic, Z!Header, Z!BlockHeader, Z!Payload, Z!EmptyPayload, Z!Checksum,
       Z!StartBoth, Z!FinishWrite, Z!Push
  <2>3. (Z!Readable' <=> Z!Readable) /\ (Readable' <=> Readable)
    BY <2>1, <2>2, ReadableStays DEF Readable
  <2>4. Z!Readable => ZstdInv' /\ DeviceTypes'
    BY <2>1, ZstdStep DEF DInv, Readable
  <2> QED BY <2>1, <2>3, <2>4 DEF DInv, Readable
<1>4. ASSUME Execute PROVE DInv'
  <2>1. /\ G!Device /\ (lib = "zstd" \/ Decompressing)
        /\ UNCHANGED <<lib, cvars, file, read, writer, last, reader, frame, restored>>
    BY <1>4 DEF Execute
  <2>2. (Z!Readable' <=> Z!Readable) /\ (Readable' <=> Readable)
    BY <2>1, ReadableStays DEF Readable
  <2>3. Readable => DeviceTypes'
    BY <2>1, DeviceTypesStep DEF DInv
  <2>4. CASE lib = "zstd"
    <3>1. Z!Readable => ZstdInv'
      BY <2>1, <2>4, ZstdDevice DEF DInv, Readable
    <3> QED BY <2>1, <2>2, <2>3, <2>4, <3>1 DEF DInv
  <2>5. CASE Decompressing
    <3>1. lib = "gzip" /\ waiter = "end" /\ waiter' = "end" /\ GzipInv /\ DeviceTypes
      BY <2>1, <2>5 DEF Decompressing, DInv, Readable, cvars
    <3>2. GzipInv'
      BY <2>1, <3>1, GzipDevice
    <3> QED BY <2>1, <2>2, <2>3, <3>1, <3>2 DEF DInv
  <2> QED BY <2>1, <2>4, <2>5
<1>5. ASSUME Stopped PROVE DInv'
  BY <1>5, DInvStutters DEF Stopped
<1>6. CASE GzipCompress(CompressorThread)
  BY <1>1, <1>6 DEF GzipCompress
<1>7. CASE \E j \in C!Items : GzipCompress(C!OutputThread(j) \/ C!Queue(j))
  BY <1>1, <1>7 DEF GzipCompress
<1>8. CASE GzipDecompress(G!Writer) \/ GzipDecompress(G!Reader)
  BY <1>2, <1>8 DEF GzipDecompress
<1> QED BY <1>3, <1>4, <1>5, <1>6, <1>7, <1>8 DEF Next

(* DInv is an invariant. *)
LEMMA DInvAlways == Spec => []DInv
<1>1. CInv' /\ DInv /\ [Next]_vars => DInv'
  BY DInvStep, DInvStutters
<1> QED BY <1>1, InitDInv, CInvAlways, PTL DEF Spec

-----------------------------------------------------------------------------
(* What DInv says of what came back *)

(* Begins is IsPrefix, read element by element. *)
LEMMA BeginsIsPrefix ==
  ASSUME NEW U, NEW a \in Seq(U), NEW b \in Seq(U), Begins(a, b)
  PROVE  IsPrefix(a, b)
<1>1. Len(a) <= Len(b) /\ (\A m \in 1..Len(a) : b[m] = a[m]) /\ Len(a) \in Nat /\ Len(b) \in Nat
  BY DEF Begins
<1>2. SubSeq(a, 1, Len(a)) \in Seq(U) /\ SubSeq(b, 1, Len(a)) \in Seq(U)
  BY <1>1
<1>3. /\ Len(SubSeq(a, 1, Len(a))) = Len(a) /\ Len(SubSeq(b, 1, Len(a))) = Len(a)
      /\ \A m \in 1..Len(a) : SubSeq(a, 1, Len(a))[m] = a[m] /\ SubSeq(b, 1, Len(a))[m] = b[m]
  BY <1>1
<1>4. SubSeq(a, 1, Len(a)) = SubSeq(b, 1, Len(a))
  BY <1>1, <1>2, <1>3, SameElements
<1> QED BY <1>1, <1>4 DEF IsPrefix

(* The content of the chunks is a sequence of units. *)
LEMMA CompressedContentTypes ==
  ASSUME CInv, lib = "gzip"
  PROVE  Content \in Seq(Units)
<1> DEFINE s == [k \in 1..curItem |-> [j \in 1..Contents(k) |-> <<k, j>>]]
<1>1. curItem \in Nat /\ curItem \in 0..curItem
  BY DEF CInv, CompressorTypes, Items
<1>2. Content = FirstOf(s, curItem)
  BY DEF Content, FirstOf
<1>3. s \in Seq(Seq(Units)) /\ Len(s) = curItem
  <2>1. s = [k \in 1..curItem |-> s[k]]
    OBVIOUS
  <2>2. \A k \in 1..curItem : Contents(k) \in Nat /\ k \in Nat
    BY <1>1, MoverAssumption DEF Contents
  <2>3. ASSUME NEW k \in 1..curItem PROVE s[k] \in Seq(Units)
    <3>1. \A j \in 1..Contents(k) : <<k, j>> \in Units
      BY <2>2 DEF Units
    <3> QED BY <2>2, <3>1
  <2> HIDE DEF s
  <2> QED BY <1>1, <2>1, <2>3, OfElements
<1> HIDE DEF s
<1> QED BY <1>1, <1>2, <1>3, FirstTypes

(* What GzipInv says of the content. *)
LEMMA GzipComesBack ==
  ASSUME CInv, DeviceTypes, GzipInv, lib = "gzip"
  PROVE  /\ Begins(Out, Content)
         /\ \A i \in 1..Len(restored) : restored[i].last => i = Len(restored) /\ Out = Content
<1> DEFINE d == Decoded(read, mm2s.words, inStream)
           L == FlatTo(file, d)
<1>1. /\ Arrived \in Seq(Units) /\ Out \in Seq(Units) /\ s2mm.units \in Seq(Units)
      /\ mm2s.words \in Seq(Words) /\ inStream \in Seq(InWords)
      /\ outStream \o engine \in Seq(OutWords)
  BY GzipFacts
<1>2. /\ file \in Seq(Words) /\ FlatTo(file, Len(file)) = Content
      /\ Flow(file, read, Arrived, mm2s.words, inStream, outStream \o engine, status)
  BY DEF GzipInv
<1>3. d \in 0..Len(file) /\ Len(file) \in d..Len(file)
  <2>1. Len(file) \in Nat /\ d \in 0..Len(file)
    BY <1>1, <1>2, WordsFlow
  <2> QED BY <2>1
<1>4. Outbound(L, d, Len(file), Arrived, outStream \o engine, status)
  BY <1>2 DEF Flow
<1>5. Begins(L, Content) /\ L \in Seq(Units) /\ Content \in Seq(Units)
  BY <1>2, <1>3, FlatGrows, FlatTypes, CompressedContentTypes
<1> HIDE DEF L, d
<1>6. Len(Arrived) <= Len(L) /\ \A j \in 1..Len(Arrived) : Arrived[j] = L[j]
  BY <1>4 DEF Outbound
<1>7. Begins(Out, Arrived)
  <2>1. CASE reader = "finish"
    <3>1. Arrived = Out \o s2mm.units
      BY <2>1 DEF Arrived
    <3>2. /\ Len(Out \o s2mm.units) = Len(Out) + Len(s2mm.units)
          /\ \A j \in 1..Len(Out) : (Out \o s2mm.units)[j] = Out[j]
      BY <1>1, JoinedTypes
    <3>3. Len(s2mm.units) \in Nat /\ Len(Out) \in Nat
      BY <1>1
    <3> QED BY <3>1, <3>2, <3>3 DEF Begins
  <2>2. CASE reader # "finish"
    <3>1. Arrived = Out
      BY <2>2 DEF Arrived
    <3> QED BY <1>1, <3>1 DEF Begins
  <2> QED BY <2>1, <2>2
<1>8. Begins(Out, Content)
  <2>1. Len(Out) \in Nat /\ Len(Arrived) \in Nat /\ Len(L) \in Nat /\ Len(Content) \in Nat
    BY <1>1, <1>5
  <2>2. Len(Out) <= Len(Arrived) /\ Len(Arrived) <= Len(L) /\ Len(L) <= Len(Content)
    BY <1>5, <1>6, <1>7 DEF Begins
  <2>3. 1..Len(Out) \subseteq 1..Len(Arrived) /\ 1..Len(Arrived) \subseteq 1..Len(L)
        /\ Len(Out) <= Len(Content)
    BY <2>1, <2>2
  <2>4. ASSUME NEW m \in 1..Len(Out) PROVE Content[m] = Out[m]
    <3>1. m \in 1..Len(Arrived) /\ m \in 1..Len(L)
      BY <2>3
    <3>2. Arrived[m] = Out[m] /\ Arrived[m] = L[m] /\ Content[m] = L[m]
      BY <1>5, <1>6, <1>7, <3>1 DEF Begins
    <3> QED BY <3>2
  <2> QED BY <2>3, <2>4 DEF Begins
<1>9. ASSUME reader = "end" PROVE Out = Content
  <2>1. Arrived = Out
    BY <1>9 DEF Arrived
  <2>2. status = 1
    BY <1>9 DEF GzipInv
  <2>3. Flow(file, read, Arrived, mm2s.words, inStream, outStream \o engine, 1)
    BY <1>2, <2>2
  <2>4. Arrived = FlatTo(file, Len(file))
    BY <1>1, <1>2, <2>3, FlowEnds
  <2> QED BY <1>2, <2>1, <2>4
<1>10. \A i \in 1..Len(restored) : restored[i].last <=> reader = "end" /\ i = Len(restored)
  BY DEF GzipInv, LastIsLast
<1> QED BY <1>8, <1>9, <1>10

(* What ZstdInv says of the content. *)
LEMMA ZstdComesBack ==
  ASSUME DeviceTypes, ZstdInv, lib = "zstd"
  PROVE  /\ Begins(Out, Content) /\ Out \in Seq(Units) /\ Content \in Seq(Units)
         /\ \A i \in 1..Len(restored) : restored[i].last => i = Len(restored) /\ Out = Content
<1>1. file \in Seq(Token) /\ Content = Z!Content
  BY TokensAssumption DEF ZstdInv, Content
<1>2. Len(file) \in 0..Len(file)
  BY <1>1
<1>3. Out \in Seq(Units) /\ Content \in Seq(Units)
  BY <1>1, <1>2, RestoredTypes, ContentTypes DEF Z!Content
<1>4. Begins(Out, Content)
  BY <1>1, ContentGrows DEF ZstdInv
<1>5. writer = "end" => Out = Content
  BY <1>1 DEF ZstdInv
<1>6. \A i \in 1..Len(restored) : restored[i].last <=> writer = "end" /\ i = Len(restored)
  BY DEF ZstdInv, LastIsLast
<1> QED BY <1>3, <1>4, <1>5, <1>6

(* For every number of chunks and units, for every file of zstd that the code  *)
(* can read, however few words the streams and the buffers take and in         *)
(* whatever order threads and kernels run: the units that come out are those   *)
(* that went in, in order, none lost and none twice, and the item that says it *)
(* is the last one comes after all of them.                                   *)
THEOREM ContentReturns == Spec => []ContentComesBack
<1>1. CInv /\ DInv => ContentComesBack
  <2> SUFFICES ASSUME CInv, DInv, Readable
               PROVE  /\ IsPrefix(Out, Content)
                      /\ \A i \in 1..Len(restored) :
                           restored[i].last => i = Len(restored) /\ Out = Content
    BY DEF ContentComesBack
  <2>0. DeviceTypes /\ lib \in {"gzip", "zstd"} /\ waiter \in {"join", "end"} /\ Out \in Seq(Units)
    BY RestoredTypes DEF DInv, CInv, CompressorTypes
  <2>1. CASE lib = "gzip" /\ waiter = "join"
    <3>1. restored = <<>>
      BY <2>1 DEF DInv, NotBegun, G!Start
    <3>2. Out = <<>> /\ 1..Len(restored) = {}
      BY <2>0, <3>1, RestoredTypes
    <3>3. Content \in Seq(Units)
      BY <2>1, CompressedContentTypes
    <3>4. Begins(Out, Content)
      BY <3>2, <3>3 DEF Begins
    <3>5. IsPrefix(Out, Content)
      BY <2>0, <3>3, <3>4, BeginsIsPrefix
    <3> QED BY <3>2, <3>5
  <2>2. CASE lib = "gzip" /\ waiter = "end"
    <3>1. /\ Begins(Out, Content)
          /\ \A i \in 1..Len(restored) : restored[i].last => i = Len(restored) /\ Out = Content
      BY <2>0, <2>2, GzipComesBack DEF DInv
    <3>2. Content \in Seq(Units)
      BY <2>2, CompressedContentTypes
    <3> QED BY <2>0, <3>1, <3>2, BeginsIsPrefix
  <2>3. CASE lib = "zstd"
    <3>1. ZstdInv
      BY <2>3 DEF DInv, Readable
    <3> QED BY <2>0, <2>3, <3>1, ZstdComesBack, BeginsIsPrefix
  <2> QED BY <2>0, <2>1, <2>2, <2>3
<1> QED BY <1>1, CInvAlways, DInvAlways, PTL
=============================================================================
