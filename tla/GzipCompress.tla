---------------------------- MODULE GzipCompress ----------------------------
(***************************************************************************)
(* GzipZlibCompressWorkshop (host/data_compression/src/                     *)
(* GzipZlibCompress.cpp): a thread pops chunks of its input stream, has the *)
(* kernel xilGzipZlibCompressMM compress each one and pushes the results.   *)
(* processContinuous lets the command queue finish after every command;     *)
(* processOverlapped enqueues the three commands of a chunk at once, ordered *)
(* only by events, and starts a thread that pushes the chunk's result.       *)
(*                                                                          *)
(* The queue is out of order: a command starts as soon as the events it     *)
(* depends on are complete.  A buffer that is being written holds Torn.     *)
(* Chunk k compressed is again called k.  The two migrations that bring the *)
(* size and the data back in processContinuous are one command here.        *)
(***************************************************************************)
EXTENDS Integers, Sequences

CONSTANT Chunks  (* bound: chunks of the longest input                      *)

Items == 1..Chunks
Torn == 0

VARIABLES
  overlapped,     (* which of the two functions runs; it does not change    *)
  checksum_type,  (* TRUE for gzip's CRC; it does not change                *)
  pc,             (* where the workshop's thread is                         *)
  curItem,        (* the chunk it works on, counted from 1                  *)
  last,           (* what pop said of it                                    *)
  hostIn,         (* inputBufferHost                                        *)
  hostOut,        (* outputBufferHost and compressedSizeBufferHost          *)
  hostSum,        (* checksumDataBufferHost                                 *)
  devIn, devOut,  (* the device's side of the buffers, one of each per item *)
  devSum,         (* the device's side of checksumDataBuffer                *)
  command,        (* command[c][j]: "none", "queued", "running", "done"     *)
  outThread,      (* where each of outputThreads is                         *)
  outputEvents,   (* the items whose output event is complete               *)
  outputStream,   (* what has been pushed                                   *)
  checksum,       (* the member that getChecksum returns                    *)
  waiter          (* where the thread that calls wait is                    *)

mode == <<overlapped, checksum_type>>
buffers == <<hostIn, hostOut, devIn, devOut>>
sums == <<hostSum, devSum, checksum>>
vars == <<mode, pc, curItem, last, buffers, sums, command, outThread,
          outputEvents, outputStream, waiter>>

(* A checksum register: the chunks it covers, and whether it is complemented. *)
NotComplemented(sum) == sum
Complement(sum) ==
  IF checksum_type THEN [over |-> sum.over, inverted |-> ~sum.inverted] ELSE sum

(* The kernel goes on from the register it is given, which must not be      *)
(* complemented, and gives a CRC back complemented.                          *)
Crc(sum, k) ==
  [over |-> IF sum.inverted THEN <<Torn>> ELSE Append(sum.over, k),
   inverted |-> checksum_type]

Init ==
  /\ overlapped \in BOOLEAN /\ checksum_type \in BOOLEAN
  /\ pc = "pop" /\ curItem = 1 /\ last = FALSE
  /\ hostIn = Torn /\ hostOut = Torn
  /\ devIn = [j \in Items |-> Torn]
  /\ devOut = [j \in Items |-> Torn]
  /\ hostSum = [over |-> <<>>, inverted |-> FALSE]
  /\ devSum = [over |-> <<>>, inverted |-> FALSE]
  /\ checksum = [over |-> <<>>, inverted |-> FALSE]
  /\ command = [c \in {"h2d", "kernel", "d2h"} |-> [j \in Items |-> "none"]]
  /\ outThread = [j \in Items |-> "none"]
  /\ outputEvents = {}
  /\ outputStream = <<>>
  /\ waiter = "join"

Done(c, j) == command[c][j] = "done"
Chunk(k) == [k |-> k, last |-> FALSE]
Terminator == [k |-> Torn, last |-> TRUE]

-----------------------------------------------------------------------------
(* The workshop's thread, in both functions *)

(* inputStream.pop begins to write inputBufferHost; processOverlapped first  *)
(* waits for the previous chunk's transfer.                                   *)
PopBegin ==
  /\ pc = "pop"
  /\ overlapped /\ curItem > 1 => Done("h2d", curItem - 1)
  /\ hostIn' = Torn
  /\ pc' = "popping"
  /\ UNCHANGED <<mode, curItem, last, hostOut, devIn, devOut, sums, command,
                 outThread, outputEvents, outputStream, waiter>>

PopEnd ==
  /\ pc = "popping"
  /\ hostIn' = curItem
  /\ last' \in BOOLEAN /\ (curItem = Chunks => last')
  /\ pc' = "enqueue"
  /\ UNCHANGED <<mode, curItem, hostOut, devIn, devOut, sums, command,
                 outThread, outputEvents, outputStream, waiter>>

(* The member checksum is set after the loop. *)
StoreChecksum ==
  /\ pc = "store"
  /\ checksum' = hostSum
  /\ pc' = IF overlapped THEN "join" ELSE "end"
  /\ UNCHANGED <<mode, curItem, last, buffers, hostSum, devSum, command,
                 outThread, outputEvents, outputStream, waiter>>

(* wait joins the workshop's thread and adds the last block header. *)
Wait ==
  /\ waiter = "join" /\ pc = "end"
  /\ outputStream' = Append(outputStream, Terminator)
  /\ waiter' = "end"
  /\ UNCHANGED <<mode, pc, curItem, last, buffers, sums, command, outThread, outputEvents>>

-----------------------------------------------------------------------------
(* processContinuous *)

NextCommand ==
  IF command["h2d"][curItem] = "none" THEN "h2d"
  ELSE IF command["kernel"][curItem] = "none" THEN "kernel" ELSE "d2h"

EnqueueOne ==
  /\ pc = "enqueue" /\ ~overlapped
  /\ command' = [command EXCEPT ![NextCommand][curItem] = "queued"]
  /\ pc' = "finish"
  /\ UNCHANGED <<mode, curItem, last, buffers, sums, outThread, outputEvents,
                 outputStream, waiter>>

(* queue->finish(). *)
Finish ==
  /\ pc = "finish"
  /\ \A c \in DOMAIN command : command[c][curItem] \in {"none", "done"}
  /\ pc' = IF Done("d2h", curItem) THEN "push" ELSE "enqueue"
  /\ UNCHANGED <<mode, curItem, last, buffers, sums, command, outThread,
                 outputEvents, outputStream, waiter>>

PushOne ==
  /\ pc = "push"
  /\ outputStream' = Append(outputStream, Chunk(hostOut))
  /\ pc' = "complement"
  /\ UNCHANGED <<mode, curItem, last, buffers, sums, command, outThread,
                 outputEvents, waiter>>

ComplementOne ==
  /\ pc = "complement"
  /\ hostSum' = Complement(hostSum)
  /\ curItem' = IF last THEN curItem ELSE curItem + 1
  /\ pc' = IF last THEN "terminate" ELSE "pop"
  /\ UNCHANGED <<mode, last, buffers, devSum, checksum, command, outThread,
                 outputEvents, outputStream, waiter>>

Terminate ==
  /\ pc = "terminate"
  /\ outputStream' = Append(outputStream, Terminator)
  /\ pc' = "store"
  /\ UNCHANGED <<mode, curItem, last, buffers, sums, command, outThread,
                 outputEvents, waiter>>

-----------------------------------------------------------------------------
(* processOverlapped *)

(* The chunk's three commands are enqueued and its output thread starts. *)
EnqueueAll ==
  /\ pc = "enqueue" /\ overlapped
  /\ command' = [c \in DOMAIN command |-> [command[c] EXCEPT ![curItem] = "queued"]]
  /\ outThread' = [outThread EXCEPT ![curItem] = "wait"]
  /\ curItem' = IF last THEN curItem ELSE curItem + 1
  /\ pc' = IF last THEN "store" ELSE "pop"
  /\ UNCHANGED <<mode, last, buffers, sums, outputEvents, outputStream, waiter>>

(* The output threads are joined; mutated, they are not. *)
JoinNone ==
  /\ pc = "join"
  /\ pc' = "end"
  /\ UNCHANGED <<mode, curItem, last, buffers, sums, command, outThread,
                 outputEvents, outputStream, waiter>>
JoinAll ==
  /\ pc = "join"
  /\ \A j \in Items : outThread[j] \in {"none", "end"}
  /\ pc' = "end"
  /\ UNCHANGED <<mode, curItem, last, buffers, sums, command, outThread,
                 outputEvents, outputStream, waiter>>

OutWait(j) ==
  /\ outThread[j] = "wait" /\ Done("d2h", j)
  /\ outThread' = [outThread EXCEPT ![j] = "push"]
  /\ UNCHANGED <<mode, pc, curItem, last, buffers, sums, command,
                 outputEvents, outputStream, waiter>>

OutPush(j) ==
  /\ outThread[j] = "push"
  /\ outputStream' = Append(outputStream, Chunk(hostOut))
  /\ outThread' = [outThread EXCEPT ![j] = "complement"]
  /\ UNCHANGED <<mode, pc, curItem, last, buffers, sums, command,
                 outputEvents, waiter>>

OutComplement(j) ==
  /\ outThread[j] = "complement"
  /\ hostSum' = Complement(hostSum)
  /\ outThread' = [outThread EXCEPT ![j] = "event"]
  /\ UNCHANGED <<mode, pc, curItem, last, buffers, devSum, checksum, command,
                 outputEvents, outputStream, waiter>>

(* The event is completed by hand. *)
OutEvent(j) ==
  /\ outThread[j] = "event"
  /\ outputEvents' = outputEvents \cup {j}
  /\ outThread' = [outThread EXCEPT ![j] = "end"]
  /\ UNCHANGED <<mode, pc, curItem, last, buffers, sums, command,
                 outputStream, waiter>>

-----------------------------------------------------------------------------
(* The command queue and the device *)

(* Buffers are made once in processContinuous, for each item in processOverlapped. *)
Buf(j) == IF overlapped THEN j ELSE 1

(* The events a command of item j waits for; mutated, the transfer back    *)
(* forgets the output event of the item before.                             *)
KernelOnly(c, j) ==
  /\ c = "h2d" /\ j > 1 => Done("kernel", j - 1)
  /\ c = "kernel" => Done("h2d", j) /\ (j > 1 => Done("d2h", j - 1))
  /\ c = "d2h" => Done("kernel", j)
Dependencies(c, j) ==
  /\ c = "h2d" /\ j > 1 => Done("kernel", j - 1)
  /\ c = "kernel" => Done("h2d", j) /\ (j > 1 => Done("d2h", j - 1))
  /\ c = "d2h" => Done("kernel", j) /\ (j > 1 => j - 1 \in outputEvents)

(* A command starts to write its target. *)
Start(c, j) ==
  /\ command[c][j] = "queued"
  /\ overlapped => Dependencies(c, j)
  /\ command' = [command EXCEPT ![c][j] = "running"]
  /\ devIn' = IF c = "h2d" THEN [devIn EXCEPT ![Buf(j)] = Torn] ELSE devIn
  /\ devOut' = IF c = "kernel" THEN [devOut EXCEPT ![Buf(j)] = Torn] ELSE devOut
  /\ hostOut' = IF c = "d2h" THEN Torn ELSE hostOut
  /\ UNCHANGED <<mode, pc, curItem, last, hostIn, sums, outThread, outputEvents,
                 outputStream, waiter>>

Transfer(j) ==
  /\ command["h2d"][j] = "running"
  /\ command' = [command EXCEPT !["h2d"][j] = "done"]
  /\ devIn' = [devIn EXCEPT ![Buf(j)] = hostIn]
  /\ devSum' = hostSum
  /\ UNCHANGED <<mode, pc, curItem, last, hostIn, hostOut, devOut, hostSum, checksum,
                 outThread, outputEvents, outputStream, waiter>>

Compress(j) ==
  /\ command["kernel"][j] = "running"
  /\ command' = [command EXCEPT !["kernel"][j] = "done"]
  /\ devOut' = [devOut EXCEPT ![Buf(j)] = devIn[Buf(j)]]
  /\ devSum' = Crc(devSum, devIn[Buf(j)])
  /\ UNCHANGED <<mode, pc, curItem, last, hostIn, hostOut, devIn, hostSum, checksum,
                 outThread, outputEvents, outputStream, waiter>>

TransferBack(j) ==
  /\ command["d2h"][j] = "running"
  /\ command' = [command EXCEPT !["d2h"][j] = "done"]
  /\ hostOut' = devOut[Buf(j)]
  /\ hostSum' = devSum
  /\ UNCHANGED <<mode, pc, curItem, last, hostIn, devIn, devOut, devSum, checksum,
                 outThread, outputEvents, outputStream, waiter>>

-----------------------------------------------------------------------------
WorkshopThread ==
  \/ PopBegin \/ PopEnd \/ StoreChecksum
  \/ EnqueueOne \/ Finish \/ PushOne \/ ComplementOne \/ Terminate
  \/ EnqueueAll \/ JoinAll
OutputThread(j) == OutWait(j) \/ OutPush(j) \/ OutComplement(j) \/ OutEvent(j)
Queue(j) ==
  \/ \E c \in DOMAIN command : Start(c, j)
  \/ Transfer(j) \/ Compress(j) \/ TransferBack(j)

-----------------------------------------------------------------------------
(* Properties *)

(* A chunk is not overwritten before it has been transferred: from its       *)
(* enqueueing to the end of its transfer it stays in inputBufferHost, which   *)
(* the next pop writes.  Nor is a result before it has been pushed: the       *)
(* thread that pushes item j finds the result of item j, in full, although    *)
(* the results of all items come back to the same outputBufferHost.           *)
BuffersKept ==
  /\ \A j \in Items : command["h2d"][j] \in {"queued", "running"} => hostIn = j
  /\ pc = "push" => hostOut = curItem
  /\ \A j \in Items : outThread[j] = "push" => hostOut = j

(* The results go out in the order of the chunks, once each, and the last    *)
(* block header follows all of them, although every item has a thread of its *)
(* own; the continuous function and wait both add one.                        *)
StreamInOrder ==
  /\ \A i \in 1..Len(outputStream) :
       outputStream[i] = IF i <= curItem THEN Chunk(i) ELSE Terminator
  /\ Len(outputStream) > curItem => last
  /\ waiter = "end" => Len(outputStream) = curItem + IF overlapped THEN 1 ELSE 2

(* In the continuous function the register the next chunk starts from always *)
(* covers all the chunks before it, uncomplemented, and so does the checksum *)
(* that is kept.  The overlapped function does not keep this: the transfer   *)
(* of chunk j + 1 may start before the register of chunk j is back.          *)
Covers(n) == [over |-> [k \in 1..n |-> k], inverted |-> FALSE]
ChecksumContinues ==
  ~overlapped =>
    /\ pc = "pop" => hostSum = Covers(curItem - 1)
    /\ pc = "end" => checksum = Covers(curItem)
=============================================================================
