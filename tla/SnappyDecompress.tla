-------------------------- MODULE SnappyDecompress --------------------------
(***************************************************************************)
(* SnappyDecompressWorkshop::process (host/data_compression/src/            *)
(* SnappyDecompress.cpp): the thread reads the chunks of a framed stream,   *)
(* collects compressed blocks in one buffer and uncompressed ones in        *)
(* another, and when maxNumBlocks - 1 have come, or the stream ends, has    *)
(* the kernel decompress the batch and pushes its blocks in the order they   *)
(* came in.                                                                  *)
(*                                                                          *)
(* A chunk is a record: id 0 compressed, 1 uncompressed, 255 a repeated      *)
(* stream identifier, anything else ends the process.  The content of a      *)
(* block and its size are its number, as in SnappyCompress; a tiny block's   *)
(* size is a varint of one byte.                                             *)
(***************************************************************************)
EXTENDS Integers, Sequences, FiniteSets

CONSTANT
  maxNumBlocks    (* HOST_BUFFER_SIZE / block_size_in_byte; 64 in the code  *)

Garbage == 0
Slots == 0..(maxNumBlocks - 1)

VARIABLES
  framed,                                 (* the stream after its identifier *)
  pc,                                     (* where the thread is             *)
  read,                                   (* chunks read so far              *)
  last,                                   (* what the last pop said          *)
  blockNum, compressedBlockNum, notCompressedBlockNum,
  isCompressed,                           (* of each block of the batch      *)
  inputBufferHost, decompressedSizeBufferHost,         (* compressed blocks  *)
  notCompressedBufferHost, notCompressedSizeBufferHost,
  outputBufferHost,
  blockIdx, compressedIdx, notCompressedIdx,
  restored                                (* what has been pushed            *)

counts == <<blockNum, compressedBlockNum, notCompressedBlockNum>>
batch == <<isCompressed, inputBufferHost, decompressedSizeBufferHost,
           notCompressedBufferHost, notCompressedSizeBufferHost>>
cursor == <<blockIdx, compressedIdx, notCompressedIdx>>
vars == <<framed, pc, read, last, counts, batch, outputBufferHost, cursor, restored>>

(* The buffers before the first chunk; the ten bytes of the stream's own     *)
(* identifier have gone through the first of them.                            *)
Start ==
  /\ pc = "read" /\ read = 0 /\ last = FALSE
  /\ blockNum = 0 /\ compressedBlockNum = 0 /\ notCompressedBlockNum = 0
  /\ isCompressed = [s \in Slots |-> FALSE]
  /\ inputBufferHost = [s \in Slots |-> Garbage]
  /\ decompressedSizeBufferHost = [s \in Slots |-> 0]
  /\ notCompressedBufferHost = [s \in Slots |-> Garbage]
  /\ notCompressedSizeBufferHost = [s \in Slots |-> 0]
  /\ outputBufferHost = [s \in Slots |-> Garbage]
  /\ blockIdx = 0 /\ compressedIdx = 0 /\ notCompressedIdx = 0
  /\ restored = <<>>

chunk == framed[read + 1]
More == pc = "read" /\ read < Len(framed)

(* What ends a turn of the loop: a full batch or the end of the stream starts *)
(* the kernel.  Mutated: one block too many; only a full batch.                *)
FullLate == maxNumBlocks + 1
Full == maxNumBlocks - 1
EndOfTurnFullOnly ==
  /\ read' = read + 1
  /\ last' = chunk.last
  /\ pc' = IF blockNum' = Full THEN "kernel" ELSE IF last' THEN "end" ELSE "read"
EndOfTurn ==
  /\ read' = read + 1
  /\ last' = chunk.last
  /\ pc' = IF blockNum' = Full \/ last' THEN "kernel" ELSE "read"

(* The size a compressed block declares: a varint of one byte is not decoded. *)
Varint(c) == IF c.tiny THEN 0 ELSE c.size

CompressedBlock ==
  /\ More /\ chunk.id = 0
  /\ inputBufferHost' = [inputBufferHost EXCEPT ![compressedBlockNum] = chunk.data]
  /\ decompressedSizeBufferHost' =
       [decompressedSizeBufferHost EXCEPT ![compressedBlockNum] = Varint(chunk)]
  /\ isCompressed' = [isCompressed EXCEPT ![blockNum] = TRUE]
  /\ compressedBlockNum' = compressedBlockNum + 1
  /\ blockNum' = blockNum + 1
  /\ EndOfTurn
  /\ UNCHANGED <<framed, notCompressedBlockNum, notCompressedBufferHost,
                 notCompressedSizeBufferHost, outputBufferHost, cursor, restored>>

RawBlock ==
  /\ More /\ chunk.id = 1
  /\ notCompressedBufferHost' =
       [notCompressedBufferHost EXCEPT ![notCompressedBlockNum] = chunk.data]
  /\ notCompressedSizeBufferHost' =
       [notCompressedSizeBufferHost EXCEPT ![notCompressedBlockNum] = chunk.size]
  /\ isCompressed' = [isCompressed EXCEPT ![blockNum] = FALSE]
  /\ notCompressedBlockNum' = notCompressedBlockNum + 1
  /\ blockNum' = blockNum + 1
  /\ EndOfTurn
  /\ UNCHANGED <<framed, compressedBlockNum, inputBufferHost, decompressedSizeBufferHost,
                 outputBufferHost, cursor, restored>>

(* A repeated identifier is popped over the first block of the batch. *)
Identifier ==
  /\ More /\ chunk.id = 255
  /\ inputBufferHost' = [inputBufferHost EXCEPT ![0] = Garbage]
  /\ UNCHANGED <<framed, counts, isCompressed, decompressedSizeBufferHost,
                 notCompressedBufferHost, notCompressedSizeBufferHost,
                 outputBufferHost, cursor, restored>>
  /\ EndOfTurn

(* exit(EXIT_FAILURE). *)
InvalidChunk ==
  /\ More /\ chunk.id \notin {0, 1, 255}
  /\ pc' = "exit"
  /\ UNCHANGED <<framed, read, last, counts, batch, outputBufferHost, cursor, restored>>

(* The kernel decompresses the compressed blocks of the batch, each in place. *)
Decompress ==
  /\ pc = "kernel"
  /\ outputBufferHost' =
       [s \in Slots |-> IF s < compressedBlockNum THEN inputBufferHost[s]
                        ELSE outputBufferHost[s]]
  /\ blockIdx' = 0 /\ compressedIdx' = 0 /\ notCompressedIdx' = 0
  /\ pc' = IF blockNum = 0 THEN "reset" ELSE "emit"
  /\ UNCHANGED <<framed, read, last, counts, batch, restored>>

(* The next block of the batch, from the buffer it is in; mutated, all the   *)
(* compressed blocks of the batch go first.                                   *)
LastOfBatch == blockIdx = blockNum - 1
CompressedFirst == compressedIdx < compressedBlockNum
FromKernel == isCompressed[blockIdx]
Block ==
  IF FromKernel
  THEN [data |-> outputBufferHost[compressedIdx],
        size |-> decompressedSizeBufferHost[compressedIdx],
        last |-> LastOfBatch /\ last]
  ELSE [data |-> notCompressedBufferHost[notCompressedIdx],
        size |-> notCompressedSizeBufferHost[notCompressedIdx],
        last |-> LastOfBatch /\ last]

EmitBlock ==
  /\ pc = "emit"
  /\ restored' = Append(restored, Block)
  /\ blockIdx' = blockIdx + 1
  /\ compressedIdx' = compressedIdx + IF FromKernel THEN 1 ELSE 0
  /\ notCompressedIdx' = notCompressedIdx + IF FromKernel THEN 0 ELSE 1
  /\ pc' = IF LastOfBatch THEN "reset" ELSE "emit"
  /\ UNCHANGED <<framed, read, last, counts, batch, outputBufferHost>>

(* The counts start again; mutated, that of the uncompressed blocks goes on. *)
ResetSome ==
  /\ pc = "reset"
  /\ blockNum' = 0 /\ compressedBlockNum' = 0
  /\ pc' = IF last THEN "end" ELSE "read"
  /\ UNCHANGED <<framed, read, last, notCompressedBlockNum, batch, outputBufferHost,
                 cursor, restored>>
Reset ==
  /\ pc = "reset"
  /\ blockNum' = 0 /\ compressedBlockNum' = 0 /\ notCompressedBlockNum' = 0
  /\ pc' = IF last THEN "end" ELSE "read"
  /\ UNCHANGED <<framed, read, last, batch, outputBufferHost, cursor, restored>>

Step ==
  \/ CompressedBlock \/ RawBlock \/ Identifier \/ InvalidChunk
  \/ Decompress \/ EmitBlock \/ Reset
Stopped == pc \in {"end", "exit"} /\ UNCHANGED vars

-----------------------------------------------------------------------------
(* Properties *)

(* SnappyDecompress.cpp:125 asserts that the two counts add up; that no slot *)
(* past the buffers is written also needs the batch to end in time.           *)
BatchFits ==
  /\ compressedBlockNum + notCompressedBlockNum = blockNum
  /\ blockNum <= maxNumBlocks - 1

(* The places of the stream's chunks of a kind, and how many of them there   *)
(* are up to a place.                                                         *)
Places(ids) == {n \in 1..Len(framed) : framed[n].id \in ids}
Upto(places, n) == Cardinality(places \cap (1..n))
Blocks == Places({0, 1})
Repeated == Places({255}) # {}

(* Whatever mix of chunks comes in, and however the batches fall, the blocks *)
(* go out once each in the order they came, with their content and size, and *)
(* only the last block of the stream with the end mark; a tiny block comes    *)
(* out empty, and a repeated identifier may spoil a compressed block.         *)
RestoredInOrder ==
  /\ Len(restored) <= Cardinality(Blocks)
  /\ \A n \in Blocks :
       LET c == framed[n]
           i == Upto(Blocks, n)
       IN i <= Len(restored) =>
            /\ restored[i].size = IF c.id = 0 THEN Varint(c) ELSE c.size
            /\ ~(c.id = 0 /\ Repeated) => restored[i].data = c.data
            /\ restored[i].last => i = Cardinality(Blocks)

(* A stream of valid chunks that ends with a block is read to its end, and    *)
(* all its blocks have gone out, the last one with the end mark, so that the  *)
(* caller stops popping.                                                       *)
EndsComplete ==
  \/ <>(pc = "exit")
  \/ framed[Len(framed)].id = 255
  \/ <>(/\ pc = "end"
        /\ Len(restored) = Cardinality(Blocks)
        /\ \E i \in 1..Len(restored) : restored[i].last)
=============================================================================
