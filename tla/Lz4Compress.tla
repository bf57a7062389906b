----------------------------- MODULE Lz4Compress -----------------------------
(***************************************************************************)
(* Lz4CompressWorkshop::process (host/data_compression/src/Lz4Compress.cpp): *)
(* the thread pops a buffer of blocks, the kernel xilLz4CompressMM compresses *)
(* each into the same place of the output buffer, and each leaves behind a    *)
(* size word, compressed or as it was.                                        *)
(*                                                                          *)
(* Sizes are numbers of bytes of a small block; content is the number of the *)
(* block.                                                                     *)
(***************************************************************************)
EXTENDS Integers, Sequences

CONSTANTS
  BlockBytes,         (* block_size_in_bytes; 64K in the code               *)
  MAX_NUMBER_BLOCKS,  (* blocks that fit HOST_BUFFER_SIZE; 128 in the code  *)
  MaxBlocks           (* bound: blocks of the longest input                 *)

Slots == 0..(MAX_NUMBER_BLOCKS - 1)
Garbage == 0

VARIABLES
  input,                     (* of each block its size and its compressed size *)
  pc, popped, last, numBlocks, bIdx,
  inBufferHost, outBufferHost, compressSizeBufferHost,
  framed                     (* size words and payloads pushed              *)

vars == <<input, pc, popped, last, numBlocks, bIdx, inBufferHost, outBufferHost,
          compressSizeBufferHost, framed>>

(* Only the last block is short.  The kernel reports a size of at least 1,   *)
(* and that of the block itself if it does not make it smaller.               *)
Inputs ==
  UNION {{blocks \in [1..n -> {b \in [size : 1..BlockBytes, compressed : 1..BlockBytes] :
                                 b.compressed <= b.size}] :
            \A k \in 1..(n - 1) : blocks[k].size = BlockBytes} : n \in 1..MaxBlocks}

(* The buffers before the first block. *)
Start ==
  /\ popped = 0 /\ last = FALSE
  /\ numBlocks = 0 /\ bIdx = 0
  /\ inBufferHost = [s \in Slots |-> Garbage]
  /\ outBufferHost = [s \in Slots |-> Garbage]
  /\ compressSizeBufferHost = [s \in Slots |-> 0]
  /\ framed = <<>>
Init == input \in Inputs /\ pc = "pop" /\ Start

Left == Len(input) - popped

(* inputStream.pop fills the buffer; only at the end does it give less.       *)
NumBlocks == IF Left < MAX_NUMBER_BLOCKS THEN Left ELSE MAX_NUMBER_BLOCKS

PopChunk ==
  /\ pc = "pop"
  /\ numBlocks' = NumBlocks
  /\ popped' = popped + numBlocks'
  /\ last' = (popped' = Len(input))
  /\ inBufferHost' = [s \in Slots |-> IF s < numBlocks' THEN popped + s + 1 ELSE inBufferHost[s]]
  /\ pc' = "kernel"
  /\ UNCHANGED <<input, bIdx, outBufferHost, compressSizeBufferHost, framed>>

Smaller(k) == input[k].compressed < input[k].size
Sizes ==
  [s \in Slots |-> IF s < numBlocks THEN input[inBufferHost[s]].compressed
                   ELSE compressSizeBufferHost[s]]
Compress ==
  /\ pc = "kernel"
  /\ compressSizeBufferHost' = Sizes
  /\ outBufferHost' =
       [s \in Slots |-> IF s >= numBlocks THEN outBufferHost[s]
                        ELSE IF Smaller(inBufferHost[s]) THEN inBufferHost[s] ELSE Garbage]
  /\ bIdx' = 0
  /\ pc' = "emit"
  /\ UNCHANGED <<input, popped, last, numBlocks, inBufferHost, framed>>

(* The size word: two bytes of the block's size and, for a block as it was,  *)
(* the top bit; mutated, the flag of the end goes with every block.            *)
Word(size, raw) == [n |-> IF raw THEN size % BlockBytes ELSE size, raw |-> raw]
LastAlways == last
LastFlag == last /\ bIdx = numBlocks - 1

BlockSize(k) == input[k].size
EmitBlock ==
  /\ pc = "emit"
  /\ LET k == popped - numBlocks + bIdx + 1
         compressed_size == compressSizeBufferHost[bIdx]
         smaller == compressed_size < BlockSize(k)
     IN framed' = Append(framed,
          [word |-> Word(IF smaller THEN compressed_size ELSE BlockSize(k), ~smaller),
           data |-> IF smaller THEN outBufferHost[bIdx] ELSE inBufferHost[bIdx],
           bytes |-> IF smaller THEN compressed_size ELSE BlockSize(k),
           last |-> LastFlag])
  /\ bIdx' = bIdx + 1
  /\ pc' = IF bIdx' < numBlocks THEN "emit" ELSE IF last THEN "end" ELSE "pop"
  /\ UNCHANGED <<input, popped, last, numBlocks, inBufferHost, outBufferHost,
                 compressSizeBufferHost>>

Done == pc = "end" /\ UNCHANGED vars

Next == PopChunk \/ Compress \/ EmitBlock \/ Done

-----------------------------------------------------------------------------
(* Properties *)

(* Every block leaves once and in order, the sent bytes are the block's own, *)
(* and only the very last one carries the end mark.  A reader that takes the *)
(* size from the word takes just the payload, so that it finds the next word; *)
(* a full block that is sent as it was is the exception, its size does not    *)
(* fit the two bytes the code writes.                                          *)
FramedInOrder ==
  \A k \in 1..Len(framed) :
    LET c == framed[k] IN
    /\ c.data = k /\ c.bytes = input[k].compressed
    /\ c.word.raw <=> ~Smaller(k)
    /\ c.word.n = c.bytes \/ (c.word.raw /\ c.bytes = BlockBytes)
    /\ c.last <=> k = Len(input)
=============================================================================
