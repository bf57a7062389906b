--------------------------- MODULE SnappyCompress ---------------------------
(***************************************************************************)
(* SnappyCompressWorkshop::process (host/data_compression/src/              *)
(* SnappyCompress.cpp): the thread pops a buffer of blocks, the kernel      *)
(* xilSnappyCompressMM compresses each block into the same place of the     *)
(* output buffer, and every block leaves in a chunk of its own, compressed  *)
(* or as it was.                                                            *)
(*                                                                          *)
(* A block is a number, its place in the input, and so is its content; the  *)
(* same number is its size.  What matters of its bytes is its kind:         *)
(*   "plain"   the kernel makes it smaller                                  *)
(*   "tiny"    so it does, and the block is shorter than 128 bytes          *)
(*   "noise"   the kernel does not make it smaller                          *)
(* Only the last block of the input is short.                               *)
(***************************************************************************)
EXTENDS Integers, Sequences

CONSTANTS
  MAX_NUMBER_BLOCKS,  (* blocks that fit HOST_BUFFER_SIZE; 64 in the code   *)
  MaxBlocks           (* bound: blocks of the longest input                 *)

Slots == 0..(MAX_NUMBER_BLOCKS - 1)
Garbage == 0

VARIABLES
  input,                     (* the kinds of the input's blocks             *)
  pc,                        (* "pop", "kernel", "emit" or "end"            *)
  popped,                    (* blocks popped so far                        *)
  last,                      (* what the last pop said                      *)
  numBlocks, bIdx,           (* blocks in the buffer; the next to emit      *)
  inputBufferHost,           (* block in each place                         *)
  outputBufferHost,          (* block of which each place holds the result  *)
  compressedSizeBufferHost,  (* place by place, whether it is smaller       *)
  framed                     (* the chunks pushed to the output stream      *)

vars == <<input, pc, popped, last, numBlocks, bIdx, inputBufferHost,
          outputBufferHost, compressedSizeBufferHost, framed>>

Inputs ==
  UNION {{kinds \in [1..n -> {"plain", "tiny", "noise"}] :
            \A k \in 1..(n - 1) : kinds[k] # "tiny"} : n \in 1..MaxBlocks}

(* The buffers before the first block. *)
Start ==
  /\ popped = 0 /\ last = FALSE
  /\ numBlocks = 0 /\ bIdx = 0
  /\ inputBufferHost = [s \in Slots |-> Garbage]
  /\ outputBufferHost = [s \in Slots |-> Garbage]
  /\ compressedSizeBufferHost = [s \in Slots |-> FALSE]
Init == input \in Inputs /\ pc = "pop" /\ framed = <<>> /\ Start

Left == Len(input) - popped

(* inputStream.pop fills the buffer; only at the end does it give less.      *)
NumBlocks == IF Left < MAX_NUMBER_BLOCKS THEN Left ELSE MAX_NUMBER_BLOCKS

PopChunk ==
  /\ pc = "pop"
  /\ numBlocks' = NumBlocks
  /\ popped' = popped + numBlocks'
  /\ last' = (popped' = Len(input))
  /\ inputBufferHost' =
       [s \in Slots |-> IF s < numBlocks' THEN popped + s + 1 ELSE inputBufferHost[s]]
  /\ pc' = "kernel"
  /\ UNCHANGED <<input, bIdx, outputBufferHost, compressedSizeBufferHost, framed>>

(* The kernel leaves nothing of use in the place of a block that does not    *)
(* become smaller.                                                            *)
Compress ==
  /\ pc = "kernel"
  /\ outputBufferHost' =
       [s \in Slots |->
          IF s >= numBlocks THEN outputBufferHost[s]
          ELSE IF input[inputBufferHost[s]] = "noise" THEN Garbage
          ELSE inputBufferHost[s]]
  /\ compressedSizeBufferHost' =
       [s \in Slots |-> IF s >= numBlocks THEN compressedSizeBufferHost[s]
                        ELSE input[inputBufferHost[s]] # "noise"]
  /\ bIdx' = 0
  /\ pc' = "emit"
  /\ UNCHANGED <<input, popped, last, numBlocks, inputBufferHost, framed>>

(* The chunk of the next block; mutated, the flag goes with every block.     *)
LastFlagAlways == last
LastFlag == last /\ bIdx = numBlocks - 1
CompressedChunk(k) ==
  [id |-> 0, data |-> outputBufferHost[bIdx], tiny |-> input[k] = "tiny",
   size |-> k, last |-> LastFlag]
RawData ==
  IF bIdx = numBlocks - 1 THEN inputBufferHost[bIdx] ELSE outputBufferHost[bIdx]
RawChunk(k) ==
  [id |-> 1, data |-> RawData, tiny |-> FALSE, size |-> k, last |-> LastFlag]

(* A chunk's header says the size of its block, which follows from its place. *)
EmitBlock ==
  /\ pc = "emit"
  /\ LET k == popped - numBlocks + bIdx + 1 IN
       framed' = Append(framed, IF compressedSizeBufferHost[bIdx] THEN CompressedChunk(k)
                                ELSE RawChunk(k))
  /\ bIdx' = bIdx + 1
  /\ pc' = IF bIdx' < numBlocks THEN "emit" ELSE IF last THEN "end" ELSE "pop"
  /\ UNCHANGED <<input, popped, last, numBlocks, inputBufferHost, outputBufferHost,
                 compressedSizeBufferHost>>

Done == pc = "end" /\ UNCHANGED vars

Next == PopChunk \/ Compress \/ EmitBlock \/ Done

Spec == Init /\ [][Next]_vars

-----------------------------------------------------------------------------
(* Properties *)

(* A block that is sent as it was, but is not the last of its buffer, is     *)
(* taken from the buffer of results.                                          *)
Misplaced(k) ==
  /\ input[k] = "noise"
  /\ k % MAX_NUMBER_BLOCKS # 0 /\ k < Len(input)

(* Every block leaves once, in order, under its own size and with its own    *)
(* content, except the misplaced ones, and only the very last chunk carries  *)
(* the end mark.                                                              *)
FramedInOrder ==
  \A k \in 1..Len(framed) :
    /\ framed[k].size = k
    /\ ~Misplaced(k) => framed[k].data = k
    /\ framed[k].last <=> k = Len(input)

(* SnappyCompress.cpp:97 says that a block that is not compressed is sent as *)
(* a copy of its uncompressed data.                                           *)
UncompressedCopy ==
  \A k \in 1..Len(framed) : framed[k].id = 1 => framed[k].data = k
=============================================================================
