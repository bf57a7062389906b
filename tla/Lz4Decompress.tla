---------------------------- MODULE Lz4Decompress ----------------------------
(***************************************************************************)
(* Lz4DecompressWorkshop::process (host/data_compression/src/               *)
(* Lz4Decompress.cpp): the thread reads frames until the input stream ends.  *)
(* The blocks of a frame are collected in inBufferHost; when maxNumBlocks - 1 *)
(* have come, and at the end mark, the kernel xilLz4DecompressMM decompresses *)
(* them and the results are pushed.  The size word of the next block is read  *)
(* into the place where that block will go.                                   *)
(*                                                                          *)
(* The input is a sequence of tokens, each a field, or fields that follow    *)
(* each other, of the LZ4 frame format.  Reading a field where another one   *)
(* is leaves the thread "lost": what it does then depends on the bytes.       *)
(* Sizes are in units; unit j of block k is <<k, j>>.                         *)
(***************************************************************************)
EXTENDS Integers, Sequences, FiniteSets

CONSTANTS
  hostBufferSize,  (* units of the host buffers                             *)
  BlockSizes       (* the block sizes a frame may choose                    *)

Garbage == <<0, 0>>
Terminator == <<0, 1>>

VARIABLES
  file,                (* the input                                         *)
  read,                (* tokens read so far                                *)
  pc,                  (* where the thread is                               *)
  frame,               (* the frame's descriptor                            *)
  bufferTotalBlock,    (* blocks collected                                  *)
  inBufferHost,        (* a token in each place: a block or a size word     *)
  outBufferHost,       (* units                                             *)
  decompressSize,      (* decompressSizeBufferHost                          *)
  blockIdx, decompressedSize,  (* the loop of executeWrite                  *)
  after,               (* where the thread goes on after executeWrite       *)
  restored             (* the units pushed                                  *)

loop == <<blockIdx, decompressedSize, after>>
vars == <<file, read, pc, frame, bufferTotalBlock, inBufferHost, outBufferHost,
          decompressSize, loop, restored>>

token == file[read + 1]
last == read = Len(file)
NoFrame == [t |-> "descriptor", valid |-> FALSE, contentSize |-> FALSE,
            blockChecksum |-> FALSE, contentChecksum |-> FALSE, blockSize |-> 1]
Nothing == [t |-> "nothing"]
EndMark == [t |-> "size", n |-> 0, raw |-> FALSE]
maxNumBlocks == hostBufferSize \div frame.blockSize
Places == 0..(hostBufferSize - 1)

(* The thread before the input comes. *)
Start ==
  /\ read = 0 /\ pc = "magic" /\ frame = NoFrame
  /\ bufferTotalBlock = 0
  /\ inBufferHost = [p \in Places |-> Nothing]
  /\ outBufferHost = [p \in Places |-> Garbage]
  /\ decompressSize = [p \in Places |-> 0]
  /\ blockIdx = 0 /\ decompressedSize = 0 /\ after = "next"
  /\ restored = <<>>

-----------------------------------------------------------------------------
(* Frames *)

(* A frame's magic number leads to its descriptor; a skippable frame, which  *)
(* is one token, and a word that is no magic number are passed over.          *)
Magic ==
  /\ pc = "magic" /\ ~last
  /\ pc' = IF token.t = "magic" THEN "descriptor"
           ELSE IF token.t \in {"skippable", "unknown"} THEN "frame_end" ELSE "lost"
  /\ read' = read + 1
  /\ UNCHANGED <<file, frame, bufferTotalBlock, inBufferHost, outBufferHost,
                 decompressSize, loop, restored>>

(* FLG, BD, HC and the first size word.  A flag the code does not support    *)
(* ends the process.  Half of the content size is taken for the header's      *)
(* checksum.                                                                   *)
Descriptor ==
  /\ pc = "descriptor" /\ ~last /\ token.t = "descriptor"
  /\ frame' = token
  /\ bufferTotalBlock' = 0
  /\ pc' = IF ~token.valid THEN "exit" ELSE IF token.contentSize THEN "lost" ELSE "word"
  /\ read' = read + 1
  /\ UNCHANGED <<file, inBufferHost, outBufferHost, decompressSize, loop, restored>>

(* After a frame the loop goes on unless the input is at its end; then a     *)
(* byte is added to carry the end mark.  Mutated, it goes on anyway.           *)
FrameEndGoesOn ==
  /\ pc = "frame_end"
  /\ pc' = "magic"
  /\ UNCHANGED <<file, read, frame, bufferTotalBlock, inBufferHost, outBufferHost,
                 decompressSize, loop, restored>>
FrameEnd ==
  /\ pc = "frame_end"
  /\ restored' = IF last THEN Append(restored, Terminator) ELSE restored
  /\ pc' = IF last THEN "end" ELSE "magic"
  /\ UNCHANGED <<file, read, frame, bufferTotalBlock, inBufferHost, outBufferHost,
                 decompressSize, loop>>

-----------------------------------------------------------------------------
(* Blocks *)

(* The size word of the next block, into that block's place.                 *)
Word ==
  /\ pc = "word" /\ ~last
  /\ inBufferHost' = [inBufferHost EXCEPT ![bufferTotalBlock * frame.blockSize] = token]
  /\ pc' = IF token.t = "size" THEN "block" ELSE "lost"
  /\ read' = read + 1
  /\ UNCHANGED <<file, frame, bufferTotalBlock, outBufferHost, decompressSize, loop, restored>>

word == inBufferHost[bufferTotalBlock * frame.blockSize]

(* A batch is full one block before the buffer is, which the comment at line *)
(* 143 says the kernel needs; mutated, never.                                 *)
FullNever == hostBufferSize + 1
Full == maxNumBlocks - 1

(* A block; its size word's top bit is dropped, and a block of size 0 takes no bytes.    *)
Block ==
  /\ pc = "block" /\ word # EndMark /\ ~last
  /\ inBufferHost' = [inBufferHost EXCEPT ![bufferTotalBlock * frame.blockSize] = token]
  /\ bufferTotalBlock' = bufferTotalBlock + 1
  /\ pc' = IF token.t # "data" \/ token.bytes # word.n THEN "lost"
           ELSE IF bufferTotalBlock' = Full THEN "kernel" ELSE "checksum"
  /\ after' = "checksum"
  /\ read' = read + 1
  /\ UNCHANGED <<file, frame, outBufferHost, decompressSize, blockIdx, decompressedSize,
                 restored>>

Checksum ==
  /\ pc = "checksum" /\ (frame.blockChecksum => ~last)
  /\ read' = IF frame.blockChecksum THEN read + 1 ELSE read
  /\ pc' = "word"
  /\ UNCHANGED <<file, frame, bufferTotalBlock, inBufferHost, outBufferHost,
                 decompressSize, loop, restored>>

EndOfBlocks ==
  /\ pc = "block" /\ word = EndMark
  /\ pc' = IF bufferTotalBlock > 0 THEN "kernel" ELSE "content"
  /\ after' = "content"
  /\ UNCHANGED <<file, read, frame, bufferTotalBlock, inBufferHost, outBufferHost,
                 decompressSize, blockIdx, decompressedSize, restored>>

ContentChecksum ==
  /\ pc = "content" /\ (frame.contentChecksum => ~last)
  /\ read' = IF frame.contentChecksum THEN read + 1 ELSE read
  /\ pc' = "frame_end"
  /\ UNCHANGED <<file, frame, bufferTotalBlock, inBufferHost, outBufferHost,
                 decompressSize, loop, restored>>

-----------------------------------------------------------------------------
(* executeWrite *)

(* The kernel writes block i from i * blockSize on.  It takes every block    *)
(* for a compressed one: of a raw block it makes something of some size.      *)
Decompress ==
  /\ pc = "kernel"
  /\ \E any \in 0..frame.blockSize :
       decompressSize' =
         [i \in Places |->
            IF i >= bufferTotalBlock THEN decompressSize[i]
            ELSE LET b == inBufferHost[i * frame.blockSize] IN
                 IF b.raw THEN any ELSE b.units]
  /\ outBufferHost' =
       [p \in Places |->
          LET i == p \div frame.blockSize
              j == p % frame.blockSize IN
          IF i >= bufferTotalBlock \/ j >= decompressSize'[i] THEN outBufferHost[p]
          ELSE LET b == inBufferHost[i * frame.blockSize] IN
               IF b.raw THEN Garbage ELSE <<b.k, j + 1>>]
  /\ blockIdx' = 0 /\ decompressedSize' = 0
  /\ pc' = "emit"
  /\ UNCHANGED <<file, read, frame, bufferTotalBlock, inBufferHost, after, restored>>

(* The results are read one after the other; mutated, all from the start.    *)
FromStart == 0
Offset == decompressedSize
Emit ==
  /\ pc = "emit" /\ blockIdx < bufferTotalBlock
  /\ restored' = restored \o [j \in 1..decompressSize[blockIdx] |-> outBufferHost[Offset + j - 1]]
  /\ decompressedSize' = decompressedSize + decompressSize[blockIdx]
  /\ blockIdx' = blockIdx + 1
  /\ UNCHANGED <<file, read, pc, frame, bufferTotalBlock, inBufferHost, outBufferHost,
                 decompressSize, after>>

(* The buffer is empty again. *)
EmitDone ==
  /\ pc = "emit" /\ blockIdx = bufferTotalBlock
  /\ bufferTotalBlock' = 0
  /\ pc' = after
  /\ UNCHANGED <<file, read, frame, inBufferHost, outBufferHost, decompressSize, loop,
                 restored>>

-----------------------------------------------------------------------------
Step ==
  \/ Magic \/ Descriptor \/ FrameEnd
  \/ Word \/ Block \/ Checksum \/ EndOfBlocks \/ ContentChecksum
  \/ Decompress \/ Emit \/ EmitDone
Stopped == pc \in {"end", "exit", "lost"} /\ UNCHANGED vars


-----------------------------------------------------------------------------
(* Properties *)

(* There is always a place left for the next size word, which is read before *)
(* it is known whether a block follows.                                        *)
RoomForSizeWord == pc \in {"word", "block"} => bufferTotalBlock < maxNumBlocks

(* The blocks among the first i tokens. *)
DataOf ==
  LET d[i \in 0..Len(file)] ==
        IF i = 0 THEN <<>>
        ELSE IF file[i].t = "data" THEN Append(d[i - 1], file[i]) ELSE d[i - 1]
  IN d
Data == DataOf[Len(file)]

(* The units of the first i blocks, in order. *)
ContentOf ==
  LET c[i \in 0..Len(Data)] ==
        IF i = 0 THEN <<>>
        ELSE c[i - 1] \o [j \in 1..Data[i].units |-> <<Data[i].k, j>>]
  IN c
Content == ContentOf[Len(Data)]

(* What the code can read: no content size, no raw block, and no short block *)
(* that another block of the frame follows, of which the result would be read *)
(* from the wrong place.                                                        *)
Readable ==
  /\ \A i \in 1..Len(file) : file[i].t = "descriptor" => ~file[i].contentSize
  /\ \A i \in 1..Len(Data) : ~Data[i].raw
  /\ \A i \in 1..Len(file) :
       file[i].t = "data" /\ file[i].short =>
         \/ file[i + 1] = EndMark
         \/ i + 2 <= Len(file) /\ file[i + 1].t = "sum" /\ file[i + 2] = EndMark

(* Whatever frames come one after another, of any block size, with or        *)
(* without checksums and however their blocks fall into batches, what goes    *)
(* out is the content of their blocks in order.                                *)
IsPrefixOf(s, t) == Len(s) <= Len(t) /\ \A i \in 1..Len(s) : s[i] = t[i]
ContentInOrder == Readable => IsPrefixOf(restored, Append(Content, Terminator))

(* Only at the end of the input is the session ended, by the one byte that   *)
(* popLz4Decompression takes away again; all the content is before it.         *)
EndsComplete ==
  \/ ~Readable
  \/ <>(pc = "exit")
  \/ <>(pc = "end" /\ restored = Append(Content, Terminator))
=============================================================================
