--------------------------- MODULE MoverRoundTrip ---------------------------
(***************************************************************************)
(* The two decompressors that have the engine between xilMM2S and xilS2MM.    *)
(* For gzip and zlib, what testGzip's main does: what the compressor pushes    *)
(* is written to a file between a header and a footer, and the file is        *)
(* decompressed.  For zstd, a file is decompressed that ZstdCompress, which   *)
(* writes a frame for every chunk, or another program may have made.          *)
(* Names that begin with c are the compressor's.                              *)
(***************************************************************************)
EXTENDS Integers, Sequences, SequencesExt

CONSTANTS
  Chunks,        (* bound: chunks that gzip's compressor gets                *)
  ChunkUnits,    (* units of a chunk                                        *)
  Depth, OutUnits, InUnits, BufferBlocks,  (* see the decompressors          *)
  ZstdFiles

ASSUME MoverAssumption ==
  /\ Chunks \in Nat \ {0} /\ ChunkUnits \in Nat
  /\ {Depth, OutUnits, InUnits, BufferBlocks} \subseteq Nat \ {0}
  /\ <<>> \notin ZstdFiles

(* A token of a zstd file: a field, or fields that follow each other.  The     *)
(* bytes of a block hold the n units of block k.                              *)
Token ==
  [t : {"magic", "skippable", "sum"}] \cup
  [t : {"header"}, dictionary : Nat, checksum : BOOLEAN] \cup
  [t : {"block"}, size : Nat, final : BOOLEAN] \cup
  [t : {"data"}, size : Nat, k : Nat, n : Nat]
ASSUME TokensAssumption == \A f \in ZstdFiles : f \in Seq(Token)

VARIABLES
  lib,           (* which of the two it is                                  *)
  overlapped, checksum_type, pc, curItem, clast, hostIn, hostOut, hostSum,
  devIn, devOut, devSum, command, outThread, outputEvents, outputStream,
  checksum, waiter,
  mm2s, inStream, engine, outStream, s2mm, status,
  file, read, writer, last, reader, frame, restored

C == INSTANCE GzipCompress WITH last <- clast
G == INSTANCE GzipDecompress
Z == INSTANCE ZstdDecompress

cvars == <<overlapped, checksum_type, pc, curItem, clast, hostIn, hostOut, hostSum,
           devIn, devOut, devSum, command, outThread, outputEvents, outputStream,
           checksum, waiter>>
dvars == <<mm2s, inStream, engine, outStream, s2mm, status,
           read, writer, last, reader, frame, restored>>
vars == <<lib, cvars, file, dvars>>

Init ==
  /\ C!Init
  /\ \/ /\ lib = "gzip" /\ file = <<>> /\ G!Start /\ frame = Z!NoFrame
     \/ /\ lib = "zstd" /\ ~overlapped /\ ~checksum_type
        /\ file \in ZstdFiles /\ Z!Start /\ reader = "end"

-----------------------------------------------------------------------------
(* gzip and zlib *)

Compressing == lib = "gzip" /\ waiter = "join"

(* The driver reads until an item is the last one.  A chunk's bytes are one   *)
(* word here; the words of a header, of the last block and of a footer have   *)
(* no content.                                                                *)
NoContent == [k |-> 0, n |-> 0]
Contents(k) == IF k = curItem THEN 1 ELSE ChunkUnits
Encoded(item) == IF item.last THEN NoContent ELSE [k |-> item.k, n |-> Contents(item.k)]
UntilLast == SelectInSeq(outputStream, LAMBDA item : item.last)
Written ==
  <<NoContent>> \o [i \in 1..UntilLast |-> Encoded(outputStream[i])] \o <<NoContent>>

CompressorThread == C!WorkshopThread \/ C!Wait
GzipCompress(A) ==
  /\ Compressing /\ A
  /\ file' = IF waiter' = "end" THEN Written' ELSE file
  /\ UNCHANGED <<lib, dvars>>

Decompressing == lib = "gzip" /\ waiter = "end"
GzipDecompress(A) == Decompressing /\ A /\ UNCHANGED <<lib, cvars, frame>>

(* zstd *)
ZstdDecompress == lib = "zstd" /\ Z!Step /\ UNCHANGED <<lib, cvars, reader>>

Execute ==
  /\ lib = "zstd" \/ Decompressing
  /\ G!Device /\ UNCHANGED <<lib, cvars, file, read, writer, last, reader, frame, restored>>

(* A thread may also be lost, or wait for ever.                              *)
Ended ==
  \/ Decompressing /\ G!Joined
  \/ lib = "zstd" /\ writer \in {"end", "exit", "lost"}
Waiting == lib = "zstd" /\ ~Z!Readable
Stopped == (Ended \/ Waiting) /\ UNCHANGED vars

Next ==
  \/ GzipCompress(CompressorThread)
  \/ \E j \in C!Items : GzipCompress(C!OutputThread(j) \/ C!Queue(j))
  \/ GzipDecompress(G!Writer) \/ GzipDecompress(G!Reader)
  \/ ZstdDecompress
  \/ Execute
  \/ Stopped

Spec == Init /\ [][Next]_vars

(* Every thread runs unless it is blocked, the queue executes every command   *)
(* whose dependencies are complete, and the kernels run.                      *)
FairSpec ==
  /\ Spec
  /\ WF_vars(GzipCompress(CompressorThread))
  /\ \A j \in C!Items :
       /\ WF_vars(GzipCompress(C!OutputThread(j)))
       /\ WF_vars(GzipCompress(C!Transfer(j)))
       /\ WF_vars(GzipCompress(C!Compress(j)))
       /\ WF_vars(GzipCompress(C!TransferBack(j)))
       /\ \A c \in {"h2d", "kernel", "d2h"} : WF_vars(GzipCompress(C!Start(c, j)))
  /\ WF_vars(GzipDecompress(G!Writer)) /\ WF_vars(GzipDecompress(G!Reader))
  /\ WF_vars(ZstdDecompress) /\ WF_vars(Execute)

-----------------------------------------------------------------------------
(* Properties *)

(* The compressor's buffers are not overwritten too early, its results leave  *)
(* in order, and the checksum of the continuous function goes on from chunk   *)
(* to chunk (see GzipCompress).                                               *)
BuffersKept == C!BuffersKept
StreamInOrder == C!StreamInOrder
ChecksumContinues == C!ChecksumContinues

(* The content: of the chunks compressed, or of the zstd file's blocks.       *)
Content ==
  IF lib = "zstd" THEN Z!Content
  ELSE FlattenSeq([k \in 1..curItem |-> [j \in 1..Contents(k) |-> <<k, j>>]])
Readable == lib = "gzip" \/ Z!Readable
Out == FlattenSeq([i \in 1..Len(restored) |-> restored[i].units])

(* What comes out of the decompressor is the content from its beginning on,   *)
(* in order, and all of it if an item says that it is the last one.            *)
ContentComesBack ==
  Readable =>
    /\ IsPrefix(Out, Content)
    /\ \A i \in 1..Len(restored) : restored[i].last => i = Len(restored) /\ Out = Content

(* All of it does come back, although neither the streams of the device nor    *)
(* its buffers have place for a chunk's content.                              *)
Complete == Ended /\ Readable /\ restored # <<>> /\ Last(restored).last
RoundTripEnds == Readable => <>Complete
=============================================================================
