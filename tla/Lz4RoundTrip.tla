---------------------------- MODULE Lz4RoundTrip ----------------------------
(***************************************************************************)
(* What testLz4's main does: testLz4Compress3 writes a header, what the      *)
(* compressor pushes and a footer, and testLz4Decompress3 decompresses that  *)
(* file.  Or a file that another program made is decompressed; original is then*)
(* empty.  Names that begin with c are the compressor's.                      *)
(***************************************************************************)
EXTENDS Integers, Sequences, SequencesExt

CONSTANTS
  BlockBytes,         (* the size of the compressor's blocks                *)
  MAX_NUMBER_BLOCKS,  (* blocks that fit the compressor's buffers           *)
  MaxBlocks,          (* bound: blocks of the longest input                 *)
  hostBufferSize,     (* the size of the decompressor's buffers             *)
  BlockSizes,         (* the block sizes that a frame may choose            *)
  Files               (* other programs' files                              *)

ASSUME Lz4Assumption ==
  /\ MAX_NUMBER_BLOCKS \in Nat \ {0}
  /\ MaxBlocks \in Nat \ {0}
  /\ hostBufferSize \in Nat
  /\ \A s \in BlockSizes : s \in Nat \ {0} /\ 2 * s <= hostBufferSize
  /\ BlockBytes \in BlockSizes

VARIABLES
  original, cpc, popped, clast, numBlocks, bIdx,
  cInBufferHost, cOutBufferHost, compressSizeBufferHost, framed,
  file, read, pc, frame, bufferTotalBlock, inBufferHost, outBufferHost,
  decompressSize, blockIdx, decompressedSize, after, restored

C == INSTANCE Lz4Compress
       WITH input <- original, pc <- cpc, last <- clast, inBufferHost <- cInBufferHost,
            outBufferHost <- cOutBufferHost
D == INSTANCE Lz4Decompress

(* The fields of the LZ4 frame format.                                        *)
Field ==
  [t : {"magic", "skippable", "unknown", "sum"}]
    \cup [t : {"descriptor"}, valid : BOOLEAN, contentSize : BOOLEAN,
          blockChecksum : BOOLEAN, contentChecksum : BOOLEAN, blockSize : Nat]
    \cup [t : {"size"}, n : Nat, raw : BOOLEAN]
    \cup [t : {"data"}, k : Nat, bytes : Nat, units : Nat, raw : BOOLEAN, short : BOOLEAN]

(* Field i is in the frame that the descriptor d begins.                      *)
OfFrame(f, d, i) ==
  /\ d < i /\ f[d].t = "descriptor" /\ f[d].valid
  /\ \A j \in (d + 1)..i : f[j].t # "descriptor"

(* What other programs write: a frame's blocks have at most its block size,    *)
(* and its checksums are where the descriptor says.  A file may be cut off, and *)
(* fields may come in any other order.                                        *)
WellFormed(f) ==
  /\ f \in Seq(Field)
  /\ \A d \in DOMAIN f :
       f[d].t = "descriptor" /\ f[d].valid => f[d].blockSize \in BlockSizes
  /\ \A d, i \in DOMAIN f : OfFrame(f, d, i) =>
       /\ f[i].t = "data" => /\ f[i].units <= f[d].blockSize
                             /\ f[i].short <=> f[i].units < f[d].blockSize
       /\ \/ f[i].t = "data" /\ f[d].blockChecksum
          \/ f[i] = D!EndMark /\ f[d].contentChecksum
          => (i < Len(f) => f[i + 1].t = "sum")

ASSUME FilesAssumption == \A f \in Files : f # <<>> /\ WellFormed(f)

cvars == <<original, cpc, popped, clast, numBlocks, bIdx, cInBufferHost,
           cOutBufferHost, compressSizeBufferHost, framed>>
dvars == <<read, pc, frame, bufferTotalBlock, inBufferHost, outBufferHost,
           decompressSize, blockIdx, decompressedSize, after, restored>>
lz4Vars == <<cvars, file, dvars>>

Foreign == original = <<>>
Lz4Init ==
  /\ \/ C!Init /\ file = <<>>
     \/ Foreign /\ cpc = "end" /\ C!Start /\ file \in Files
  /\ D!Start

(* The header: no content size and no checksums. *)
Header == <<[t |-> "magic"],
            [t |-> "descriptor", valid |-> TRUE, contentSize |-> FALSE,
             blockChecksum |-> FALSE, contentChecksum |-> FALSE, blockSize |-> BlockBytes]>>
Footer == <<D!EndMark>>

(* What a size word and a payload are to a reader. *)
Tokens(k) ==
  <<[t |-> "size", n |-> framed[k].word.n, raw |-> framed[k].word.raw],
    [t |-> "data", k |-> framed[k].data, bytes |-> framed[k].bytes, units |-> original[k].size,
     raw |-> framed[k].word.raw, short |-> original[k].size < BlockBytes]>>
Written == Header \o FlattenSeq([k \in 1..Len(framed) |-> Tokens(k)]) \o Footer

Lz4Compress3 ==
  /\ cpc # "end" /\ C!Next
  /\ file' = IF cpc' = "end" THEN Written' ELSE file
  /\ UNCHANGED dvars
Lz4Decompress3 == cpc = "end" /\ D!Step /\ UNCHANGED cvars
Lz4Done == cpc = "end" /\ D!Stopped /\ UNCHANGED cvars

Lz4Next == Lz4Compress3 \/ Lz4Decompress3 \/ Lz4Done
Lz4Spec == Lz4Init /\ [][Lz4Next]_lz4Vars

(* The thread of either session runs. *)
Lz4FairSpec == Lz4Spec /\ WF_lz4Vars(Lz4Compress3) /\ WF_lz4Vars(Lz4Decompress3)

-----------------------------------------------------------------------------
(* Properties *)

(* The compressor's blocks leave in order with their own bytes, and the size *)
(* words lead a reader from one to the next (see Lz4Compress).                *)
FramedInOrder == C!FramedInOrder

(* There is always a place left for the size word read ahead. *)
RoomForSizeWord == D!RoomForSizeWord

(* Whatever frames come, their content goes out in order, once.  And what is  *)
(* written to sample/decompress is what was read from the original file,      *)
(* provided that the kernel made every block smaller: one that is sent as it  *)
(* was is taken for a compressed one.                                         *)
AllSmaller == \A k \in 1..Len(original) : C!Smaller(k)
OriginalContent ==
  FlattenSeq([k \in 1..Len(original) |-> [j \in 1..original[k].size |-> <<k, j>>]])
FileComesBack ==
  /\ D!ContentInOrder
  /\ ~Foreign /\ AllSmaller => D!IsPrefixOf(restored, Append(OriginalContent, D!Terminator))

(* Such a file comes back in full, and the content of every file that can be  *)
(* read goes out in full, with the extra byte behind it.                       *)
RoundTripEnds ==
  /\ ~Foreign /\ AllSmaller =>
       <>(pc = "end" /\ restored = Append(OriginalContent, D!Terminator))
  /\ Foreign => D!EndsComplete
=============================================================================
