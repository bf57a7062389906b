-------------------------- MODULE SnappyRoundTrip ---------------------------
(***************************************************************************)
(* What testSnappy's main does: testSnappyCompress3 compresses a file, and  *)
(* testSnappyDecompress3 decompresses the result.  SnappyCompress writes    *)
(* the stream that SnappyDecompress reads afterwards.  Or a stream that      *)
(* another program made is decompressed; input is then empty.  Names that    *)
(* begin with c are the compressor's.                                         *)
(***************************************************************************)
EXTENDS Integers, Sequences

CONSTANTS
  MAX_NUMBER_BLOCKS,  (* blocks that fit either workshop's buffers          *)
  MaxBlocks,          (* bound: blocks of the longest file                  *)
  Streams             (* other programs' streams, without the identifier    *)

(* A chunk as it is read: last is what pop says with its last byte.          *)
Chunks == [id : Nat, data : Nat, tiny : BOOLEAN, size : Nat, last : BOOLEAN]
ASSUME RoundTripAssumption ==
  /\ MAX_NUMBER_BLOCKS \in Nat \ {0, 1}
  /\ MaxBlocks \in Nat \ {0}
  /\ \A s \in Streams :
       s # <<>> /\ s \in Seq(Chunks) /\ \A n \in 1..Len(s) : s[n].last <=> n = Len(s)

VARIABLES
  framed,
  input, cpc, popped, clast, numBlocks, bIdx,
  cInputBufferHost, cOutputBufferHost, compressedSizeBufferHost,
  pc, read, last, blockNum, compressedBlockNum, notCompressedBlockNum,
  isCompressed, inputBufferHost, decompressedSizeBufferHost,
  notCompressedBufferHost, notCompressedSizeBufferHost, outputBufferHost,
  blockIdx, compressedIdx, notCompressedIdx, restored

C == INSTANCE SnappyCompress
       WITH pc <- cpc, last <- clast, inputBufferHost <- cInputBufferHost,
            outputBufferHost <- cOutputBufferHost
D == INSTANCE SnappyDecompress
       WITH maxNumBlocks <- MAX_NUMBER_BLOCKS

cvars == <<input, cpc, popped, clast, numBlocks, bIdx, cInputBufferHost,
           cOutputBufferHost, compressedSizeBufferHost>>
dvars == <<pc, read, last, blockNum, compressedBlockNum, notCompressedBlockNum,
           isCompressed, inputBufferHost, decompressedSizeBufferHost,
           notCompressedBufferHost, notCompressedSizeBufferHost, outputBufferHost,
           blockIdx, compressedIdx, notCompressedIdx, restored>>
vars == <<framed, cvars, dvars>>

Foreign == input = <<>>
Init ==
  /\ \/ C!Init
     \/ Foreign /\ cpc = "end" /\ framed \in Streams /\ C!Start
  /\ D!Start

SnappyCompress3 == cpc # "end" /\ C!Next /\ UNCHANGED dvars
SnappyDecompress3 == cpc = "end" /\ D!Step /\ UNCHANGED cvars
Done == cpc = "end" /\ D!Stopped /\ UNCHANGED cvars

Next == SnappyCompress3 \/ SnappyDecompress3 \/ Done
Spec == Init /\ [][Next]_vars
FairSpec == Spec /\ WF_vars(SnappyCompress3) /\ WF_vars(SnappyDecompress3)

-----------------------------------------------------------------------------
(* Properties *)

(* The compressor frames every block of the file once and in order, under    *)
(* its own size and, unless it is misplaced, with its own content; only the  *)
(* very last chunk carries the end mark.                                      *)
FramedInOrder == Foreign \/ C!FramedInOrder

(* No batch outgrows the buffers, whatever mix of chunks comes in.           *)
BatchFits == D!BatchFits

(* Whatever mix of chunks comes in, and however the batches fall, the blocks *)
(* go out once each in the order they came (see SnappyDecompress); and what   *)
(* is written to sample/decompress is what was read from the original file,   *)
(* block by block, but for the misplaced blocks of SnappyCompress and a tiny  *)
(* last one, which is missing.                                                *)
Kept(k) == ~C!Misplaced(k) /\ input[k] # "tiny"
FileComesBack ==
  /\ D!RestoredInOrder
  /\ ~Foreign =>
       /\ Len(restored) <= Len(input)
       /\ \A k \in 1..Len(restored) :
            /\ Kept(k) => restored[k].data = k /\ restored[k].size = k
            /\ restored[k].last <=> k = Len(input)

(* The tests' two halves both end, with every block of the file written; so  *)
(* does the second on a stream of valid chunks that ends with a block.        *)
RoundTripEnds ==
  /\ ~Foreign => <>(pc = "end" /\ Len(restored) = Len(input))
  /\ Foreign => D!EndsComplete
=============================================================================
