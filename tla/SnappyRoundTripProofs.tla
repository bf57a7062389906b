----------------------- MODULE SnappyRoundTripProofs ------------------------
(***************************************************************************)
(* Theorems about SnappyRoundTrip, for buffers of any number of blocks,     *)
(* files of any length and any streams of other programs: what the          *)
(* compressor writes, and that the decompressor gives back what it reads.   *)
(***************************************************************************)
EXTENDS SnappyRoundTrip, FiniteSetTheorems, TLAPS

BlockKinds == {"plain", "tiny", "noise"}
Slots == 0..(MAX_NUMBER_BLOCKS - 1)

-----------------------------------------------------------------------------
(* The inductive invariant of the compressor *)

CompressorTypes ==
  /\ input \in Seq(BlockKinds) /\ input # <<>>
  /\ cpc \in {"pop", "kernel", "emit", "end"}
  /\ popped \in Nat /\ numBlocks \in 0..MAX_NUMBER_BLOCKS /\ bIdx \in Nat
  /\ clast \in BOOLEAN
  /\ cInputBufferHost \in [Slots -> Nat]
  /\ cOutputBufferHost \in [Slots -> Nat]
  /\ compressedSizeBufferHost \in [Slots -> BOOLEAN]
  /\ framed \in Seq(Chunks)

(* The blocks before those in the buffer: whole buffers.                     *)
Base == popped - numBlocks
Whole(n) == \E q \in Nat : n = q * MAX_NUMBER_BLOCKS

(* The buffer holds the blocks popped last, in their order, and is full       *)
(* unless it has the end of the input.                                        *)
Buffered ==
  /\ Base \in Nat /\ Whole(Base)
  /\ 0 < numBlocks /\ popped <= Len(input)
  /\ clast <=> popped = Len(input)
  /\ ~clast => numBlocks = MAX_NUMBER_BLOCKS
  /\ \A s \in 0..(numBlocks - 1) : cInputBufferHost[s] = Base + s + 1

Compressed ==
  \A s \in 0..(numBlocks - 1) :
    /\ compressedSizeBufferHost[s] <=> (input[Base + s + 1] # "noise")
    /\ compressedSizeBufferHost[s] => cOutputBufferHost[s] = Base + s + 1

(* What has been framed is as far as the buffers say.                        *)
Progress ==
  /\ cpc = "pop" => /\ Len(framed) = popped /\ Whole(popped) /\ popped < Len(input)
  /\ cpc = "kernel" => /\ Buffered /\ Len(framed) = Base
  /\ cpc = "emit" => /\ Buffered /\ Compressed
                     /\ bIdx < numBlocks /\ Len(framed) = Base + bIdx
  /\ cpc = "end" => Len(framed) = Len(input)

(* A chunk is marked as what the kernel has found of its block.               *)
Marked ==
  \A k \in 1..Len(framed) :
    /\ framed[k].id = IF input[k] = "noise" THEN 1 ELSE 0
    /\ framed[k].tiny <=> input[k] = "tiny"

Compressing == CompressorTypes /\ Progress /\ Marked /\ C!FramedInOrder

-----------------------------------------------------------------------------
(* The inductive invariant of the decompressor *)

Restored == [data : Nat, size : Nat, last : BOOLEAN]
DecompressorTypes ==
  /\ pc \in {"read", "kernel", "emit", "reset", "end", "exit"}
  /\ read \in 0..Len(framed) /\ last \in BOOLEAN
  /\ blockNum \in Nat /\ compressedBlockNum \in Nat /\ notCompressedBlockNum \in Nat
  /\ isCompressed \in [Slots -> BOOLEAN]
  /\ inputBufferHost \in [Slots -> Nat]
  /\ decompressedSizeBufferHost \in [Slots -> Nat]
  /\ notCompressedBufferHost \in [Slots -> Nat]
  /\ notCompressedSizeBufferHost \in [Slots -> Nat]
  /\ outputBufferHost \in [Slots -> Nat]
  /\ blockIdx \in Nat /\ compressedIdx \in Nat /\ notCompressedIdx \in Nat
  /\ restored \in Seq(Restored)

(* A stream to read: its last chunk, and no other, ends it.                  *)
Stream ==
  /\ framed \in Seq(Chunks) /\ framed # <<>>
  /\ \A n \in 1..Len(framed) : framed[n].last <=> n = Len(framed)

B(n) == D!Upto(D!Blocks, n)
Z(n) == D!Upto(D!Places({0}), n)
R(n) == D!Upto(D!Places({1}), n)

(* How many blocks of each kind came before the batch.                       *)
Before == IF pc = "emit" THEN Len(restored) - blockIdx ELSE Len(restored)
ZBefore == Z(read) - compressedBlockNum
RBefore == R(read) - notCompressedBlockNum

(* The counts are those of the blocks read and not restored.                 *)
Counted ==
  /\ compressedBlockNum + notCompressedBlockNum = blockNum
  /\ blockNum <= MAX_NUMBER_BLOCKS - 1
  /\ pc = "exit" \/ (last <=> 0 < read /\ read = Len(framed))
  /\ pc = "read" => blockNum < MAX_NUMBER_BLOCKS - 1
  /\ pc \in {"read", "kernel"} => B(read) = Len(restored) + blockNum
  /\ pc = "emit" => blockIdx < blockNum /\ B(read) = Len(restored) - blockIdx + blockNum
  /\ pc \in {"reset", "end"} => B(read) = Len(restored)
  /\ Len(restored) <= B(read)
  /\ ZBefore \in Nat /\ RBefore \in Nat

(* Each block of the batch is in the buffer of its kind, at the place that    *)
(* the blocks of its kind before it leave.                                    *)
InBatch(n) == n \in D!Blocks /\ B(n) > Before
Collected(n) ==
  /\ isCompressed[B(n) - Before - 1] <=> framed[n].id = 0
  /\ framed[n].id = 0 =>
       /\ ZBefore < Z(n) /\ RBefore <= R(n)
       /\ ~D!Repeated => inputBufferHost[Z(n) - ZBefore - 1] = framed[n].data
       /\ decompressedSizeBufferHost[Z(n) - ZBefore - 1] = D!Varint(framed[n])
  /\ framed[n].id = 1 =>
       /\ RBefore < R(n) /\ ZBefore <= Z(n)
       /\ notCompressedBufferHost[R(n) - RBefore - 1] = framed[n].data
       /\ notCompressedSizeBufferHost[R(n) - RBefore - 1] = framed[n].size
Batch ==
  pc \in {"read", "kernel", "emit"} => \A n \in 1..read : InBatch(n) => Collected(n)

(* Every number of a block belongs to a block.                               *)
Placed == \A i \in 1..B(read) : \E n \in 1..read : n \in D!Blocks /\ B(n) = i

(* The kernel has done the batch, and the cursors are at the next block.     *)
Cursor ==
  pc = "emit" =>
    /\ \A s \in 0..(compressedBlockNum - 1) : outputBufferHost[s] = inputBufferHost[s]
    /\ \A n \in 1..read : n \in D!Blocks /\ B(n) = Len(restored) + 1 =>
         /\ framed[n].id = 0 => /\ compressedIdx = Z(n) - ZBefore - 1
                                /\ notCompressedIdx = R(n) - RBefore
         /\ framed[n].id = 1 => /\ compressedIdx = Z(n) - ZBefore
                                /\ notCompressedIdx = R(n) - RBefore - 1

(* What has gone out, and that the end mark goes with a block at the end.     *)
Emitted ==
  /\ \A n \in D!Blocks : B(n) <= Len(restored) =>
       LET c == framed[n]
           r == restored[B(n)]
       IN /\ r.size = IF c.id = 0 THEN D!Varint(c) ELSE c.size
          /\ ~(c.id = 0 /\ D!Repeated) => r.data = c.data
          /\ r.last => B(n) = Cardinality(D!Blocks)
          /\ n = Len(framed) => r.last

Decompressing ==
  DecompressorTypes /\ Stream /\ Counted /\ Batch /\ Placed /\ Cursor /\ Emitted

(* The compressor's stream is read when it is complete.                      *)
SInv ==
  /\ IF Foreign THEN cpc = "end" /\ framed \in Streams ELSE Compressing
  /\ IF cpc = "end" THEN Decompressing ELSE D!Start

-----------------------------------------------------------------------------
(* Counting places *)

(* Cardinality is the same in the decompressor's module.                     *)
LEMMA SameCardinality ==
  ASSUME NEW S
  PROVE  D!Cardinality(S) = Cardinality(S)
BY DEF Cardinality, D!Cardinality

LEMMA Finite ==
  ASSUME NEW P, NEW n \in Nat
  PROVE  IsFiniteSet(P \cap (1..n))
<1>1. IsFiniteSet(1..n)
  BY FS_Interval
<1>2. P \cap (1..n) \in SUBSET (1..n)
  OBVIOUS
<1> QED BY <1>1, <1>2, FS_Subset

LEMMA UptoStep ==
  ASSUME NEW P, NEW n \in Nat
  PROVE  /\ D!Upto(P, 0) = 0
         /\ D!Upto(P, n) \in Nat
         /\ D!Upto(P, n + 1) = IF n + 1 \in P THEN D!Upto(P, n) + 1 ELSE D!Upto(P, n)
<1>1. P \cap (1..0) = {}
  OBVIOUS
<1>2. IsFiniteSet(P \cap (1..n))
  BY Finite
<1>3. Cardinality(P \cap (1..n)) \in Nat
  BY <1>2, FS_CardinalityType
<1> USE SameCardinality
<1>4. CASE n + 1 \in P
  <2>1. P \cap (1..(n + 1)) = (P \cap (1..n)) \cup {n + 1}
    BY <1>4
  <2>2. n + 1 \notin P \cap (1..n)
    OBVIOUS
  <2>3. Cardinality((P \cap (1..n)) \cup {n + 1}) = Cardinality(P \cap (1..n)) + 1
    BY <1>2, <2>2, FS_AddElement
  <2> QED BY <1>1, <1>3, <1>4, <2>1, <2>3, FS_EmptySet DEF D!Upto
<1>5. CASE n + 1 \notin P
  <2>1. P \cap (1..(n + 1)) = P \cap (1..n)
    BY <1>5
  <2> QED BY <1>1, <1>3, <1>5, <2>1, FS_EmptySet DEF D!Upto
<1> QED BY <1>4, <1>5

LEMMA UptoMonotone ==
  ASSUME NEW P, NEW m \in Nat, NEW n \in Nat, m <= n
  PROVE  /\ D!Upto(P, m) <= D!Upto(P, n)
         /\ (m < n /\ n \in P) => (D!Upto(P, m) < D!Upto(P, n))
<1> DEFINE Below(k) == P \cap (1..k)
<1>1. ASSUME NEW j \in Nat, NEW k \in Nat, j <= k PROVE D!Upto(P, j) <= D!Upto(P, k)
  <2>1. Below(j) \subseteq Below(k)
    BY <1>1
  <2>2. IsFiniteSet(Below(k))
    BY Finite
  <2>3. Cardinality(Below(j)) <= Cardinality(Below(k))
    BY <2>1, <2>2, FS_Subset
  <2> QED BY <2>3, SameCardinality DEF D!Upto
<1>2. CASE m < n /\ n \in P
  <2>1. n - 1 \in Nat /\ m <= n - 1 /\ n = (n - 1) + 1
    BY <1>2
  <2>2. D!Upto(P, m) <= D!Upto(P, n - 1)
    BY <1>1, <2>1
  <2>3. D!Upto(P, n) = D!Upto(P, n - 1) + 1
    BY <1>2, <2>1, UptoStep
  <2> QED BY <1>1, <2>1, <2>2, <2>3, UptoStep
<1> QED BY <1>1, <1>2

(* The numbers of a place among all blocks, and among those of each kind.    *)
LEMMA Numbers ==
  ASSUME framed \in Seq(Chunks), NEW n \in Nat
  PROVE  /\ B(n) \in Nat /\ Z(n) \in Nat /\ R(n) \in Nat
         /\ B(n) = Z(n) + R(n)
         /\ B(n) <= Cardinality(D!Blocks)
         /\ B(Len(framed)) = Cardinality(D!Blocks)
<1> DEFINE zs == D!Places({0}) \cap (1..n)
           rs == D!Places({1}) \cap (1..n)
<1>1. IsFiniteSet(zs) /\ IsFiniteSet(rs) /\ IsFiniteSet(D!Blocks)
  <2>1. D!Blocks = D!Blocks \cap (1..Len(framed)) /\ Len(framed) \in Nat
    BY DEF D!Blocks, D!Places
  <2>2. IsFiniteSet(D!Blocks \cap (1..Len(framed)))
    BY <2>1, Finite
  <2>3. IsFiniteSet(zs) /\ IsFiniteSet(rs)
    BY Finite
  <2> QED BY <2>1, <2>2, <2>3
<1>2. zs \cap rs = {} /\ D!Blocks \cap (1..n) = zs \cup rs
  BY DEF D!Places, D!Blocks
<1>3. Cardinality(zs \cup rs) = Cardinality(zs) + Cardinality(rs) - Cardinality(zs \cap rs)
  BY <1>1, FS_Union
<1>4. Cardinality(zs) \in Nat /\ Cardinality(rs) \in Nat /\ Cardinality(zs \cap rs) = 0
  BY <1>1, <1>2, FS_CardinalityType, FS_EmptySet
<1>5. B(n) = Z(n) + R(n)
  <2>1. B(n) = Cardinality(zs \cup rs) /\ Z(n) = Cardinality(zs) /\ R(n) = Cardinality(rs)
    BY <1>2, SameCardinality DEF B, Z, R, D!Upto
  <2> QED BY <1>3, <1>4, <2>1
<1>6. D!Blocks \cap (1..n) \subseteq D!Blocks /\ D!Blocks \cap (1..Len(framed)) = D!Blocks
  BY DEF D!Blocks, D!Places
<1>7. B(n) <= Cardinality(D!Blocks) /\ B(Len(framed)) = Cardinality(D!Blocks)
  BY <1>1, <1>6, FS_Subset, SameCardinality DEF B, D!Upto
<1> QED BY <1>4, <1>5, <1>7, SameCardinality DEF B, Z, R, D!Upto

(* The numbers of the next place.                                            *)
LEMMA NextNumbers ==
  ASSUME framed \in Seq(Chunks), NEW n \in Nat, n < Len(framed)
  PROVE  /\ B(n + 1) = IF framed[n + 1].id \in {0, 1} THEN B(n) + 1 ELSE B(n)
         /\ Z(n + 1) = IF framed[n + 1].id = 0 THEN Z(n) + 1 ELSE Z(n)
         /\ R(n + 1) = IF framed[n + 1].id = 1 THEN R(n) + 1 ELSE R(n)
<1>1. n + 1 \in 1..Len(framed)
  OBVIOUS
<1>2. /\ n + 1 \in D!Blocks <=> framed[n + 1].id \in {0, 1}
      /\ n + 1 \in D!Places({0}) <=> framed[n + 1].id = 0
      /\ n + 1 \in D!Places({1}) <=> framed[n + 1].id = 1
  BY <1>1 DEF D!Blocks, D!Places
<1> QED BY <1>2, UptoStep DEF B, Z, R

(* Of two places, the later one has no lower numbers, and a block no equal    *)
(* one.                                                                        *)
LEMMA LaterNumbers ==
  ASSUME framed \in Seq(Chunks), NEW m \in Nat, NEW n \in 1..Len(framed), m < n
  PROVE  /\ B(m) <= B(n) /\ Z(m) <= Z(n) /\ R(m) <= R(n)
         /\ n \in D!Blocks => B(m) < B(n)
         /\ framed[n].id = 0 => Z(m) < Z(n)
         /\ framed[n].id = 1 => R(m) < R(n)
<1>1. /\ framed[n].id = 0 => n \in D!Places({0})
      /\ framed[n].id = 1 => n \in D!Places({1})
  BY DEF D!Places
<1> QED BY <1>1, UptoMonotone DEF B, Z, R

-----------------------------------------------------------------------------
(* The compressor *)

LEMMA WholeBuffers ==
  ASSUME NEW n \in Nat, Whole(n)
  PROVE  /\ Whole(n + MAX_NUMBER_BLOCKS)
         /\ \A r \in 1..(MAX_NUMBER_BLOCKS - 1) : (n + r) % MAX_NUMBER_BLOCKS # 0
<1>1. PICK q \in Nat : n = q * MAX_NUMBER_BLOCKS
  BY DEF Whole
<1>2. n + MAX_NUMBER_BLOCKS = (q + 1) * MAX_NUMBER_BLOCKS
  BY <1>1, RoundTripAssumption
<1>3. ASSUME NEW r \in 1..(MAX_NUMBER_BLOCKS - 1)
      PROVE  (q * MAX_NUMBER_BLOCKS + r) % MAX_NUMBER_BLOCKS = r
  BY RoundTripAssumption, SMTT(30)
<1> QED BY <1>1, <1>2, <1>3 DEF Whole

LEMMA CompressingInit ==
  ASSUME C!Init
  PROVE  Compressing /\ input # <<>> /\ cpc # "end"
<1>1. PICK n \in 1..MaxBlocks : input \in [1..n -> BlockKinds]
  BY DEF C!Init, C!Inputs, BlockKinds
<1>2. input \in Seq(BlockKinds) /\ input # <<>> /\ Len(input) = n
  BY <1>1, RoundTripAssumption
<1>3. Whole(0)
  BY RoundTripAssumption DEF Whole
<1>4. /\ cpc = "pop" /\ framed = <<>>
      /\ popped = 0 /\ clast = FALSE /\ numBlocks = 0 /\ bIdx = 0
      /\ cInputBufferHost \in [Slots -> Nat]
      /\ cOutputBufferHost \in [Slots -> Nat]
      /\ compressedSizeBufferHost \in [Slots -> BOOLEAN]
  BY DEF C!Init, C!Start, C!Slots, Slots, C!Garbage
<1>5. CompressorTypes
  <2>1. <<>> \in Seq(Chunks)
    OBVIOUS
  <2>2. framed \in Seq(Chunks)
    BY <1>4, <2>1
  <2>3. numBlocks \in 0..MAX_NUMBER_BLOCKS /\ popped \in Nat /\ bIdx \in Nat
    BY <1>4, RoundTripAssumption
  <2>5. clast \in BOOLEAN
    BY <1>4
  <2>4. cpc \in {"pop", "kernel", "emit", "end"}
    BY <1>4
  <2> QED BY <1>2, <1>4, <2>2, <2>3, <2>4, <2>5 DEF CompressorTypes
<1> QED BY <1>1, <1>2, <1>3, <1>4, <1>5
        DEF Compressing, Progress, Marked, C!FramedInOrder

LEMMA PopChunkStep ==
  ASSUME Compressing, C!PopChunk
  PROVE  Compressing' /\ cpc' # "end"
<1> USE RoundTripAssumption DEF Compressing, C!PopChunk
<1>1. /\ popped \in Nat /\ popped < Len(input) /\ Len(input) \in Nat
      /\ Whole(popped) /\ Len(framed) = popped
  BY DEF CompressorTypes, Progress
<1>2. /\ numBlocks' \in 1..MAX_NUMBER_BLOCKS /\ popped' = popped + numBlocks'
      /\ popped' <= Len(input) /\ popped' \in Nat
      /\ popped' # Len(input) => numBlocks' = MAX_NUMBER_BLOCKS
  BY <1>1 DEF C!NumBlocks, C!Left
<1>3. CompressorTypes'
  <2>1. cInputBufferHost' \in [Slots -> Nat]
    BY <1>1, <1>2 DEF CompressorTypes, C!Slots, Slots
  <2> QED BY <1>2, <2>1 DEF CompressorTypes
<1>4. Base' = popped /\ Whole(Base)'
  BY <1>1, <1>2 DEF Base, Whole
<1>5. \A s \in 0..(numBlocks' - 1) : cInputBufferHost'[s] = popped + s + 1
  BY <1>2 DEF C!Slots
<1>6. Progress'
  <2>1. (clast' <=> popped' = Len(input')) /\ clast' \in BOOLEAN
    OBVIOUS
  <2>2. Buffered'
    BY <1>1, <1>2, <1>4, <1>5, <2>1 DEF Buffered
  <2> QED BY <1>1, <1>4, <2>2 DEF Progress
<1>7. Marked' /\ C!FramedInOrder'
  BY DEF Marked, C!FramedInOrder, C!Misplaced
<1> QED BY <1>3, <1>6, <1>7

LEMMA CompressStep ==
  ASSUME Compressing, C!Compress
  PROVE  Compressing' /\ cpc' # "end"
<1> USE RoundTripAssumption DEF Compressing, C!Compress
<1>1. Buffered /\ Len(framed) = Base /\ numBlocks \in 0..MAX_NUMBER_BLOCKS
  BY DEF CompressorTypes, Progress
<1>2. \A s \in 0..(numBlocks - 1) :
        s \in Slots /\ cInputBufferHost[s] = Base + s + 1 /\ Base + s + 1 \in Nat
  BY <1>1 DEF Buffered, Slots
<1>3. CompressorTypes'
  <2>1. cOutputBufferHost' \in [Slots -> Nat]
    BY DEF CompressorTypes, C!Slots, Slots, C!Garbage
  <2>2. compressedSizeBufferHost' \in [Slots -> BOOLEAN]
    BY DEF CompressorTypes, C!Slots, Slots
  <2> QED BY <2>1, <2>2 DEF CompressorTypes
<1>4. Base' = Base /\ Buffered'
  BY <1>1 DEF Base, Buffered, Whole
<1>5. Compressed'
  <2>1. ASSUME NEW s \in 0..(numBlocks - 1)
        PROVE  /\ compressedSizeBufferHost'[s] <=> (input[Base + s + 1] # "noise")
               /\ compressedSizeBufferHost'[s] => cOutputBufferHost'[s] = Base + s + 1
    <3>1. s \in C!Slots /\ ~(s >= numBlocks) /\ cInputBufferHost[s] = Base + s + 1
      BY <1>1, <1>2 DEF C!Slots, Slots
    <3>2. compressedSizeBufferHost'[s] = (input[Base + s + 1] # "noise")
      BY <3>1
    <3>3. cOutputBufferHost'[s] = IF input[Base + s + 1] = "noise" THEN C!Garbage ELSE Base + s + 1
      BY <3>1
    <3> QED BY <3>2, <3>3
  <2> QED BY <1>4, <2>1 DEF Compressed
<1>6. Progress'
  BY <1>1, <1>4, <1>5 DEF Progress, Buffered, Base, CompressorTypes
<1>7. Marked' /\ C!FramedInOrder'
  BY DEF Marked, C!FramedInOrder, C!Misplaced
<1> QED BY <1>3, <1>6, <1>7

LEMMA EmitChunkStep ==
  ASSUME Compressing, C!EmitBlock
  PROVE  Compressing' /\ (cpc' = "end" => Stream')
<1> USE RoundTripAssumption DEF Compressing, C!EmitBlock
<1> DEFINE k == Base + bIdx + 1
           chunk == IF compressedSizeBufferHost[bIdx] THEN C!CompressedChunk(k) ELSE C!RawChunk(k)
<1>1. /\ Buffered /\ Compressed /\ bIdx < numBlocks /\ Len(framed) = Base + bIdx
      /\ numBlocks \in 1..MAX_NUMBER_BLOCKS /\ bIdx \in 0..(numBlocks - 1) /\ bIdx \in Slots
      /\ popped \in Nat /\ Base \in Nat /\ Len(input) \in Nat
  BY SMTT(30) DEF CompressorTypes, Progress, Buffered, Slots
<1>2. k \in 1..Len(input) /\ k = Len(framed) + 1 /\ k = popped - numBlocks + bIdx + 1
  BY <1>1 DEF Buffered, Base
<1>3. framed' = Append(framed, chunk)
  BY <1>2
<1>4. /\ cInputBufferHost[bIdx] = k
      /\ compressedSizeBufferHost[bIdx] <=> (input[k] # "noise")
      /\ compressedSizeBufferHost[bIdx] => cOutputBufferHost[bIdx] = k
      /\ cOutputBufferHost[bIdx] \in Nat
      /\ input[k] \in BlockKinds
  BY <1>1, <1>2 DEF Buffered, Compressed, CompressorTypes
<1>5. C!LastFlag <=> k = Len(input)
  <2>1. clast <=> (popped = Len(input))
    BY <1>1 DEF Buffered
  <2>2. popped <= Len(input) /\ k <= popped /\ (k = popped <=> (bIdx = numBlocks - 1))
    BY <1>1, <1>2 DEF Buffered
  <2>3. (k = Len(input)) <=> (popped = Len(input) /\ bIdx = numBlocks - 1)
    BY <1>1, <2>2
  <2> QED BY <2>1, <2>3 DEF C!LastFlag
<1>6. /\ chunk \in Chunks /\ chunk.size = k
      /\ chunk.id = IF input[k] = "noise" THEN 1 ELSE 0
      /\ chunk.tiny <=> input[k] = "tiny"
      /\ chunk.last <=> k = Len(input)
  <2>1. C!LastFlag \in BOOLEAN /\ k \in Nat /\ cInputBufferHost[bIdx] \in Nat
    BY <1>1, <1>2, <1>4 DEF C!LastFlag, CompressorTypes
  <2>2. CASE compressedSizeBufferHost[bIdx]
    BY <2>1, <2>2, <1>4, <1>5 DEF C!CompressedChunk, Chunks
  <2>3. CASE ~compressedSizeBufferHost[bIdx]
    <3>1. C!RawData \in Nat
      BY <2>1, <1>4 DEF C!RawData
    <3> QED BY <2>1, <2>3, <3>1, <1>4, <1>5 DEF C!RawChunk, Chunks
  <2> QED BY <2>2, <2>3
<1>7. ~C!Misplaced(k) => chunk.data = k
  <2>1. CASE input[k] # "noise"
    BY <2>1, <1>4 DEF C!CompressedChunk
  <2>2. CASE input[k] = "noise" /\ bIdx = numBlocks - 1
    BY <2>2, <1>4 DEF C!RawChunk, C!RawData
  <2>3. CASE input[k] = "noise" /\ bIdx # numBlocks - 1
    <3>1. k < Len(input) /\ bIdx + 1 \in 1..(MAX_NUMBER_BLOCKS - 1)
      BY <1>1, <1>2, <2>3 DEF Buffered, Base
    <3>2. k % MAX_NUMBER_BLOCKS # 0
      <4>1. (Base + (bIdx + 1)) % MAX_NUMBER_BLOCKS # 0
        BY <1>1, <3>1, WholeBuffers DEF Buffered
      <4> QED BY <1>1, <4>1
    <3> QED BY <2>3, <3>1, <3>2 DEF C!Misplaced
  <2> QED BY <2>1, <2>2, <2>3
<1>8. /\ framed' \in Seq(Chunks) /\ Len(framed') = k
      /\ framed'[k] = chunk
      /\ \A i \in 1..Len(framed) : framed'[i] = framed[i]
      /\ \A i \in 1..k : i = k \/ i \in 1..Len(framed)
  BY <1>2, <1>3, <1>6 DEF CompressorTypes
<1> HIDE DEF chunk
<1>9. CompressorTypes'
  BY <1>1, <1>8 DEF CompressorTypes
<1>10. Base' = Base /\ Buffered' /\ (cpc' = "emit" => Compressed')
  BY <1>1 DEF Base, Buffered, Compressed, Whole
<1>11. Progress'
  <2>1. CASE bIdx + 1 < numBlocks
    BY <2>1, <1>1, <1>2, <1>8, <1>10 DEF Progress, CompressorTypes
  <2>2. CASE ~(bIdx + 1 < numBlocks) /\ clast
    BY SMTT(30), <2>2, <1>1, <1>2, <1>8 DEF Progress, Buffered, Base
  <2>3. CASE ~(bIdx + 1 < numBlocks) /\ ~clast
    <3>1. popped = Base + MAX_NUMBER_BLOCKS /\ k = popped /\ popped < Len(input)
      BY <2>3, <1>1, <1>2 DEF Buffered, Base
    <3>2. Whole(popped)
      BY <3>1, <1>1, WholeBuffers DEF Buffered
    <3> QED BY <2>3, <3>1, <3>2, <1>8 DEF Progress, Whole
  <2> QED BY <2>1, <2>2, <2>3
<1>12. Marked'
  BY <1>6, <1>8 DEF Marked
<1>13. C!FramedInOrder'
  BY <1>6, <1>7, <1>8 DEF C!FramedInOrder, C!Misplaced
<1>14. cpc' = "end" => Stream'
  BY <1>2, <1>8, <1>11, <1>13 DEF Stream, Progress, C!FramedInOrder
<1> QED BY <1>9, <1>11, <1>12, <1>13, <1>14

-----------------------------------------------------------------------------
(* The decompressor *)

LEMMA DecompressingStart ==
  ASSUME D!Start, Stream
  PROVE  Decompressing
<1>1. /\ pc = "read" /\ read = 0 /\ last = FALSE /\ restored = <<>>
      /\ blockNum = 0 /\ compressedBlockNum = 0 /\ notCompressedBlockNum = 0
  BY DEF D!Start
<1>2. DecompressorTypes
  <2>1. /\ isCompressed \in [Slots -> BOOLEAN]
        /\ inputBufferHost \in [Slots -> Nat]
        /\ decompressedSizeBufferHost \in [Slots -> Nat]
        /\ notCompressedBufferHost \in [Slots -> Nat]
        /\ notCompressedSizeBufferHost \in [Slots -> Nat]
        /\ outputBufferHost \in [Slots -> Nat]
        /\ blockIdx \in Nat /\ compressedIdx \in Nat /\ notCompressedIdx \in Nat
    BY DEF D!Start, D!Slots, Slots, D!Garbage
  <2>2. restored \in Seq(Restored) /\ read \in 0..Len(framed)
    BY <1>1 DEF Stream
  <2> QED BY <1>1, <2>1, <2>2 DEF DecompressorTypes
<1>3. B(0) = 0 /\ Z(0) = 0 /\ R(0) = 0
  BY UptoStep DEF B, Z, R
<1>4. Counted
  BY <1>1, <1>3, RoundTripAssumption DEF Counted, ZBefore, RBefore
<1>5. Batch /\ Placed /\ Cursor
  BY <1>1, <1>3 DEF Batch, Placed, Cursor
<1>6. Emitted
  <2>1. ASSUME NEW n \in D!Blocks PROVE ~(B(n) <= Len(restored))
    <3>1. n \in 1..Len(framed)
      BY DEF D!Blocks, D!Places
    <3>2. B(0) < B(n)
      BY <3>1, LaterNumbers DEF Stream
    <3>3. B(n) \in Nat
      BY <3>1, Numbers DEF Stream
    <3> QED BY <1>1, <1>3, <3>2, <3>3
  <2> QED BY <2>1 DEF Emitted
<1> QED BY <1>2, <1>4, <1>5, <1>6 DEF Decompressing

(* The numbers stay when the stream does.                                    *)
LEMMA SameNumbers ==
  ASSUME UNCHANGED framed
  PROVE  /\ D!Blocks' = D!Blocks /\ (D!Repeated' <=> D!Repeated)
         /\ Cardinality(D!Blocks)' = Cardinality(D!Blocks)
         /\ \A n : B(n)' = B(n) /\ Z(n)' = Z(n) /\ R(n)' = R(n)
         /\ B(read)' = B(read') /\ Z(read)' = Z(read') /\ R(read)' = R(read')
<1>1. /\ D!Blocks' = D!Blocks /\ D!Places({0})' = D!Places({0})
      /\ D!Places({1})' = D!Places({1}) /\ D!Places({255})' = D!Places({255})
  BY DEF D!Blocks, D!Places
<1> QED BY <1>1 DEF B, Z, R, D!Repeated

(* What is known of any place in the stream.                                 *)
LEMMA Places ==
  ASSUME Decompressing
  PROVE  /\ framed \in Seq(Chunks) /\ Len(framed) \in Nat /\ read \in Nat /\ read <= Len(framed)
         /\ B(read) \in Nat /\ Z(read) \in Nat /\ R(read) \in Nat
         /\ B(read) = Z(read) + R(read)
         /\ \A n \in 1..Len(framed) :
              /\ B(n) \in Nat /\ Z(n) \in Nat /\ R(n) \in Nat /\ B(n) = Z(n) + R(n)
              /\ n <= read => B(n) <= B(read) /\ Z(n) <= Z(read) /\ R(n) <= R(read)
              /\ n \in D!Blocks <=> framed[n].id \in {0, 1}
              /\ framed[n] \in Chunks
         /\ \A n \in D!Blocks : n \in 1..Len(framed)
<1>1. framed \in Seq(Chunks) /\ Len(framed) \in Nat /\ read \in Nat /\ read <= Len(framed)
  BY DEF Decompressing, Stream, DecompressorTypes
<1>2. /\ B(read) \in Nat /\ Z(read) \in Nat /\ R(read) \in Nat
      /\ B(read) = Z(read) + R(read)
  BY <1>1, Numbers
<1>3. ASSUME NEW n \in 1..Len(framed)
      PROVE  /\ B(n) \in Nat /\ Z(n) \in Nat /\ R(n) \in Nat /\ B(n) = Z(n) + R(n)
             /\ n <= read => B(n) <= B(read) /\ Z(n) <= Z(read) /\ R(n) <= R(read)
             /\ n \in D!Blocks <=> framed[n].id \in {0, 1}
             /\ framed[n] \in Chunks
  <2>1. B(n) \in Nat /\ Z(n) \in Nat /\ R(n) \in Nat /\ B(n) = Z(n) + R(n)
    BY <1>1, Numbers
  <2>2. n <= read => B(n) <= B(read) /\ Z(n) <= Z(read) /\ R(n) <= R(read)
    BY <1>1, UptoMonotone DEF B, Z, R
  <2>3. n \in D!Blocks <=> framed[n].id \in {0, 1}
    BY DEF D!Blocks, D!Places
  <2>4. framed[n] \in Chunks
    BY <1>1
  <2> QED BY <2>1, <2>2, <2>3, <2>4
<1>4. \A n \in D!Blocks : n \in 1..Len(framed)
  BY DEF D!Blocks, D!Places
<1> QED BY <1>1, <1>2, <1>3, <1>4

(* Two blocks never have the same number.                                    *)
LEMMA OneNumber ==
  ASSUME Decompressing, NEW m \in D!Blocks, NEW n \in D!Blocks
  PROVE  /\ m < n <=> B(m) < B(n)
         /\ m = n <=> B(m) = B(n)
<1>1. m \in 1..Len(framed) /\ n \in 1..Len(framed) /\ B(m) \in Nat /\ B(n) \in Nat
      /\ framed \in Seq(Chunks)
  BY Places
<1>2. (m < n => B(m) < B(n)) /\ (n < m => B(n) < B(m))
  BY <1>1, LaterNumbers
<1> QED BY <1>1, <1>2

LEMMA EmittedStays ==
  ASSUME Emitted, UNCHANGED <<framed, restored>>
  PROVE  Emitted'
<1> QED BY SameNumbers DEF Emitted, D!Varint

(* Reading a chunk: the next place, its numbers, and all that does not depend *)
(* on the kind of the chunk.                                                   *)
LEMMA TurnStep ==
  ASSUME Decompressing, D!More, D!EndOfTurn, UNCHANGED <<framed, restored>>
  PROVE  /\ pc = "read" /\ read + 1 \in 1..Len(framed) /\ read' = read + 1
         /\ read' \in 0..Len(framed)
         /\ last' \in BOOLEAN /\ (last' <=> 0 < read' /\ read' = Len(framed'))
         /\ pc' = IF blockNum' = MAX_NUMBER_BLOCKS - 1 \/ last' THEN "kernel" ELSE "read"
         /\ B(read) = Len(restored) + blockNum /\ blockNum < MAX_NUMBER_BLOCKS - 1
         /\ Before = Len(restored) /\ Before' = Len(restored)
         /\ Placed' /\ Cursor' /\ Emitted'
<1>1. pc = "read" /\ read + 1 \in 1..Len(framed) /\ read' = read + 1
  BY Places DEF D!More, D!EndOfTurn
<1>2. /\ last' = framed[read + 1].last
      /\ pc' = IF blockNum' = MAX_NUMBER_BLOCKS - 1 \/ last' THEN "kernel" ELSE "read"
  BY DEF D!EndOfTurn, D!chunk, D!Full
<1>3. last' \in BOOLEAN /\ (last' <=> read + 1 = Len(framed))
  BY <1>1, <1>2, Places DEF Decompressing, Stream, Chunks
<1>4. B(read) = Len(restored) + blockNum /\ blockNum < MAX_NUMBER_BLOCKS - 1
  BY <1>1 DEF Decompressing, Counted
<1>5. Before = Len(restored) /\ Before' = Len(restored)
  BY <1>1, <1>2 DEF Before
<1>6. Placed'
  <2> SUFFICES ASSUME NEW i \in 1..B(read + 1)
               PROVE  \E n \in 1..(read + 1) : n \in D!Blocks /\ B(n) = i
    BY <1>1, SameNumbers DEF Placed
  <2>1. B(read + 1) = IF framed[read + 1].id \in {0, 1} THEN B(read) + 1 ELSE B(read)
    <3>1. framed \in Seq(Chunks) /\ read \in Nat /\ read < Len(framed)
      BY <1>1, Places
    <3> QED BY <3>1, NextNumbers
  <2>2. CASE i \in 1..B(read)
    <3>1. PICK n \in 1..read : n \in D!Blocks /\ B(n) = i
      BY <2>2 DEF Decompressing, Placed
    <3>2. n \in 1..(read + 1)
      BY Places
    <3> QED BY <3>1, <3>2
  <2>3. CASE i \notin 1..B(read)
    <3>1. i = B(read + 1) /\ read + 1 \in D!Blocks
      BY <1>1, <2>1, <2>3, Places
    <3> QED BY <3>1, <1>1
  <2> QED BY <2>2, <2>3
<1>7. Cursor' /\ Emitted'
  BY <1>2, EmittedStays DEF Cursor, Decompressing
<1> QED BY <1>1, <1>2, <1>3, <1>4, <1>5, <1>6, <1>7

LEMMA BelowSlot ==
  ASSUME NEW s \in Slots, NEW x \in 0..(s - 1)
  PROVE  x \in Slots /\ x # s
BY RoundTripAssumption DEF Slots

(* Where a block of the batch is.                                            *)
LEMMA BatchPlaces ==
  ASSUME Decompressing, pc \in {"read", "kernel", "emit"}, NEW n \in 1..read, InBatch(n)
  PROVE  /\ Collected(n) /\ framed[n].id \in {0, 1}
         /\ B(n) - Before - 1 \in 0..(blockNum - 1)
         /\ Z(n) - ZBefore + (R(n) - RBefore) = B(n) - Before
         /\ framed[n].id = 0 => Z(n) - ZBefore - 1 \in 0..(compressedBlockNum - 1)
         /\ framed[n].id = 1 => R(n) - RBefore - 1 \in 0..(notCompressedBlockNum - 1)
<1>1. /\ n \in 1..Len(framed) /\ n <= read /\ framed[n].id \in {0, 1}
      /\ B(n) \in Nat /\ Z(n) \in Nat /\ R(n) \in Nat /\ B(n) = Z(n) + R(n)
      /\ B(n) <= B(read) /\ Z(n) <= Z(read) /\ R(n) <= R(read)
      /\ B(read) \in Nat /\ Z(read) \in Nat /\ R(read) \in Nat
      /\ B(read) = Z(read) + R(read) /\ Before < B(n)
  <2>1. n \in 1..Len(framed) /\ n <= read
    BY Places
  <2> QED BY <2>1, Places DEF InBatch
<1>2. Collected(n)
  BY DEF Decompressing, Batch
<1>3. /\ blockNum \in Nat /\ compressedBlockNum \in Nat /\ notCompressedBlockNum \in Nat
      /\ compressedBlockNum + notCompressedBlockNum = blockNum
      /\ ZBefore = Z(read) - compressedBlockNum /\ RBefore = R(read) - notCompressedBlockNum
      /\ ZBefore \in Nat /\ RBefore \in Nat
  BY DEF Decompressing, DecompressorTypes, Counted, ZBefore, RBefore
<1>4. B(read) = Before + blockNum /\ Before \in Int
  <2>1. Len(restored) \in Nat /\ blockIdx \in Nat
    BY DEF Decompressing, DecompressorTypes
  <2>2. CASE pc = "emit"
    BY <1>1, <1>3, <2>1, <2>2 DEF Decompressing, Counted, Before
  <2>3. CASE pc # "emit"
    BY <1>1, <1>3, <2>1, <2>3 DEF Decompressing, Counted, Before
  <2> QED BY <2>2, <2>3
<1>5. PICK b \in Nat, z \in Nat, r \in Nat, be \in Int, zb \in Nat, rb \in Nat :
        b = B(n) /\ z = Z(n) /\ r = R(n) /\ be = Before /\ zb = ZBefore /\ rb = RBefore
  BY <1>1, <1>3, <1>4
<1>6. PICK br \in Nat, zr \in Nat, rr \in Nat : br = B(read) /\ zr = Z(read) /\ rr = R(read)
  BY <1>1
<1>7. /\ b = z + r /\ b <= br /\ z <= zr /\ r <= rr /\ br = zr + rr /\ be < b
      /\ zb = zr - compressedBlockNum /\ rb = rr - notCompressedBlockNum
      /\ br = be + blockNum
  BY <1>1, <1>3, <1>4, <1>5, <1>6
<1>8. b - be - 1 \in 0..(blockNum - 1) /\ z - zb + (r - rb) = b - be
  BY <1>3, <1>7
<1>9. ASSUME framed[n].id = 0 PROVE z - zb - 1 \in 0..(compressedBlockNum - 1)
  <2>1. zb < z
    BY <1>2, <1>5, <1>9 DEF Collected
  <2> QED BY <1>3, <1>7, <2>1
<1>10. ASSUME framed[n].id = 1 PROVE r - rb - 1 \in 0..(notCompressedBlockNum - 1)
  <2>1. rb < r
    BY <1>2, <1>5, <1>10 DEF Collected
  <2> QED BY <1>3, <1>7, <2>1
<1> QED BY <1>1, <1>2, <1>5, <1>8, <1>9, <1>10

LEMMA CompressedBlockStep ==
  ASSUME Decompressing, D!CompressedBlock
  PROVE  Decompressing'
<1> DEFINE m == read + 1
<1>1. D!More /\ D!EndOfTurn /\ UNCHANGED <<framed, restored>> /\ framed[m].id = 0
  BY DEF D!CompressedBlock, D!chunk
<1>2. /\ pc = "read" /\ m \in 1..Len(framed) /\ read' = m /\ m \in 0..Len(framed)
      /\ last' \in BOOLEAN /\ (last' <=> 0 < read' /\ read' = Len(framed'))
      /\ pc' = IF blockNum' = MAX_NUMBER_BLOCKS - 1 \/ last' THEN "kernel" ELSE "read"
      /\ B(read) = Len(restored) + blockNum /\ blockNum < MAX_NUMBER_BLOCKS - 1
      /\ Before = Len(restored) /\ Before' = Len(restored)
      /\ Placed' /\ Cursor' /\ Emitted'
  BY <1>1, TurnStep
<1>3. B(m) = B(read) + 1 /\ Z(m) = Z(read) + 1 /\ R(m) = R(read)
  <2>1. framed \in Seq(Chunks) /\ read \in Nat /\ read < Len(framed)
    BY <1>2, Places
  <2> QED BY <2>1, <1>1, NextNumbers
<1>4. /\ blockNum \in Nat /\ compressedBlockNum \in Nat /\ notCompressedBlockNum \in Nat
      /\ compressedBlockNum + notCompressedBlockNum = blockNum
      /\ MAX_NUMBER_BLOCKS \in Nat
      /\ blockNum \in Slots /\ compressedBlockNum \in Slots
      /\ ZBefore \in Nat /\ RBefore \in Nat /\ Len(restored) \in Nat
      /\ ZBefore = Z(read) - compressedBlockNum /\ RBefore = R(read) - notCompressedBlockNum
      /\ B(read) \in Nat /\ Z(read) \in Nat /\ R(read) \in Nat /\ read \in Nat
  <2>1. /\ blockNum \in Nat /\ compressedBlockNum \in Nat /\ notCompressedBlockNum \in Nat
        /\ compressedBlockNum + notCompressedBlockNum = blockNum
        /\ ZBefore \in Nat /\ RBefore \in Nat /\ Len(restored) \in Nat
    BY DEF Decompressing, DecompressorTypes, Counted
  <2>2. ZBefore = Z(read) - compressedBlockNum /\ RBefore = R(read) - notCompressedBlockNum
    BY DEF ZBefore, RBefore
  <2>3. MAX_NUMBER_BLOCKS \in Nat /\ blockNum < MAX_NUMBER_BLOCKS - 1
    BY <1>2, RoundTripAssumption
  <2>4. blockNum \in Slots /\ compressedBlockNum \in Slots
    BY <2>1, <2>3 DEF Slots
  <2>5. B(read) \in Nat /\ Z(read) \in Nat /\ R(read) \in Nat /\ read \in Nat
    BY Places
  <2> QED BY <2>1, <2>2, <2>3, <2>4, <2>5
<1>5. /\ blockNum' = blockNum + 1 /\ compressedBlockNum' = compressedBlockNum + 1
      /\ notCompressedBlockNum' = notCompressedBlockNum
      /\ framed' = framed /\ restored' = restored /\ UNCHANGED D!cursor
      /\ UNCHANGED <<notCompressedBufferHost, notCompressedSizeBufferHost, outputBufferHost>>
      /\ inputBufferHost' = [inputBufferHost EXCEPT ![compressedBlockNum] = framed[m].data]
      /\ decompressedSizeBufferHost' =
           [decompressedSizeBufferHost EXCEPT ![compressedBlockNum] = D!Varint(framed[m])]
      /\ isCompressed' = [isCompressed EXCEPT ![blockNum] = TRUE]
  BY DEF D!CompressedBlock, D!chunk
<1>6. /\ B(read)' = B(read) + 1 /\ ZBefore' = ZBefore /\ RBefore' = RBefore
  <2>1. B(read)' = B(m) /\ Z(read)' = Z(m) /\ R(read)' = R(m)
    BY <1>2, <1>5, SameNumbers
  <2> QED BY <2>1, <1>3, <1>4, <1>5, Places DEF ZBefore, RBefore
<1>7. DecompressorTypes'
  <2>1. framed[m].data \in Nat /\ D!Varint(framed[m]) \in Nat
    BY <1>2, Places DEF Chunks, D!Varint
  <2>2. /\ isCompressed' \in [Slots -> BOOLEAN]
        /\ inputBufferHost' \in [Slots -> Nat]
        /\ decompressedSizeBufferHost' \in [Slots -> Nat]
    BY <1>5, <2>1 DEF Decompressing, DecompressorTypes
  <2>3. blockNum' \in Nat /\ compressedBlockNum' \in Nat /\ pc' \in {"read", "kernel"}
    BY <1>2, <1>4, <1>5
  <2> QED BY <1>2, <1>5, <2>2, <2>3 DEF Decompressing, DecompressorTypes, D!cursor
<1>8. Stream'
  BY <1>5 DEF Decompressing, Stream
<1>9. Counted'
  <2>1. blockNum' <= MAX_NUMBER_BLOCKS - 1 /\ compressedBlockNum' + notCompressedBlockNum' = blockNum'
    BY <1>2, <1>4, <1>5
  <2>2. B(read)' = Len(restored)' + blockNum' /\ Len(restored)' <= B(read)'
    BY <1>2, <1>4, <1>5, <1>6
  <2>3. pc' = "read" => blockNum' < MAX_NUMBER_BLOCKS - 1
    BY <1>2, <1>4, <1>5, <2>1
  <2> QED BY <1>2, <1>4, <1>6, <2>1, <2>2, <2>3 DEF Counted
<1>10. Batch'
  <2> SUFFICES ASSUME NEW n \in 1..m, InBatch(n)'
               PROVE  Collected(n)'
    BY <1>2 DEF Batch
  <2>1. /\ n \in 1..Len(framed) /\ framed[n] \in Chunks /\ n \in D!Blocks
        /\ B(n) \in Nat /\ Z(n) \in Nat /\ R(n) \in Nat
        /\ n <= read => B(n) <= B(read) /\ Z(n) <= Z(read) /\ R(n) <= R(read)
        /\ B(n)' = B(n) /\ Z(n)' = Z(n) /\ R(n)' = R(n)
        /\ D!Repeated' <=> D!Repeated
        /\ Before < B(n) /\ InBatch(n)
    BY <1>2, <1>5, SameNumbers, Places DEF InBatch
  <2>2. CASE n <= read
    <3>1. /\ Collected(n) /\ B(n) - Before - 1 \in 0..(blockNum - 1)
          /\ framed[n].id = 0 => Z(n) - ZBefore - 1 \in 0..(compressedBlockNum - 1)
      BY <2>1, <2>2, <1>2, BatchPlaces
    <3>2. B(n) - Before - 1 \in Slots /\ B(n) - Before - 1 # blockNum
      BY <3>1, <1>4, BelowSlot
    <3>3. framed[n].id = 0 =>
            Z(n) - ZBefore - 1 \in Slots /\ Z(n) - ZBefore - 1 # compressedBlockNum
      BY <3>1, <1>4, BelowSlot
    <3>4. /\ isCompressed'[B(n) - Before - 1] = isCompressed[B(n) - Before - 1]
          /\ framed[n].id = 0 =>
               /\ inputBufferHost'[Z(n) - ZBefore - 1] = inputBufferHost[Z(n) - ZBefore - 1]
               /\ decompressedSizeBufferHost'[Z(n) - ZBefore - 1]
                    = decompressedSizeBufferHost[Z(n) - ZBefore - 1]
      BY <1>5, <3>2, <3>3 DEF Decompressing, DecompressorTypes
    <3> QED BY <1>2, <1>5, <1>6, <2>1, <3>1, <3>4 DEF Collected, D!Varint
  <2>3. CASE n = m
    <3>1. B(n) - Before - 1 = blockNum
      BY <1>2, <1>3, <1>4, <2>3
    <3>2. Z(n) - ZBefore - 1 = compressedBlockNum /\ ZBefore < Z(n) /\ RBefore <= R(n)
      <4>1. PICK z \in Nat, r \in Nat, zr \in Nat, rr \in Nat, zb \in Nat, rb \in Nat :
              /\ z = Z(n) /\ r = R(n) /\ zr = Z(read) /\ rr = R(read)
              /\ zb = ZBefore /\ rb = RBefore
        BY <1>4, <2>1
      <4>2. /\ z = zr + 1 /\ r = rr
            /\ zb = zr - compressedBlockNum /\ rb = rr - notCompressedBlockNum
        BY <1>3, <1>4, <2>3, <4>1
      <4>3. z - zb - 1 = compressedBlockNum /\ zb < z /\ rb <= r
        BY <1>4, <4>2
      <4> QED BY <4>1, <4>3
    <3>3. /\ isCompressed'[blockNum] = TRUE
          /\ inputBufferHost'[compressedBlockNum] = framed[m].data
          /\ decompressedSizeBufferHost'[compressedBlockNum] = D!Varint(framed[m])
      BY <1>4, <1>5 DEF Decompressing, DecompressorTypes
    <3>4. /\ isCompressed'[B(n)' - Before' - 1] = TRUE
          /\ inputBufferHost'[Z(n)' - ZBefore' - 1] = framed'[n].data
          /\ decompressedSizeBufferHost'[Z(n)' - ZBefore' - 1] = D!Varint(framed[n])
          /\ ZBefore' < Z(n)' /\ RBefore' <= R(n)' /\ framed'[n].id = 0
      BY <1>1, <1>2, <1>5, <1>6, <2>1, <2>3, <3>1, <3>2, <3>3
    <3> QED BY <1>5, <3>4 DEF Collected, D!Varint
  <2> QED BY <1>4, <2>2, <2>3
<1> QED BY <1>2, <1>7, <1>8, <1>9, <1>10 DEF Decompressing

LEMMA RawBlockStep ==
  ASSUME Decompressing, D!RawBlock
  PROVE  Decompressing'
<1> DEFINE m == read + 1
<1>1. D!More /\ D!EndOfTurn /\ UNCHANGED <<framed, restored>> /\ framed[m].id = 1
  BY DEF D!RawBlock, D!chunk
<1>2. /\ pc = "read" /\ m \in 1..Len(framed) /\ read' = m /\ m \in 0..Len(framed)
      /\ last' \in BOOLEAN /\ (last' <=> 0 < read' /\ read' = Len(framed'))
      /\ pc' = IF blockNum' = MAX_NUMBER_BLOCKS - 1 \/ last' THEN "kernel" ELSE "read"
      /\ B(read) = Len(restored) + blockNum /\ blockNum < MAX_NUMBER_BLOCKS - 1
      /\ Before = Len(restored) /\ Before' = Len(restored)
      /\ Placed' /\ Cursor' /\ Emitted'
  BY <1>1, TurnStep
<1>3. B(m) = B(read) + 1 /\ R(m) = R(read) + 1 /\ Z(m) = Z(read)
  <2>1. framed \in Seq(Chunks) /\ read \in Nat /\ read < Len(framed)
    BY <1>2, Places
  <2> QED BY <2>1, <1>1, NextNumbers
<1>4. /\ blockNum \in Nat /\ compressedBlockNum \in Nat /\ notCompressedBlockNum \in Nat
      /\ compressedBlockNum + notCompressedBlockNum = blockNum
      /\ MAX_NUMBER_BLOCKS \in Nat
      /\ blockNum \in Slots /\ notCompressedBlockNum \in Slots
      /\ ZBefore \in Nat /\ RBefore \in Nat /\ Len(restored) \in Nat
      /\ ZBefore = Z(read) - compressedBlockNum /\ RBefore = R(read) - notCompressedBlockNum
      /\ B(read) \in Nat /\ Z(read) \in Nat /\ R(read) \in Nat /\ read \in Nat
  <2>1. /\ blockNum \in Nat /\ compressedBlockNum \in Nat /\ notCompressedBlockNum \in Nat
        /\ compressedBlockNum + notCompressedBlockNum = blockNum
        /\ ZBefore \in Nat /\ RBefore \in Nat /\ Len(restored) \in Nat
    BY DEF Decompressing, DecompressorTypes, Counted
  <2>2. ZBefore = Z(read) - compressedBlockNum /\ RBefore = R(read) - notCompressedBlockNum
    BY DEF ZBefore, RBefore
  <2>3. MAX_NUMBER_BLOCKS \in Nat /\ blockNum < MAX_NUMBER_BLOCKS - 1
    BY <1>2, RoundTripAssumption
  <2>4. blockNum \in Slots /\ notCompressedBlockNum \in Slots
    BY <2>1, <2>3 DEF Slots
  <2>5. B(read) \in Nat /\ Z(read) \in Nat /\ R(read) \in Nat /\ read \in Nat
    BY Places
  <2> QED BY <2>1, <2>2, <2>3, <2>4, <2>5
<1>5. /\ blockNum' = blockNum + 1 /\ notCompressedBlockNum' = notCompressedBlockNum + 1
      /\ compressedBlockNum' = compressedBlockNum
      /\ framed' = framed /\ restored' = restored /\ UNCHANGED D!cursor
      /\ UNCHANGED <<inputBufferHost, decompressedSizeBufferHost, outputBufferHost>>
      /\ notCompressedBufferHost' =
           [notCompressedBufferHost EXCEPT ![notCompressedBlockNum] = framed[m].data]
      /\ notCompressedSizeBufferHost' =
           [notCompressedSizeBufferHost EXCEPT ![notCompressedBlockNum] = framed[m].size]
      /\ isCompressed' = [isCompressed EXCEPT ![blockNum] = FALSE]
  BY DEF D!RawBlock, D!chunk
<1>6. /\ B(read)' = B(read) + 1 /\ ZBefore' = ZBefore /\ RBefore' = RBefore
  <2>1. B(read)' = B(m) /\ Z(read)' = Z(m) /\ R(read)' = R(m)
    BY <1>2, <1>5, SameNumbers
  <2> QED BY <2>1, <1>3, <1>4, <1>5, Places DEF ZBefore, RBefore
<1>7. DecompressorTypes'
  <2>1. framed[m].data \in Nat /\ framed[m].size \in Nat
    BY <1>2, Places DEF Chunks
  <2>2. /\ isCompressed' \in [Slots -> BOOLEAN]
        /\ notCompressedBufferHost' \in [Slots -> Nat]
        /\ notCompressedSizeBufferHost' \in [Slots -> Nat]
    BY <1>5, <2>1 DEF Decompressing, DecompressorTypes
  <2>3. blockNum' \in Nat /\ notCompressedBlockNum' \in Nat /\ pc' \in {"read", "kernel"}
    BY <1>2, <1>4, <1>5
  <2> QED BY <1>2, <1>5, <2>2, <2>3 DEF Decompressing, DecompressorTypes, D!cursor
<1>8. Stream'
  BY <1>5 DEF Decompressing, Stream
<1>9. Counted'
  <2>1. blockNum' <= MAX_NUMBER_BLOCKS - 1 /\ compressedBlockNum' + notCompressedBlockNum' = blockNum'
    BY <1>2, <1>4, <1>5
  <2>2. B(read)' = Len(restored)' + blockNum' /\ Len(restored)' <= B(read)'
    BY <1>2, <1>4, <1>5, <1>6
  <2>3. pc' = "read" => blockNum' < MAX_NUMBER_BLOCKS - 1
    BY <1>2, <1>4, <1>5, <2>1
  <2> QED BY <1>2, <1>4, <1>6, <2>1, <2>2, <2>3 DEF Counted
<1>10. Batch'
  <2> SUFFICES ASSUME NEW n \in 1..m, InBatch(n)'
               PROVE  Collected(n)'
    BY <1>2 DEF Batch
  <2>1. /\ n \in 1..Len(framed) /\ framed[n] \in Chunks /\ n \in D!Blocks
        /\ B(n) \in Nat /\ Z(n) \in Nat /\ R(n) \in Nat
        /\ n <= read => B(n) <= B(read) /\ Z(n) <= Z(read) /\ R(n) <= R(read)
        /\ B(n)' = B(n) /\ Z(n)' = Z(n) /\ R(n)' = R(n)
        /\ D!Repeated' <=> D!Repeated
        /\ Before < B(n) /\ InBatch(n)
    BY <1>2, <1>5, SameNumbers, Places DEF InBatch
  <2>2. CASE n <= read
    <3>1. /\ Collected(n) /\ B(n) - Before - 1 \in 0..(blockNum - 1)
          /\ framed[n].id = 1 => R(n) - RBefore - 1 \in 0..(notCompressedBlockNum - 1)
      BY <2>1, <2>2, <1>2, BatchPlaces
    <3>2. B(n) - Before - 1 \in Slots /\ B(n) - Before - 1 # blockNum
      BY <3>1, <1>4, BelowSlot
    <3>3. framed[n].id = 1 =>
            R(n) - RBefore - 1 \in Slots /\ R(n) - RBefore - 1 # notCompressedBlockNum
      BY <3>1, <1>4, BelowSlot
    <3>4. /\ isCompressed'[B(n) - Before - 1] = isCompressed[B(n) - Before - 1]
          /\ framed[n].id = 1 =>
               /\ notCompressedBufferHost'[R(n) - RBefore - 1] = notCompressedBufferHost[R(n) - RBefore - 1]
               /\ notCompressedSizeBufferHost'[R(n) - RBefore - 1]
                    = notCompressedSizeBufferHost[R(n) - RBefore - 1]
      BY <1>5, <3>2, <3>3 DEF Decompressing, DecompressorTypes
    <3> QED BY <1>2, <1>5, <1>6, <2>1, <3>1, <3>4 DEF Collected, D!Varint
  <2>3. CASE n = m
    <3>1. B(n) - Before - 1 = blockNum
      BY <1>2, <1>3, <1>4, <2>3
    <3>2. R(n) - RBefore - 1 = notCompressedBlockNum /\ RBefore < R(n) /\ ZBefore <= Z(n)
      <4>1. PICK z \in Nat, r \in Nat, zr \in Nat, rr \in Nat, zb \in Nat, rb \in Nat :
              /\ z = Z(n) /\ r = R(n) /\ zr = Z(read) /\ rr = R(read)
              /\ zb = ZBefore /\ rb = RBefore
        BY <1>4, <2>1
      <4>2. /\ r = rr + 1 /\ z = zr
            /\ zb = zr - compressedBlockNum /\ rb = rr - notCompressedBlockNum
        BY <1>3, <1>4, <2>3, <4>1
      <4>3. r - rb - 1 = notCompressedBlockNum /\ rb < r /\ zb <= z
        BY <1>4, <4>2
      <4> QED BY <4>1, <4>3
    <3>3. /\ isCompressed'[blockNum] = FALSE
          /\ notCompressedBufferHost'[notCompressedBlockNum] = framed[m].data
          /\ notCompressedSizeBufferHost'[notCompressedBlockNum] = framed[m].size
      BY <1>4, <1>5 DEF Decompressing, DecompressorTypes
    <3>4. /\ isCompressed'[B(n)' - Before' - 1] = FALSE
          /\ notCompressedBufferHost'[R(n)' - RBefore' - 1] = framed'[n].data
          /\ notCompressedSizeBufferHost'[R(n)' - RBefore' - 1] = framed[n].size
          /\ RBefore' < R(n)' /\ ZBefore' <= Z(n)' /\ framed'[n].id = 1
      BY <1>1, <1>2, <1>5, <1>6, <2>1, <2>3, <3>1, <3>2, <3>3
    <3> QED BY <1>5, <3>4 DEF Collected, D!Varint
  <2> QED BY <1>4, <2>2, <2>3
<1> QED BY <1>2, <1>7, <1>8, <1>9, <1>10 DEF Decompressing

(* A repeated identifier is no block and leaves the counts alone; it spoils   *)
(* at most data that nothing is claimed of.                                   *)
LEMMA IdentifierStep ==
  ASSUME Decompressing, D!Identifier
  PROVE  Decompressing'
<1> DEFINE m == read + 1
<1>1. D!More /\ D!EndOfTurn /\ UNCHANGED <<framed, restored>> /\ framed[m].id = 255
  BY DEF D!Identifier, D!chunk
<1>2. /\ pc = "read" /\ m \in 1..Len(framed) /\ read' = m /\ m \in 0..Len(framed)
      /\ last' \in BOOLEAN /\ (last' <=> 0 < read' /\ read' = Len(framed'))
      /\ pc' = IF blockNum' = MAX_NUMBER_BLOCKS - 1 \/ last' THEN "kernel" ELSE "read"
      /\ B(read) = Len(restored) + blockNum /\ blockNum < MAX_NUMBER_BLOCKS - 1
      /\ Before = Len(restored) /\ Before' = Len(restored)
      /\ Placed' /\ Cursor' /\ Emitted'
  BY <1>1, TurnStep
<1>3. B(m) = B(read) /\ Z(m) = Z(read) /\ R(m) = R(read)
  <2>1. framed \in Seq(Chunks) /\ read \in Nat /\ read < Len(framed)
    BY <1>2, Places
  <2> QED BY <2>1, <1>1, NextNumbers
<1>4. read \in Nat /\ D!Repeated
  BY <1>1, <1>2, Places DEF D!Repeated, D!Places
<1>5. /\ UNCHANGED <<blockNum, compressedBlockNum, notCompressedBlockNum, framed, restored>>
      /\ UNCHANGED <<isCompressed, decompressedSizeBufferHost, notCompressedBufferHost,
                     notCompressedSizeBufferHost, outputBufferHost>>
      /\ UNCHANGED D!cursor
      /\ inputBufferHost' = [inputBufferHost EXCEPT ![0] = 0]
  BY DEF D!Identifier, D!counts, D!Garbage
<1>6. B(read)' = B(read) /\ ZBefore' = ZBefore /\ RBefore' = RBefore
  <2>1. B(read)' = B(m) /\ Z(read)' = Z(m) /\ R(read)' = R(m)
    BY <1>2, <1>5, SameNumbers
  <2> QED BY <2>1, <1>3, <1>5 DEF ZBefore, RBefore
<1>7. DecompressorTypes'
  <2>1. inputBufferHost' \in [Slots -> Nat]
    BY <1>5 DEF Decompressing, DecompressorTypes
  <2> QED BY <1>2, <1>5, <2>1 DEF Decompressing, DecompressorTypes, D!cursor
<1>8. Stream'
  BY <1>5 DEF Decompressing, Stream
<1>9. Counted'
  BY <1>2, <1>5, <1>6 DEF Decompressing, Counted
<1>10. Batch'
  <2> SUFFICES ASSUME NEW n \in 1..m, InBatch(n)'
               PROVE  Collected(n)'
    BY <1>2 DEF Batch
  <2>1. /\ n \in 1..Len(framed) /\ n \in D!Blocks /\ framed[n].id \in {0, 1}
        /\ B(n)' = B(n) /\ Z(n)' = Z(n) /\ R(n)' = R(n)
        /\ D!Repeated' /\ InBatch(n)
    BY <1>2, <1>4, <1>5, SameNumbers, Places DEF InBatch
  <2>2. n # m
    BY <1>1, <2>1
  <2>3. n \in 1..read
    BY <1>4, <2>2
  <2>4. Collected(n)
    BY <1>2, <2>1, <2>3, BatchPlaces
  <2> QED BY <1>2, <1>4, <1>5, <1>6, <2>1, <2>4 DEF Collected, D!Varint
<1> QED BY <1>2, <1>7, <1>8, <1>9, <1>10 DEF Decompressing

LEMMA InvalidChunkStep ==
  ASSUME Decompressing, D!InvalidChunk
  PROVE  Decompressing'
<1>1. pc' = "exit" /\ UNCHANGED <<framed, read, last, D!counts, D!batch, outputBufferHost,
                                 D!cursor, restored>>
  BY DEF D!InvalidChunk
<1>2. DecompressorTypes' /\ Stream'
  BY <1>1 DEF Decompressing, DecompressorTypes, Stream, D!counts, D!batch, D!cursor
<1>3. B(read)' = B(read) /\ Z(read)' = Z(read) /\ R(read)' = R(read) /\ \A n : B(n)' = B(n)
  BY <1>1, SameNumbers
<1>4. Counted'
  BY <1>1, <1>3 DEF Decompressing, Counted, ZBefore, RBefore, D!counts
<1>5. Batch' /\ Cursor'
  BY <1>1 DEF Batch, Cursor
<1>6. Placed'
  BY <1>1, <1>3, SameNumbers DEF Decompressing, Placed
<1>7. Emitted'
  BY <1>1, EmittedStays DEF Decompressing
<1> QED BY <1>2, <1>4, <1>5, <1>6, <1>7 DEF Decompressing

(* The kernel leaves each block in place; the first block to go out has no   *)
(* other one of the batch before it.                                          *)
LEMMA DecompressStep ==
  ASSUME Decompressing, D!Decompress
  PROVE  Decompressing'
<1>1. /\ pc = "kernel" /\ pc' = IF blockNum = 0 THEN "reset" ELSE "emit"
      /\ UNCHANGED <<framed, read, last, D!counts, D!batch, restored>>
      /\ blockIdx' = 0 /\ compressedIdx' = 0 /\ notCompressedIdx' = 0
      /\ outputBufferHost' = [s \in Slots |-> IF s < compressedBlockNum THEN inputBufferHost[s]
                                              ELSE outputBufferHost[s]]
  BY DEF D!Decompress, D!Slots, Slots
<1>2. /\ B(read)' = B(read) /\ Z(read)' = Z(read) /\ R(read)' = R(read)
      /\ \A n : B(n)' = B(n) /\ Z(n)' = Z(n) /\ R(n)' = R(n)
      /\ D!Blocks' = D!Blocks /\ (D!Repeated' <=> D!Repeated)
  BY <1>1, SameNumbers
<1>3. /\ blockNum \in Nat /\ compressedBlockNum \in Nat /\ notCompressedBlockNum \in Nat
      /\ compressedBlockNum + notCompressedBlockNum = blockNum
      /\ blockNum <= MAX_NUMBER_BLOCKS - 1 /\ Len(restored) \in Nat
      /\ B(read) = Len(restored) + blockNum /\ Before = Len(restored)
      /\ ZBefore \in Nat /\ RBefore \in Nat
  BY <1>1 DEF Decompressing, DecompressorTypes, Counted, Before
<1>4. ZBefore' = ZBefore /\ RBefore' = RBefore /\ Before' = Before
  BY <1>1, <1>2, <1>3 DEF ZBefore, RBefore, Before, D!counts
<1>5. DecompressorTypes' /\ Stream'
  <2>1. outputBufferHost' \in [Slots -> Nat]
    BY <1>1 DEF Decompressing, DecompressorTypes
  <2> QED BY <1>1, <2>1 DEF Decompressing, DecompressorTypes, Stream, D!counts, D!batch
<1>6. Counted'
  BY <1>1, <1>2, <1>3, <1>4 DEF Decompressing, Counted, D!counts
<1>7. Batch'
  <2> SUFFICES ASSUME NEW n \in 1..read, InBatch(n)'
               PROVE  Collected(n)'
    BY <1>1 DEF Batch
  <2>1. InBatch(n) /\ Collected(n)
    BY <1>1, <1>2, <1>4, BatchPlaces DEF InBatch
  <2> QED BY <1>1, <1>2, <1>4, <2>1 DEF Collected, D!Varint, D!batch
<1>8. Placed'
  BY <1>1, <1>2 DEF Decompressing, Placed
<1>9. Cursor'
  <2> SUFFICES ASSUME pc' = "emit" PROVE Cursor'
    BY DEF Cursor
  <2>1. \A s \in 0..(compressedBlockNum - 1) : outputBufferHost'[s] = inputBufferHost'[s]
    BY <1>1, <1>3, RoundTripAssumption DEF Slots, D!batch
  <2>2. ASSUME NEW n \in 1..read, n \in D!Blocks, B(n) = Len(restored) + 1
        PROVE  /\ framed[n].id = 0 => Z(n) - ZBefore - 1 = 0 /\ R(n) - RBefore = 0
               /\ framed[n].id = 1 => Z(n) - ZBefore = 0 /\ R(n) - RBefore - 1 = 0
    <3>1. InBatch(n)
      BY <1>3, <2>2 DEF InBatch
    <3>2. /\ Collected(n) /\ framed[n].id \in {0, 1}
          /\ Z(n) - ZBefore + (R(n) - RBefore) = B(n) - Before
      BY <1>1, <3>1, BatchPlaces
    <3>3. n \in 1..Len(framed)
      BY Places
    <3>4. PICK z \in Nat, r \in Nat, zb \in Nat, rb \in Nat :
            z = Z(n) /\ r = R(n) /\ zb = ZBefore /\ rb = RBefore
      BY <1>3, <3>3, Places
    <3>5. (z - zb) + (r - rb) = 1
      BY <1>3, <2>2, <3>2, <3>4
    <3>6. /\ framed[n].id = 0 => zb < z /\ rb <= r
          /\ framed[n].id = 1 => rb < r /\ zb <= z
      BY <3>2, <3>4 DEF Collected
    <3>7. /\ framed[n].id = 0 => z - zb - 1 = 0 /\ r - rb = 0
          /\ framed[n].id = 1 => z - zb = 0 /\ r - rb - 1 = 0
      BY <3>5, <3>6
    <3> QED BY <3>4, <3>7
  <2> QED BY <1>1, <1>2, <1>4, <2>1, <2>2 DEF Cursor, D!counts
<1>10. Emitted'
  BY <1>1, EmittedStays DEF Decompressing
<1> QED BY <1>5, <1>6, <1>7, <1>8, <1>9, <1>10 DEF Decompressing

LEMMA ResetStep ==
  ASSUME Decompressing, D!Reset
  PROVE  Decompressing'
<1>1. /\ pc = "reset" /\ pc' = IF last THEN "end" ELSE "read"
      /\ blockNum' = 0 /\ compressedBlockNum' = 0 /\ notCompressedBlockNum' = 0
      /\ UNCHANGED <<framed, read, last, D!batch, outputBufferHost, D!cursor, restored>>
  BY DEF D!Reset
<1>2. /\ B(read)' = B(read) /\ Z(read)' = Z(read) /\ R(read)' = R(read)
      /\ \A n : B(n)' = B(n)
      /\ D!Blocks' = D!Blocks
  BY <1>1, SameNumbers
<1>3. B(read) = Len(restored) /\ Len(restored) \in Nat
  BY <1>1 DEF Decompressing, Counted, DecompressorTypes
<1>4. DecompressorTypes' /\ Stream'
  BY <1>1 DEF Decompressing, DecompressorTypes, Stream, D!batch, D!cursor
<1>5. Counted'
  BY <1>1, <1>2, <1>3, Places, RoundTripAssumption
  DEF Decompressing, Counted, ZBefore, RBefore
<1>6. Batch'
  <2> SUFFICES ASSUME pc' = "read", NEW n \in 1..read, InBatch(n)'
               PROVE  FALSE
    BY <1>1 DEF Batch
  <2>1. Len(restored) < B(n)
    BY <1>1, <1>2 DEF InBatch, Before
  <2>2. n \in 1..Len(framed) /\ n <= read
    BY Places
  <2>3. B(n) <= B(read) /\ B(n) \in Nat
    BY <2>2, Places
  <2> QED BY <1>3, <2>1, <2>3
<1>7. Placed'
  BY <1>1, <1>2 DEF Decompressing, Placed
<1>8. Cursor' /\ Emitted'
  BY <1>1, EmittedStays DEF Cursor, Decompressing
<1> QED BY <1>4, <1>5, <1>6, <1>7, <1>8 DEF Decompressing

(* The block that goes out is the next one of the stream.                    *)
LEMMA EmitBlockStep ==
  ASSUME Decompressing, D!EmitBlock
  PROVE  Decompressing'
<1>1. /\ pc = "emit" /\ pc' = IF blockIdx = blockNum - 1 THEN "reset" ELSE "emit"
      /\ UNCHANGED <<framed, read, last, D!counts, D!batch, outputBufferHost>>
      /\ restored' = Append(restored, D!Block) /\ blockIdx' = blockIdx + 1
      /\ D!FromKernel => compressedIdx' = compressedIdx + 1
                         /\ notCompressedIdx' = notCompressedIdx
      /\ ~D!FromKernel => compressedIdx' = compressedIdx
                          /\ notCompressedIdx' = notCompressedIdx + 1
  <2>1. compressedIdx \in Nat /\ notCompressedIdx \in Nat
    BY DEF Decompressing, DecompressorTypes
  <2> QED BY <2>1 DEF D!EmitBlock, D!LastOfBatch
<1>2. /\ B(read)' = B(read) /\ Z(read)' = Z(read) /\ R(read)' = R(read)
      /\ \A n : B(n)' = B(n) /\ Z(n)' = Z(n) /\ R(n)' = R(n)
      /\ D!Blocks' = D!Blocks /\ (D!Repeated' <=> D!Repeated)
      /\ Cardinality(D!Blocks)' = Cardinality(D!Blocks)
  BY <1>1, SameNumbers
<1>3. /\ blockNum \in Nat /\ compressedBlockNum \in Nat /\ notCompressedBlockNum \in Nat
      /\ blockIdx \in Nat /\ compressedIdx \in Nat /\ notCompressedIdx \in Nat
      /\ compressedBlockNum + notCompressedBlockNum = blockNum
      /\ blockNum <= MAX_NUMBER_BLOCKS - 1 /\ MAX_NUMBER_BLOCKS \in Nat
      /\ Len(restored) \in Nat /\ restored \in Seq(Restored)
      /\ blockIdx < blockNum /\ B(read) = Len(restored) - blockIdx + blockNum
      /\ Before = Len(restored) - blockIdx
      /\ ZBefore \in Nat /\ RBefore \in Nat /\ B(read) \in Nat /\ read \in Nat
      /\ last <=> 0 < read /\ read = Len(framed)
  BY <1>1, Places, RoundTripAssumption DEF Decompressing, DecompressorTypes, Counted, Before
<1>4. PICK n \in 1..read : n \in D!Blocks /\ B(n) = Len(restored) + 1
  <2>1. Len(restored) + 1 \in 1..B(read)
    BY <1>3
  <2> QED BY <2>1 DEF Decompressing, Placed
<1>5. /\ n \in 1..Len(framed) /\ framed[n] \in Chunks /\ n <= read
      /\ Z(n) \in Nat /\ R(n) \in Nat /\ B(n) \in Nat /\ B(n) = Z(n) + R(n)
      /\ framed \in Seq(Chunks) /\ Len(framed) \in Nat /\ read <= Len(framed)
  <2>1. n \in 1..Len(framed) /\ n <= read
    BY <1>4, Places
  <2> QED BY <2>1, Places
<1>6. /\ Collected(n) /\ framed[n].id \in {0, 1}
      /\ framed[n].id = 0 => Z(n) - ZBefore - 1 \in 0..(compressedBlockNum - 1)
      /\ framed[n].id = 1 => R(n) - RBefore - 1 \in 0..(notCompressedBlockNum - 1)
      /\ B(n) - Before - 1 = blockIdx
  <2>1. InBatch(n) /\ B(n) - Before - 1 = blockIdx
    BY <1>3, <1>4 DEF InBatch
  <2> QED BY <1>1, <2>1, BatchPlaces
<1>7. D!FromKernel <=> framed[n].id = 0
  BY <1>6 DEF Collected, D!FromKernel
<1>8. /\ \A s \in 0..(compressedBlockNum - 1) : outputBufferHost[s] = inputBufferHost[s]
      /\ framed[n].id = 0 => compressedIdx = Z(n) - ZBefore - 1 /\ notCompressedIdx = R(n) - RBefore
      /\ framed[n].id = 1 => compressedIdx = Z(n) - ZBefore /\ notCompressedIdx = R(n) - RBefore - 1
  BY <1>1, <1>4 DEF Decompressing, Cursor
<1>9. /\ D!Block.size = IF framed[n].id = 0 THEN D!Varint(framed[n]) ELSE framed[n].size
      /\ ~(framed[n].id = 0 /\ D!Repeated) => D!Block.data = framed[n].data
      /\ D!Block.last <=> blockIdx = blockNum - 1 /\ last
      /\ D!Block \in Restored
  <2>1. last \in BOOLEAN
    BY DEF Decompressing, DecompressorTypes
  <2>2. CASE framed[n].id = 0
    <3>1. compressedIdx \in 0..(compressedBlockNum - 1) /\ compressedIdx \in Slots
      BY SMTT(30), <1>3, <1>6, <1>8, <2>2 DEF Slots
    <3>2. /\ outputBufferHost[compressedIdx] \in Nat
          /\ decompressedSizeBufferHost[compressedIdx] \in Nat
      BY <3>1 DEF Decompressing, DecompressorTypes
    <3>3. /\ outputBufferHost[compressedIdx] = inputBufferHost[compressedIdx]
          /\ ~D!Repeated => inputBufferHost[compressedIdx] = framed[n].data
          /\ decompressedSizeBufferHost[compressedIdx] = D!Varint(framed[n])
      BY <1>6, <1>8, <2>2, <3>1 DEF Collected
    <3> QED BY <1>7, <2>1, <2>2, <3>2, <3>3 DEF D!Block, D!LastOfBatch, Restored
  <2>3. CASE framed[n].id = 1
    <3>1. notCompressedIdx \in 0..(notCompressedBlockNum - 1) /\ notCompressedIdx \in Slots
      BY SMTT(30), <1>3, <1>6, <1>8, <2>3 DEF Slots
    <3>2. /\ notCompressedBufferHost[notCompressedIdx] \in Nat
          /\ notCompressedSizeBufferHost[notCompressedIdx] \in Nat
      BY <3>1 DEF Decompressing, DecompressorTypes
    <3>3. /\ notCompressedBufferHost[notCompressedIdx] = framed[n].data
          /\ notCompressedSizeBufferHost[notCompressedIdx] = framed[n].size
      BY <1>6, <1>8, <2>3 DEF Collected
    <3>4. ~D!FromKernel /\ framed[n].id # 0
      BY <1>7, <2>3
    <3>5. D!Block = [data |-> notCompressedBufferHost[notCompressedIdx],
                     size |-> notCompressedSizeBufferHost[notCompressedIdx],
                     last |-> blockIdx = blockNum - 1 /\ last]
      BY <3>4 DEF D!Block, D!LastOfBatch
    <3> QED BY <2>1, <3>2, <3>3, <3>4, <3>5 DEF Restored
  <2> QED BY <1>6, <2>2, <2>3
<1>10. /\ restored' \in Seq(Restored) /\ Len(restored') = Len(restored) + 1
       /\ restored'[Len(restored) + 1] = D!Block
       /\ \A i \in 1..Len(restored) : restored'[i] = restored[i]
  BY <1>1, <1>3, <1>9
<1>11. ZBefore' = ZBefore /\ RBefore' = RBefore /\ (pc' = "emit" => Before' = Before)
  BY <1>1, <1>2, <1>3, <1>10 DEF ZBefore, RBefore, Before, D!counts
<1>12. DecompressorTypes' /\ Stream'
  <2>1. /\ blockIdx' \in Nat /\ compressedIdx' \in Nat /\ notCompressedIdx' \in Nat
        /\ pc' \in {"reset", "emit"}
    BY <1>1, <1>3
  <2> QED BY <1>1, <1>10, <2>1 DEF Decompressing, DecompressorTypes, Stream, D!counts, D!batch
<1>13. Counted'
  <2>1. /\ UNCHANGED <<read, last, blockNum, compressedBlockNum, notCompressedBlockNum, framed>>
        /\ Len(restored') <= B(read)
        /\ pc' = "emit" => blockIdx' < blockNum /\ B(read) = Len(restored') - blockIdx' + blockNum
        /\ pc' = "reset" => B(read) = Len(restored')
        /\ pc' \in {"reset", "emit"}
    BY SMTT(30), <1>1, <1>3, <1>10 DEF D!counts
  <2> QED BY <1>2, <1>3, <1>11, <2>1 DEF Counted
<1>14. Batch'
  <2> SUFFICES ASSUME pc' = "emit", NEW i \in 1..read, InBatch(i)'
               PROVE  Collected(i)'
    BY <1>1 DEF Batch
  <2>1. InBatch(i)
    BY <1>2, <1>11 DEF InBatch
  <2>2. Collected(i)
    BY <1>1, <2>1, BatchPlaces
  <2> QED BY <1>1, <1>2, <1>11, <2>2 DEF Collected, D!Varint, D!batch
<1>15. Placed'
  BY <1>1, <1>2 DEF Decompressing, Placed
<1>16. Cursor'
  <2> SUFFICES ASSUME pc' = "emit" PROVE Cursor'
    BY DEF Cursor
  <2>1. \A s \in 0..(compressedBlockNum' - 1) : outputBufferHost'[s] = inputBufferHost'[s]
    BY <1>1, <1>8 DEF D!batch, D!counts
  <2>2. ASSUME NEW i \in 1..read, i \in D!Blocks, B(i) = Len(restored) + 2
        PROVE  /\ framed[i].id = 0 => compressedIdx' = Z(i) - ZBefore - 1
                                      /\ notCompressedIdx' = R(i) - RBefore
               /\ framed[i].id = 1 => compressedIdx' = Z(i) - ZBefore
                                      /\ notCompressedIdx' = R(i) - RBefore - 1
    <3>1. /\ i \in 1..Len(framed) /\ Z(i) \in Nat /\ R(i) \in Nat
          /\ B(i) = Z(i) + R(i) /\ framed[i].id \in {0, 1}
      <4>1. i \in 1..Len(framed)
        BY <1>3, <1>5
      <4> QED BY <4>1, <2>2, Places
    <3>2. n < i
      BY <1>3, <1>4, <2>2, OneNumber
    <3>3. /\ Z(n) <= Z(i) /\ R(n) <= R(i)
          /\ framed[i].id = 0 => Z(n) < Z(i)
          /\ framed[i].id = 1 => R(n) < R(i)
      BY <1>3, <1>5, <3>1, <3>2, LaterNumbers
    <3>4. PICK z \in Nat, r \in Nat, y \in Nat, q \in Nat, zb \in Nat, rb \in Nat :
            /\ z = Z(n) /\ r = R(n) /\ y = Z(i) /\ q = R(i)
            /\ zb = ZBefore /\ rb = RBefore
      BY <1>3, <1>5, <3>1
    <3>5. y + q = z + r + 1
      BY <1>3, <1>4, <1>5, <2>2, <3>1, <3>4
    <3>6. /\ framed[i].id = 0 => y = z + 1 /\ q = r
          /\ framed[i].id = 1 => y = z /\ q = r + 1
      BY <3>3, <3>4, <3>5
    <3>7. compressedIdx' = z - zb /\ notCompressedIdx' = r - rb
      <4>1. CASE framed[n].id = 0
        <5>1. compressedIdx = z - zb - 1 /\ notCompressedIdx = r - rb
          BY <1>8, <3>4, <4>1
        <5>2. compressedIdx' = compressedIdx + 1 /\ notCompressedIdx' = notCompressedIdx
          BY <1>1, <1>7, <4>1
        <5> QED BY <5>1, <5>2
      <4>2. CASE framed[n].id = 1
        <5>1. compressedIdx = z - zb /\ notCompressedIdx = r - rb - 1
          BY <1>8, <3>4, <4>2
        <5>2. compressedIdx' = compressedIdx /\ notCompressedIdx' = notCompressedIdx + 1
          BY <1>1, <1>7, <4>2
        <5> QED BY <5>1, <5>2
      <4> QED BY <1>6, <4>1, <4>2
    <3> QED BY <3>4, <3>6, <3>7
  <2>3. Len(restored') + 1 = Len(restored) + 2
    BY <1>3, <1>10
  <2> QED BY <1>1, <1>2, <1>11, <2>1, <2>2, <2>3 DEF Cursor, D!counts
<1>17. Emitted'
  <2> SUFFICES ASSUME NEW i \in D!Blocks, B(i) <= Len(restored) + 1
               PROVE  LET c == framed[i]
                          r == restored'[B(i)]
                      IN /\ r.size = IF c.id = 0 THEN D!Varint(c) ELSE c.size
                         /\ ~(c.id = 0 /\ D!Repeated) => r.data = c.data
                         /\ r.last => B(i) = Cardinality(D!Blocks)
                         /\ i = Len(framed) => r.last
    BY <1>1, <1>2, <1>10 DEF Emitted, D!Varint
  <2>1. i \in 1..Len(framed) /\ B(i) \in Nat
    BY Places
  <2>2. CASE B(i) <= Len(restored)
    <3>1. 0 < B(i)
      <4>1. B(0) \in Nat /\ B(0) < B(i)
        <5>1. 0 \in Nat /\ 0 < i
          BY <2>1
        <5> QED BY <1>5, <2>1, <5>1, LaterNumbers, Numbers
      <4> QED BY <2>1, <4>1
    <3>2. restored'[B(i)] = restored[B(i)]
      BY SMTT(30), <1>3, <1>10, <2>1, <2>2, <3>1
    <3> QED BY <2>2, <3>2 DEF Decompressing, Emitted
  <2>3. CASE ~(B(i) <= Len(restored))
    <3>1. B(i) = Len(restored) + 1 /\ i = n
      BY <1>3, <1>4, <2>1, <2>3, OneNumber
    <3>2. D!Block.last => B(n) = Cardinality(D!Blocks)
      <4> SUFFICES ASSUME blockIdx = blockNum - 1, last
                   PROVE  B(n) = Cardinality(D!Blocks)
        BY <1>9
      <4>1. B(n) = B(read) /\ read = Len(framed)
        BY <1>3, <1>4
      <4> QED BY <4>1, <1>3, <1>5, Numbers
    <3>3. n = Len(framed) => D!Block.last
      <4> SUFFICES ASSUME n = Len(framed) PROVE blockIdx = blockNum - 1 /\ last
        BY <1>9
      <4>1. read = n /\ 0 < read
        BY <1>3, <1>5
      <4>2. B(read) = Len(restored) + 1
        BY <1>4, <4>1
      <4> QED BY <1>3, <4>1, <4>2
    <3> QED BY <1>9, <1>10, <3>1, <3>2, <3>3
  <2> QED BY <2>2, <2>3
<1> QED BY <1>12, <1>13, <1>14, <1>15, <1>16, <1>17 DEF Decompressing

-----------------------------------------------------------------------------
(* Both together *)

LEMMA SInvInit == Init => SInv
<1>1. CASE C!Init /\ D!Start
  BY <1>1, CompressingInit DEF SInv, Foreign
<1>2. CASE Foreign /\ cpc = "end" /\ framed \in Streams /\ C!Start /\ D!Start
  <2>1. Stream
    BY <1>2, RoundTripAssumption DEF Stream
  <2> QED BY <1>2, <2>1, DecompressingStart DEF SInv
<1> QED BY <1>1, <1>2 DEF Init

LEMMA SInvNext == SInv /\ [Next]_vars => SInv'
<1> SUFFICES ASSUME SInv, [Next]_vars PROVE SInv'
  OBVIOUS
<1>1. CASE SnappyCompress3
  <2>1. cpc # "end" /\ Compressing /\ ~Foreign /\ D!Start /\ C!Next /\ UNCHANGED dvars
    BY <1>1 DEF SnappyCompress3, SInv
  <2>2. input' = input /\ D!Start'
    BY <2>1 DEF C!Next, C!PopChunk, C!Compress, C!EmitBlock, C!Done, C!vars, dvars, D!Start
  <2>3. Compressing' /\ (cpc' = "end" => Stream')
    BY <2>1, PopChunkStep, CompressStep, EmitChunkStep DEF C!Next, C!Done
  <2>4. cpc' = "end" => Decompressing'
    BY <2>2, <2>3, DecompressingStart, PTL
  <2> QED BY <2>1, <2>2, <2>3, <2>4 DEF SInv, Foreign
<1>2. CASE SnappyDecompress3
  <2>1. cpc = "end" /\ Decompressing /\ D!Step /\ UNCHANGED cvars
    BY <1>2 DEF SnappyDecompress3, SInv
  <2>2. framed' = framed
    BY <2>1 DEF D!Step, D!CompressedBlock, D!RawBlock, D!Identifier, D!InvalidChunk,
                D!Decompress, D!EmitBlock, D!Reset
  <2>3. Decompressing'
    BY <2>1, CompressedBlockStep, RawBlockStep, IdentifierStep, InvalidChunkStep,
       DecompressStep, EmitBlockStep, ResetStep DEF D!Step
  <2>4. Compressing => Compressing'
    BY <2>1, <2>2
    DEF cvars, Compressing, CompressorTypes, Progress, Buffered, Compressed, Base, Whole,
        Marked, C!FramedInOrder, C!Misplaced
  <2> QED BY <2>1, <2>2, <2>3, <2>4 DEF SInv, Foreign, cvars
<1>3. CASE Done \/ UNCHANGED vars
  <2>1. UNCHANGED vars
    BY <1>3 DEF Done, D!Stopped, D!vars, vars, dvars, D!counts, D!batch, D!cursor
  <2>2. UNCHANGED <<framed, cvars, dvars>>
    BY <2>1 DEF vars
  <2>3. Compressing => Compressing'
    BY <2>2
    DEF cvars, Compressing, CompressorTypes, Progress, Buffered, Compressed, Base, Whole,
        Marked, C!FramedInOrder, C!Misplaced
  <2>4. D!Start => D!Start'
    BY <2>2 DEF dvars, D!Start
  <2>5. Decompressing => Decompressing'
    <3>1. /\ B(read)' = B(read) /\ Z(read)' = Z(read) /\ R(read)' = R(read)
          /\ \A n : B(n)' = B(n) /\ Z(n)' = Z(n) /\ R(n)' = R(n)
          /\ D!Blocks' = D!Blocks /\ (D!Repeated' <=> D!Repeated)
          /\ ZBefore' = ZBefore /\ RBefore' = RBefore /\ Before' = Before
      BY <2>2, SameNumbers DEF dvars, ZBefore, RBefore, Before
    <3>2. (DecompressorTypes => DecompressorTypes') /\ (Stream => Stream')
      BY <2>2 DEF dvars, DecompressorTypes, Stream
    <3>3. Counted => Counted'
      BY <2>2, <3>1 DEF dvars, Counted
    <3>4. Batch => Batch'
      BY <2>2, <3>1 DEF dvars, Batch, InBatch, Collected, D!Varint
    <3>5. Placed => Placed'
      BY <2>2, <3>1 DEF dvars, Placed
    <3>6. Cursor => Cursor'
      BY <2>2, <3>1 DEF dvars, Cursor
    <3>7. Emitted => Emitted'
      BY <2>2, EmittedStays DEF dvars
    <3> QED BY <3>2, <3>3, <3>4, <3>5, <3>6, <3>7 DEF Decompressing
  <2> QED BY <2>2, <2>3, <2>4, <2>5 DEF SInv, Foreign, cvars
<1> QED BY <1>1, <1>2, <1>3 DEF Next

LEMMA SInvAlways == Spec => []SInv
BY SInvInit, SInvNext, PTL DEF Spec

(* Every block of a file is framed once and in order, under its own size and, *)
(* unless it is misplaced, with its own content; only the last chunk carries   *)
(* the end mark (SnappyCompress.cpp:58-102).                                   *)
THEOREM CompressorFrames == Spec => []FramedInOrder
<1>1. SInv => FramedInOrder
  BY DEF SInv, FramedInOrder, Compressing
<1> QED BY <1>1, SInvAlways, PTL

(* No batch outgrows the decompressor's buffers, and its two counts add up     *)
(* (the assertion in SnappyDecompress.cpp:125), whatever stream is read.        *)
THEOREM BatchesFit == Spec => []BatchFits
<1>1. SInv => BatchFits
  <2>1. Decompressing => D!BatchFits
    BY DEF Decompressing, Counted, D!BatchFits
  <2>2. D!Start => D!BatchFits
    BY RoundTripAssumption DEF D!Start, D!BatchFits
  <2> QED BY <2>1, <2>2 DEF SInv, BatchFits
<1> QED BY <1>1, SInvAlways, PTL

(* What comes out of the decompressor are the blocks of its stream in order,   *)
(* and, if the compressor has made the stream, the file's own blocks, but for   *)
(* the misplaced and the tiny ones (SnappyDecompress.cpp:45-169).               *)
THEOREM FileRestored == Spec => []FileComesBack
<1>1. ASSUME Decompressing PROVE D!RestoredInOrder
  <2>1. Len(restored) <= Cardinality(D!Blocks)
    <3>1. B(read) <= Cardinality(D!Blocks) /\ B(read) \in Nat
      BY <1>1, Places, Numbers
    <3>2. Len(restored) <= B(read) /\ Len(restored) \in Nat
      BY <1>1 DEF Decompressing, Counted, DecompressorTypes
    <3>3. Cardinality(D!Blocks) \in Nat
      <4>1. B(Len(framed)) = Cardinality(D!Blocks) /\ B(Len(framed)) \in Nat
        BY <1>1, Places, Numbers
      <4> QED BY <4>1
    <3> QED BY <3>1, <3>2, <3>3
  <2>2. ASSUME NEW n \in D!Blocks, B(n) <= Len(restored)
        PROVE  /\ restored[B(n)].size = IF framed[n].id = 0 THEN D!Varint(framed[n])
                                        ELSE framed[n].size
               /\ ~(framed[n].id = 0 /\ D!Repeated) => restored[B(n)].data = framed[n].data
               /\ restored[B(n)].last => B(n) = Cardinality(D!Blocks)
    BY <1>1, <2>2 DEF Decompressing, Emitted
  <2>3. D!Cardinality(D!Blocks) = Cardinality(D!Blocks)
    BY SameCardinality
  <2> QED BY <2>1, <2>2, <2>3 DEF D!RestoredInOrder, B
<1>2. ASSUME Decompressing, Compressing, cpc = "end"
      PROVE  /\ Len(restored) <= Len(input)
             /\ \A k \in 1..Len(restored) :
                  /\ Kept(k) => restored[k].data = k /\ restored[k].size = k
                  /\ restored[k].last <=> k = Len(input)
  <2>1. /\ Len(framed) = Len(input) /\ framed \in Seq(Chunks) /\ Len(input) \in Nat
        /\ restored \in Seq(Restored)
    BY <1>2 DEF Compressing, Progress, CompressorTypes, Decompressing, DecompressorTypes
  <2>2. D!Blocks = 1..Len(framed) /\ ~D!Repeated
    BY <1>2 DEF Compressing, Marked, D!Blocks, D!Places, D!Repeated
  <2>3. ASSUME NEW n \in 0..Len(framed) PROVE B(n) = n
    <3>1. D!Blocks \cap (1..n) = 1..n
      BY <2>1, <2>2
    <3>2. Cardinality(1..n) = n
      BY FS_Interval
    <3> QED BY <3>1, <3>2, SameCardinality DEF B, D!Upto
  <2>4. Cardinality(D!Blocks) = Len(input)
    <3>1. B(Len(framed)) = Cardinality(D!Blocks)
      BY <2>1, Numbers
    <3> QED BY <2>1, <2>3, <3>1
  <2>5. Len(restored) <= Len(input)
    BY <1>1, <1>2, <2>4, SameCardinality DEF D!RestoredInOrder
  <2>6. ASSUME NEW k \in 1..Len(restored)
        PROVE  /\ Kept(k) => restored[k].data = k /\ restored[k].size = k
               /\ restored[k].last <=> k = Len(input)
    <3>1. k \in 1..Len(framed) /\ k \in D!Blocks /\ B(k) = k
      BY <2>1, <2>2, <2>3, <2>5
    <3>2. /\ restored[k].size = IF framed[k].id = 0 THEN D!Varint(framed[k]) ELSE framed[k].size
          /\ restored[k].data = framed[k].data
          /\ restored[k].last => k = Len(input)
          /\ k = Len(input) => restored[k].last
      BY <1>2, <2>1, <2>2, <2>4, <3>1 DEF Decompressing, Emitted
    <3>3. /\ framed[k].size = k /\ (~C!Misplaced(k) => framed[k].data = k)
          /\ framed[k].tiny <=> input[k] = "tiny"
      BY <1>2, <3>1 DEF Compressing, Marked, C!FramedInOrder
    <3> QED BY <3>2, <3>3 DEF Kept, D!Varint
  <2> QED BY <2>5, <2>6
<1>3. ASSUME D!Start, Compressing PROVE FileComesBack
  <2>1. restored = <<>> /\ Len(input) \in Nat
    BY <1>3 DEF D!Start, Compressing, CompressorTypes
  <2>2. Cardinality(D!Blocks) \in Nat
    <3>1. framed \in Seq(Chunks) /\ Len(framed) \in Nat
      BY <1>3 DEF Compressing, CompressorTypes
    <3>2. B(Len(framed)) = Cardinality(D!Blocks) /\ B(Len(framed)) \in Nat
      BY <3>1, Numbers
    <3> QED BY <3>2
  <2>3. ASSUME NEW n \in D!Blocks PROVE ~(D!Upto(D!Blocks, n) <= 0)
    <3>1. n \in 1..Len(framed) /\ framed \in Seq(Chunks)
      BY <1>3 DEF D!Blocks, D!Places, Compressing, CompressorTypes
    <3>2. 0 \in Nat /\ 0 < n
      BY <3>1
    <3>3. B(0) \in Nat /\ B(n) \in Nat /\ B(0) < B(n)
      BY <3>1, <3>2, LaterNumbers, Numbers
    <3> QED BY <3>3 DEF B
  <2>4. D!RestoredInOrder
    BY <2>1, <2>2, <2>3, SameCardinality DEF D!RestoredInOrder
  <2> QED BY <2>1, <2>4 DEF FileComesBack
<1>4. SInv => FileComesBack
  BY <1>1, <1>2, <1>3 DEF SInv, FileComesBack
<1> QED BY <1>4, SInvAlways, PTL
=============================================================================
