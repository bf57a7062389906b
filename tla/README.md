# A TLA+ model of the FPGA compression, security and database host

The repository is a host runtime in C++ and OpenCL around the Xilinx Vitis
libraries. An application calls small `Lib*` functions
(`src/application`). Those drive *workshops* (`src/host/data_compression`): an
object with an input stream, an output stream and a thread of its own that
cuts the input into blocks, sends them to a kernel on the card and writes the
results. The database and security parts use the same device class but other
control.

Kernels and the Vitis components are vendored; the host's control is the
program's own work, and that is what is modelled. What a kernel does to its
buffers is taken from its own source and from the code that calls it.

## Inventory

| Component | State it keeps | Operations | Who it talks to |
|---|---|---|---|
| `ByteStream` (`Stream.hpp`, `Stream.cpp`) | a bounded queue of byte items, one mutex, one condition variable | `push(buf, size, last)`, `pop(buf, size, last)` | caller threads on one side, a workshop's thread on the other |
| Codec sessions (`application/data_compression/src/Lib*.cpp`, `Workshop`) | namespace-level pointers to the two workshops and to the processing thread | `push…`, `pop…`, header and footer writers | two caller threads, the processing thread, the workshop |
| Gzip and zlib compression (`GzipZlibCompress.cpp`) | one host buffer each way, device buffers, the checksum register, events, output threads | `processContinuous`, `processOverlapped`, `wait`, `getChecksum` | an OpenCL out-of-order queue |
| Snappy compression and decompression | a batch: blocks collected, their sizes, two counts, two buffers | `process`, `wait` | the kernel, both streams |
| LZ4 compression and decompression | a batch, the frame's descriptor, the size word read ahead | `process`, `wait` | the kernel, both streams |
| Zstd compression | one chunk and its result | `process`, `wait` | one kernel, every command waited for |
| Zstd decompression | frame and block headers, the movers' status | `process`, `wait` | MM2S and S2MM kernels |
| Gzip and zlib decompression | blocks in flight between two data movers, the movers' status | `process`, `wait` | MM2S and S2MM kernels |
| Earlier engines (`GzipZlib.cpp`, `Snappy.cpp`, `Lz4.cpp`, `Zstd.cpp`, `ThreadSafeFIFO.hpp`) | tickets, a FIFO of capacity 128 | asynchronous `Input`/`Output` | nothing in `application/` any more |
| Device and program switching (`host/common`) | the program now on the card, a mutex | `getProgram`, `Pointer::build` | every library |
| AES, DES, hashes (`LibAes.cpp`, `Aes.hpp`, `Des.hpp`, `security.cpp`) | a global initialisation vector (AES) | encryption and decryption calls | one kernel call each |
| Join (`gqe_join.cpp`) | queues of memcpy work, user events, offsets of partitions, a hash table on the card | `join` in three solutions: direct, one build and many probes, partitions | the event graph, helper threads |
| Aggregation (`gqe_aggr.cpp`) | the same queues and events, two maps of groups, a shared row count | `aggregate` in three solutions: direct, pipelined, partitions | the event graph, helper threads |
| Data analytics | none (`LibRegularExpress.cpp` is empty) | | |
| Kernels, components, backup, third party | | | vendored, generated or old |

What is hard, component by component, and what makes each correct:

* **ByteStream.** Any number of threads meet at one condition variable. A pop
  may sleep in the middle of its bytes; a push copies before it locks. No byte
  may be lost, repeated or swapped, a pop must not reach past the item pushed
  with `last`, and nobody may sleep on a condition that already holds.
* **Codec sessions.** The pointers are plain globals, written by one thread
  while another spins on them, and they survive from one session to the next.
  A call must reach the workshop of its own session, nothing may be deleted
  while a thread is in it, and the thread that is joined must be the right one.
* **Gzip and zlib compression.** In the overlapped function only events order
  the commands, while one host buffer each way is shared by all chunks.
* **Snappy and LZ4.** Batches: several counts and buffers that have to agree,
  values of the batch before that are still in the buffers, a size word that is
  read ahead, end marks that travel with the last block of a batch.
* **Zstd, gzip decompression.** The engine runs between two data movers with
  streams of bounded depth: host threads, movers and engine wait for each other.
  Results that do not fit wait in the mover and are asked for by a status word.
  All of the content must come back, in order, and the end be told once.
* **AES.** The register that chains one call to the next is one global for all
  modes, directions and threads. Calls of any sizes must give what one call gives.
* **Join and aggregation.** `std::queue`s used by two threads without a lock, user
  events that are set by hand, ping-pong buffers that only events protect, totals and
  offsets that two helper threads share. No buffer may be overwritten while it is
  needed, every row must be in the result once, and nothing may be left behind.
* **Device.** A program is handed out by reference after its mutex has been given
  back; nobody may destroy it before the first kernel is made of it.

`PROJECT.json` lists each of these at its line under `hazards`.

## Modules

| Module | Models | Lines of code it stands for |
|---|---|---|
| `FrameChannel` | what a byte stream promises: bytes in frames, in order | (abstract) |
| `ByteStream` | `push` and `pop` with sleeps, wakeups and spurious wakeups | `Stream.cpp`, `Stream.hpp` |
| `ByteStreamProofs` | theorems about `ByteStream` | |
| `CodecSessions` | `push`/`pop` of the five libraries, the processing thread, the workshop's life | `LibGzip.cpp`, `LibZlib.cpp`, `LibLz4.cpp`, `LibSnappy.cpp`, `LibZstd.cpp`, `Workshop.cpp` |
| `GzipCompress` | both functions of the gzip and zlib workshop, its commands and output threads | `GzipZlibCompress.cpp` |
| `Movers` | the two data movers, the streams and the engine between them | `xilMM2S.cpp`, `xilS2MM.cpp` |
| `GzipDecompress` | the writer and reader threads of the gzip and zlib decompressor | `GzipZlibDecompress.cpp` |
| `ZstdDecompress` | the thread of the zstd decompressor: frames, blocks, movers' commands | `ZstdDecompress.cpp` |
| `MoverRoundTrip` | gzip compression and decompression in sequence, or a zstd file decompressed | `testGzip.cpp`, `LibZstd.cpp` |
| `MoverRoundTripProofs` | theorems about it: buffers, order, checksum, and the content that comes back | |
| `SnappyCompress`, `SnappyDecompress` | the two `process` functions | `SnappyCompress.cpp`, `SnappyDecompress.cpp` |
| `SnappyRoundTrip` | the two in sequence, as the test program runs them | `testSnappy.cpp` |
| `SnappyRoundTripProofs` | theorems about both halves and the file that comes back | |
| `Lz4Compress`, `Lz4Decompress` | the two `process` functions | `Lz4Compress.cpp`, `Lz4Decompress.cpp` |
| `Lz4RoundTrip` | the two in sequence, with header and footer | `testLz4.cpp`, `LibLz4.cpp` |
| `AesChain` | chained AES calls of three clients, and the program switching before each | `LibAes.cpp`, `Application.hpp` |
| `LibraryProofs` | theorems about what the libraries keep from one call or block to the next: `CodecSessions`, `AesChain` and `Lz4RoundTrip` | |
| `PingPong` | the pipeline that join and aggregation build four times: main thread, copy threads, command queue, device | `gqe_join.cpp`, `gqe_aggr.cpp` |
| `PingPongProofs` | theorems about `PingPong` | |
| `PartitionPhase` | `PingPong` with the partition kernel: how the rows of a partition are gathered | `gqe_join.cpp` (`join_sol2`, `threading_pool`), `gqe_aggr.cpp` |
| `AggrPhase` | `PingPong` with the aggregation kernel: how groups are merged and rows collected | `gqe_aggr.cpp` (`aggr_sol1`, `aggr_sol2`) |
| `PartitionPhaseProofs`, `AggrPhaseProofs` | that both implement `PingPong`, what follows, and that sums and places are right | |
| `HashJoin` | how the partitions are joined: build and probe commands, memcpy threads, the rows found | `gqe_join.cpp` (`join_sol2`, `threading_pool`) |
| `MultiProbe` | one build and many probes | `gqe_join.cpp` (`join_sol1`) |
| `Joiner` | the solution chosen: `MultiProbe` or `HashJoin` | `gqe_join.cpp` (`join_all`) |
| `JoinerProofs` | theorems about `Joiner`, `HashJoin` and `MultiProbe` | |
| `MC…` | model values for the runs | |

`PROJECT.json` maps every definition to its lines.

### How state and actions correspond to the code

**ByteStream.** `queue` is `std::queue<ByteItem>`; an item keeps its size and
the bytes used, as in the code, and, as history, the position of its first byte
and the frame it belongs to. Bytes themselves are not kept: a byte is its
position in what was written. `mutex` is held from the lock to a sleep or the
end of the call; `waiting` is the wait set of the condition variable. `push`
is `PushCall` (the copy, outside the lock) and `Push` (the critical section,
which either queues the item or sleeps). `pop` is `PopCall`, `Lock`, and the
loop: `SleepEmpty`, `Use`, `Satisfied`. `Use` is one iteration and has three
cases, as in the code: the item keeps some bytes; it is used up, dropped and
everybody is notified; it is used up and was last, so pop returns *before* the
notification (`Stream.cpp:49-53`). `SpuriousWakeup` is what the C++ standard
allows.

**CodecSessions.** The application runs its sessions one after another. In each
an input thread pushes and an output thread pops until `last`. The busy waits
for the pointer (`PushSpin`, `PopSpin`), the constructor (`Construct`) and the
assignment (`Publish`) of the workshop, the assignment of the thread object
after the thread has begun (`StartSession`, `AssignThread`), the join, the
delete and the clearing of pointers are actions of their own. `kind` says which
family of libraries runs: gzip and zlib (whose workshop's `wait` adds the last
block header a second time), LZ4 (whose decompressor adds a byte to carry the
end mark, which `pop` takes off), Snappy and Zstd.

**GzipCompress.** `command[c][j]` is the state of command `c` of chunk `j`. A
running command holds its target `Torn`, so that whoever reads it too early is
seen. `Dependencies` are the event wait lists of `processOverlapped`;
`OutWait` … `OutEvent` is the thread started for each chunk.

**Snappy and LZ4.** One thread, one action per stage: reading a chunk or a
field, the kernel on the batch, the push of a block. The two byte streams are
sequences here: `ByteStream` is shown to behave as one, and with a single
reader `last` is true exactly when the input has been used up. A block is the
number of its place in the file, a chunk its header and its block.
`SnappyRoundTrip` instantiates both halves over one `framed` variable, and
`Lz4RoundTrip` puts header, what was pushed and footer into `file`. Either also begins
with a stream of another program, which shows what its decompressor does with
chunks and frames that its own compressor never writes.

**Movers, GzipDecompress, ZstdDecompress.** `mm2s` and `s2mm` are the commands the
movers work on, `inStream` and `outStream` the streams to and from the engine, of
`Depth` words; `engine` is the word it expands, a word being `<<chunk, units>>`.
`status` is the buffer in which S2MM keeps its state from one command to the next.
`GzipDecompress` has a thread that pops, transfers and starts MM2S, and another that
starts S2MM, transfers back and pushes; `ZstdDecompress` does both in turn, one
frame at a time, and has one action per field of the format: magic number, header,
block header, block, checksum. What it cannot read ends the process or leaves it
`lost`; `Readable` names the files without such fields. `MoverRoundTrip` runs
`GzipCompress` in either of its ways, writes what it pushed between header and footer
and decompresses that, or takes a zstd file of another program.

**AesChain.** A block is the set of terms whose exclusive or it is, so that the
modes' algebra (what a decryption undoes, what cancels out) is kept without bits. A call
is `Call` (the client decides on its size), the switching of the program (`GetLoaded`,
or `Reset` and `Load` under the mutex, then `CreateKernel` outside it), `Run` (the
kernels with the register given) and what is left in `IV` (`KeepBlock`, `KeepDest` and
`XorSrc`, `KeepCounter`), each an action of its own, as nothing excludes another client
between them. `program[s]` says whether a client's reference is live or dangling.

**PingPong.** `lanes` is 1 for table O, which has one thread each way, and 2 in
the three other places, where even and odd sections have their own. The
main thread (`step`, `sec`) pushes the work for a section's copy in, enqueues its
three commands and pushes the work for its copy out, for all sections at once;
then it waits for the last two copies, clears the flags of the threads and joins
them. `memcpy_in` and `memcpy_out` are the user events that are complete,
`Dependencies` and `MayOverwrite` the wait lists. A command or a thread holds its
target `Torn` while it writes. What a thread does with a result is left open
(`outThread` is `"work"`): `PartitionPhase` and `AggrPhase` extend the module, conjoin
their own actions with its `OutWait`, `OutDone`, `OutExit` and `Kernel`, and so have
every step of theirs be one of the pipeline or none.

**PartitionPhase.** What the kernel finds in a section, its number of
rows for each partition, is any of `Results`. The copy out of one partition is
three steps: the offset is read (`OutOffset`), added to (`OutClaim`), and the rows
are copied (`OutCopy`); `new_part_offset` is an array of `std::atomic<int>`, so that
each of the first two is one step.

**AggrPhase.** `solution` is 1 for the pipelined aggregation, whose threads merge the
groups of a section into `merge_map`, one for each thread, and 2 for the aggregation of
partitions, whose threads append the rows column by column at `aggr_sum_nrow`:
`OutOffset` reads it before each column, `OutSum` adds to it after the last. Of every
column the same number of bytes is copied, the size of a section of the column whose number
is the section's (`gqe_aggr.cpp:981`). `CopiedWhole` says when these are the bytes of the
section: if the columns have one width and there are no more sections than columns. A wider
column is copied in part; the buffer of a narrower one, which has that column's own size
(714-715), is overrun by the copy (422, 448). In both cases the kernel's result may be the one of
any section; what else the overrun destroys is not modelled.

**HashJoin.** The same arrangement for the second half of `join_sol2`: all that the
main thread does for a build is `EnqueueBuild`, for a slice `EnqueueProbe`, since it
reads nothing there that another thread writes. `MayStart` has the wait lists of
every command and copy; `queued`, `running` and `complete` hold pairs of a kind and a
partition (builds) or the running number `e_i` of a slice (probes). `Take` is a
thread's wait and the begin of its copy, `CopyBuildIn`, `CopyProbeIn` and `CopyOut`
its end, with the user event and the `pop`. A row of table L is its partition and its
place there; a buffer is a set of rows, as the kernel puts the rows it finds in a slice in
an order of its own; table C is the set of the pieces copied to it, each with the row it
starts at, so that a piece over another would show; `toutrow` has one count for each slice,
and `HashJoinAssumption` keeps partitions and slices within the array's 256 by 32; `matching` says which rows find one of table O, and a row is found
(`Found`) only when the hash table on the device is the one of its partition. The
build writes no output (`write_out.hpp` of the kernel), though it has an output
buffer among its arguments. The assertions on the size of a partition are
steps of the program: no build file defines `NDEBUG`.

**MultiProbe, Joiner.** `join_sol1` has one thread: `WaitForProbe`, `CopySlice`,
`TakeResult` and `Launch` are one round of its loop, which goes on for two rounds behind
the slices. `Joiner` starts in either solution and lets `MultiProbe` use `HashJoin`'s
variables by its own names.

## What each run checks

| Run | Bounds | Shows |
|---|---|---|
| `bytestream_one` | one producer, one consumer, queue of 2, pushes of 0–2 bytes, pops of 0, 1, 3 bytes, 2 frames, 5 pushes | losslessness, frame order, pops within frames, refinement of `FrameChannel`: `TypeOK`, `Lossless`, `PopWithinFrame`, `ImplementsChannel` |
| `bytestream_session` | two producers, one consumer, queue of 2, one frame, 5 pushes | no lost wakeup, liveness of pushes and of the frame: `NoLostWakeup`, `EverybodyServed` |
| `codec_sessions` | four sessions (decompress, compress, decompress twice), 3 chunks, streams of 2, all three kinds of library | right workshop, safe deletion and join, output complete and in order, checksum final, every session ends: `TypeOK`, `OwnWorkshop`, `DeletedAtRest`, `JoinsOwnThread`, `Delivered`, `ChecksumReady`, `AllSessionsEnd` |
| `mover_round_trip` | gzip: up to 4 chunks of 5 units, both functions, CRC and Adler, streams of 1 word, buffers of 4 units; zstd: every file of one or two frames of one or two blocks of 4 kinds, with and without checksum, and five special ones | no buffer reused too early, results in order, checksum continued, content back in order and in full, and the end told: `BuffersKept`, `StreamInOrder`, `ChecksumContinues`, `ContentComesBack`, `RoundTripEnds` |
| `aes_device` | 6 modes, in place or not, 3 blocks in calls of every size, another client's 2 blocks in the same or another mode, counter words of 64 | references live with one library, chains equal one call, messages come back: `ProgramLives`, `ChainContinues`, `MessageComesBack` |
| `snappy_round_trip` | every file of up to 7 blocks of every outcome of the kernel, 3 to a buffer, and every foreign stream of up to 5 chunks of 5 kinds (2 blocks to a batch) | batches fit, order kept, what is lost and what comes back, the end is told: `FramedInOrder`, `BatchFits`, `FileComesBack`, `RoundTripEnds` |
| `snappy_uncompressed_copy` (violation) | 4 blocks | finding 1 below: `UncompressedCopy` |
| `lz4_round_trip` | every input of up to 5 blocks of 3 bytes, 3 to a buffer, each with every compressed size; foreign files: a first frame of up to 3 blocks of 4 kinds, block sizes 2 and 3 in a buffer of 9, all checksum flags, followed by one of 6 second parts | order, size words that read back, room for the word read ahead, what comes back, the end: `FramedInOrder`, `RoomForSizeWord`, `FileComesBack`, `RoundTripEnds` |
| `partition_phase` | 3 sections, 2 partitions of 2 rows per section, 3 results of the kernel (one does not fit), table O and table L | buffers kept as long as needed, table O gathered, counts add up, nothing left behind, the phase ends: `BuffersKept`, `RowsGathered`, `NoWorkLeft`, `Ends` |
| `partition_gathered` (violation) | 2 sections | finding 2 below: `AllGathered` |
| `join` | partitions: 4 of 2 slices, 5 or 6 rows each, buffers of 3 rows, table C of 9, one with a slice that is too large, one whose slices fit but fill table C, both with a later partition that is too small; one build: 4 slices of 6, 7 and 8 rows in all with 4 sets of matches, and a result that is too large | the hash table kept while its slices are probed, every match in table C once and in order, nothing left behind: `HashTableKept`, `MatchesOnce`, `NothingLeft` |
| `aggregation` | 3 sections or partitions, 2 columns out, 6 inputs: columns of one width, a narrower column, a wider one and fewer columns than sections, in either solution, buffers of results of 5 rows | every group added up once, rows counted, rows aligned without overlap, the end: `GroupsAddUp`, `RowsCounted`, `RowsAligned`, `Ends` |

Why the bounds suffice. The stream's interesting cases need a queue that fills
(2 items), a pop that takes several items and one that takes a part of one (0,
1, 3 against 0, 1, 2), and a frame after a frame. Sessions influence the next
one only through the pointers, and four sessions have every succession of
directions that the programs make. Four chunks let the pipeline of three
commands fill and drain. The batch decoders need a full batch, a partial one, and
a third that finds the second's leftovers: five chunks at two to a batch, seven
blocks at three. With three sections one of the two buffers of the partition phase
is used twice, one thread of each side has a second piece of work, and every wait
list is as long as it gets. Four partitions are the least that `testJoin` accepts, two
slices its default; from the third build on the wait lists have all their entries, and
the last slice of five rows is smaller than the first. Four slices after one build use each buffer
twice; 6 and 7 rows end one or two slices behind the table. A chunk of 5 units fills a stream,
the engine and a buffer of 4 and leaves a rest; two zstd frames meet in one buffer. Three AES
blocks have every division into calls, and 40 + 3 * 16 passes a word of 64, so that a carry is
due. Every size in those models is
compared only with a block or a buffer size, so that a few units stand for all.

### Fairness

* *ByteStream*: strong fairness where a thread takes the mutex (a mutex that
  comes free again and again is granted to each thread in turn), weak for the
  steps of a thread that holds it. Callers go on pushing and popping until the
  last frame is over, as the drivers' loops do.
* *CodecSessions*: every thread that is not blocked runs. The busy waits read
  plain pointers; `test/make_environment.mk:15` builds with `-Wall -g
  -std=c++17` and no optimisation, so that they read memory each time.
* *MoverRoundTrip*: every thread runs, the queue executes every command whose
  events are complete, as OpenCL requires, and movers and engine go on while they can.
* *Snappy, LZ4*: the one thread goes on.
* *PartitionPhase, AggrPhase*: the main thread and every memcpy thread run, and the queue
  executes every command whose events are complete.
* *Joiner* needs none: no step can happen twice, and the run finds no deadlock before
  the join is done, so that it ends if anything goes on at all. *AesChain* states no
  liveness: a client's next call is its own decision.

### Findings

1. `SnappyCompress.cpp:99` sends a block that did not shrink, unless it is the
   last of its buffer, from the kernel's result buffer; the comment two lines
   above says "Uncompressed data copy". Run `snappy_uncompressed_copy`.
2. `gqe_join.cpp:1409-1410` and `1469-1470` read the offset of a partition and add
   to it in two steps, in two threads: two sections may be copied to the same
   place. The comment at line 2495 says that the sections are combined in one
   buffer. `gqe_aggr.cpp:1332` and `1370` do the same. Run `partition_gathered`.
   The counts are right all the same, and table O, with one thread, is gathered
   completely (`RowsGathered`).

`SnappyRoundTrip` states what is still right in spite of the first (`Kept`).

Behaviour that no comment or test of the repository denies, and that the properties
therefore name as their conditions:

* Snappy: a compressed block of less than 128 bytes comes back empty
  (`SnappyDecompress.cpp:70` reads a size of one byte as 0); `FileComesBack` is stated for
  the others.
* Zstd decompression: a last block of size 0 without checksum leaves the loop waiting
  (`ZstdDecompress.cpp:314`: `pop(0)` clears `last`); a frame whose content fills the
  result buffer is cut off and its rest comes before the next frame's; a block of one
  repeated byte, a skippable frame and dictionary flags 2 and 3 are not read.
* AES: the counter of a chained CTR call is advanced by bytes instead of blocks, and the
  carry is added when there is none (`LibAes.cpp:293`); OFB, and decryption in CBC and CFB,
  take the last block of a source that an in-place call has overwritten; a call of
  another client between two calls of a chain replaces its register (`LibAes.cpp:40`).
* Program switching: with two libraries at work, a program may be destroyed while the
  first kernel is made of it (`Application.hpp:138`).
* Aggregation: sections are copied whole only if all columns have the size of the column
  whose number is the section's (`gqe_aggr.cpp:981`); of a wider column a part is missing, and
  the buffer of a narrower one (714-715) is overrun (422, 448); with partitions, the two threads
  may write their rows to the same place (`gqe_aggr.cpp:1453`), while the count is right.
* Join of partitions: a partition's counts have 32 places (`gqe_join.cpp:1166`). The 33rd
  slice's count (1624) is the first of the next partition, and the sum (3332-3338) is wrong.
* Join by one build: with slices that do not divide table L rows behind its end are
  probed too (`gqe_join.cpp:658`).

## What is proved

TLAPS proves these for every value of the constants that satisfies the modules'
named assumptions (sets of threads of any size, any capacity, any number of
sessions and chunks; the database's partitions, slices and columns as many as the code's
arrays have places for).

**`ByteStreamProofs`** (assumption: `StreamAssumption`, capacity and bounds are
natural numbers, producers and consumers are disjoint and do not contain the
free mutex).
* `TypeCorrect`: the type invariant, inductive as it stands.
* `LosslessCorrect`: `Lossless` is inductive given the types and the fact that a
  consumer in its loop holds the mutex; the proof splits an appended, a shortened
  and a partly used queue.
* `Refinement`: every step maps to a step or a stutter of `FrameChannel`. `Lossless`
  and the frame numbers say that what `Use` takes lies between `read` and the
  end of the frame.
* `PopStaysInFrame`: with one consumer (`SoleConsumer`), `PopWithinFrame`. Every workshop
  reads its stream with one thread; with two, one may take the end of a
  frame while the other sleeps in its middle. The invariant `Placed` says that the
  ends of the closed frames are behind what has been read and those of the others before it
  (`FrameMarks`), and that a pop in progress (`Gathering`, asleep or not) ends at what has been
  read and begins behind every closed frame (`PopPlaced`).
* `SessionWakeups`: with one frame, `NoLostWakeup`. It is not inductive: a last
  item is dropped without a notification. `LastPushAlone` is the strengthening:
  while the end is queued no push is in flight, so that no producer sleeps.

**`LibraryProofs`, `CodecSessions`** (assumption: `SessionsAssumption`). The inductive
invariant is `IInv`, the conjunction of `TypeOK`; `OtherSessions` (earlier
sessions are over, later ones have not begun); `ThreadsInStep` (how far the
processing thread is tells how far the workshop and its thread are);
`PointersInStep` (which pointer is set when); `CallersInStep` (how far the two
callers can be); `LastIsLast` (the item marked last is behind all others, wherever
it is). From it follow `TypeCorrect`, `CallsGoToOwnWorkshop`
(`OwnWorkshop`), `NothingDeletedInUse` (`DeletedAtRest`), `JoinsOnce`
(`JoinsOwnThread`) and `ChecksumCovers` (`ChecksumReady`).

`SessionsDeliver` (`Delivered`) says what the caller gets in the end: its own session's
items, in order and complete. This depends on everything between the two callers, so
that `Delivery` numbers the items on their way: those received, those in the output stream,
the one in the thread's hands and those in the input stream follow each other without a
gap (`Numbered`, `Flow`), the thread ends only behind the last (`Ahead`, `AtWork`), and a
terminator is counted where the library adds one (`LastItem`).

**`LibraryProofs`, `AesChain`** (assumption: `AesAssumption`, messages that are not empty
and a counter that is a number of two words). `AesProgramLives` (`ProgramLives`),
`AesChainContinues` (`ChainContinues`) and `AesMessageComesBack` (`MessageComesBack`), for
messages of any length in calls of any sizes, for each mode, and whatever the other clients do.
* What a kernel makes of a message is a recursion over its blocks. The library's induction
  theorems cannot be used here, but that the natural numbers are well founded can: every
  set of them has a least element (`Least`), so that a set with 0 and every successor has
  them all (`Induction`). Its instances are about sets, `{k \in Nat : ...}`. With it the
  registers of a kernel are a function of their definition (`RegistersExist`), two
  works on the same blocks with a register in common have those behind it in common
  (`SameRegisters`), decryption takes back what encryption did (`ComesBack`), and in CTR the
  registers depend on the first alone (`SameStream`). The cipher itself is only known
  to be undone by its inverse (`DE`, `DE8`, `Deciphered`); that exclusive or is its own
  inverse is `XorTwice`.
* The invariant `Shape` has the types and where each client is (`InBounds`): how many of
  its blocks are done, given its calls and its stage. It is proved as `AesTypes`.
* `Alive`, for `ProgramLives`: with one library nobody resets the program once it is
  loaded, and before that nobody has a reference to it, as the one who loads it has the mutex.
* `Linked`, for the modes other than CTR: what a client has that nobody came between is what
  one call would have made so far, and, when its next call begins, the global `IV` is
  the register that one call would have there. Between the two steps of OFB's
  decryption it is not yet.
* `Counted`, for CTR, whose chain one call would *not* continue (the counter is advanced by
  the bytes): each call's blocks are those of a counter that all calls before it have
  advanced (`Marks`, `OfCalls`). Calls of the same sizes then have the same counters, in
  which encryption and decryption agree.

**`LibraryProofs`, `Lz4RoundTrip`** (assumptions: `Lz4Assumption`, two blocks of every size fit
the buffer; `FilesAssumption`, what other programs write is `WellFormed`: a frame's blocks are
no larger than its descriptor says and its checksums are where it says). `Lz4FramedInOrder`,
`Lz4RoomForSizeWord` and `Lz4FileComesBack`, for files of any length. The invariant is `LzInv`.
* The compressor (`LzCompressing`): the buffer holds the blocks popped last (`LzBuffered`), and
  after the kernel the sizes and results of exactly these (`LzCompressed`), so that the k-th
  push is of block k. `SentRight` says which size word it leaves.
* The decompressor's fields, of any file (`LzFields`): the descriptor in force is the last one
  read (`LzFrame`); a batch is one place short of the buffer (`LzRoom`), and that place
  is where the next size word goes; what is taken for a checksum is one (`LzSums`).
* Its blocks, of a `Readable` file (`LzReading`): those of the batch are the last ones read, each
  in the place of its number (`LzCollected`) and full, except that the last may be
  short (`LzFull`). If it is, then nothing but the end mark can follow (`LzShort`): this is why
  reading the results one behind the other, although they are written at multiples of the
  block size, takes the right bytes (`LzEmitting`). What has gone out is the content of the blocks
  before the batch (`LzRestored`).
* The blocks of a file and their content are recursions over it; by `Induction` they are
  functions of their definitions (`DataExist`, `ContentExists`) and grow with what is read
  (`NextField`, `ContentGrows`). The file that the compressor leaves is well formed
  (`WrittenWellFormed`), has the blocks of the original (`WrittenData`), and its content is the
  original content (`WrittenContent`) if it can be read, which it can if every block became
  smaller (`WrittenReadable`).

**`MoverRoundTripProofs`** (assumptions: `MoverAssumption`, no bound or buffer is 0 and no zstd file is
empty; `TokensAssumption`, which gives the tokens their fields). `ChunksKept` (`BuffersKept`),
`ResultsInOrder` (`StreamInOrder`) and `ChecksumOfAll` (`ChecksumContinues`), for any
number of chunks and both functions of the gzip compressor. The inductive invariant `CInv`
has the types, `LastChunk`, and a part for each function. `Overlapped`: the graph of the
events (`EventGraph`: a kernel has started only behind its transfer, a transfer back only
behind its kernel and the output events of all chunks before); what the buffers hold as
long as somebody will read it (`BuffersHeld`); and that the chunks pushed are those whose
thread is past its push (`PushedInTurn`). `Continuous`: only the current chunk has commands
that are not over (`OneAtATime`), each of the four buffers holds it from the step that puts it
there (`OneBuffer`), and where the checksum of the chunks so far is at each point
(`Register`), which alone shows that it is neither taken too early nor inverted twice.

`ContentReturns` (`ContentComesBack`): what the two decompressors of the module give back is the
content, in order, and the item flagged as the last completes it, for streams and buffers of any
size and for every zstd file that is `Readable`. Its inductive invariant is `DInv`, on top of `CInv`:

* `Flow` follows words and units through the device. `Inbound`: the words that are in xilMM2S
  or in the stream are those of the file behind the ones the engine has decoded, and the flag is on the
  last only. `Outbound`: the units that have arrived are a prefix of what the decoded words
  contain (`FlatTo`), and the words on their way are the rest of it, with at most one word without a
  unit behind; the last of them is flagged, if there is nothing more to decode; and the status
  is 1 exactly when that word has been received. Each step of the device keeps `Flow`
  (`FlowSend`, `FlowDecode`, `FlowReceive`), and so does handing over more words (`FlowMore`).
* gzip (`GzipInv`): the file written has the compressed chunks' content (`WrittenContent`, from
  the order that `CInv` has); `Flow` holds of it for both threads together, as one keeps adding
  words while the other collects (`Arrived`). That xilS2MM stops at a full buffer
  loses nothing, because what is left stays in the streams until it is started again.
* zstd (`ZstdInv`): at a frame, what has been pushed is the content up to its header, and the
  blocks collected are the content since (`AtFrame`); `Flow` is of this frame alone. There is
  only one run of xilS2MM for a frame, so here it matters that it ends with the flag and not with a
  full buffer: a frame of a `Readable` file has fewer units than fit (`FrameFits`), and a word
  without the flag always has a unit (`FlowUnflagged`). `Push` therefore finds the device empty
  (`FlowEnds`).
* The content is a concatenation of as many sequences as there are words, tokens or items, which
  the library defines by recursion; that it grows by one of them at a time (`FlattenOneMore`) is proved
  from the function it is the last value of, by `Induction`.

**`SnappyRoundTripProofs`** (assumption: `RoundTripAssumption`, buffers of at least two
blocks; another program's stream is not empty and its last chunk ends it).
`CompressorFrames` (`FramedInOrder`), `BatchesFit` (`BatchFits`) and `FileRestored`
(`FileComesBack`), for files of any length and any mix of chunks. `SInv` says of the
compressor that its buffer holds the blocks popped last, starting at a multiple of the
buffer's size, and is full unless the file ends in it (`Progress`, `Buffered`,
`Compressed`). Of the decompressor it says that the counts are those of the blocks read and
not yet restored (`Counted`); that each block of the batch is in the buffer of its kind, at
the place that the blocks *of its kind* before it leave (`Batch`, `Collected`); that the
three cursors of the output loop agree with the next block (`Cursor`); and what has gone out
(`Emitted`). The number of a block is the number of blocks up to its place in the stream
(`Upto`), a cardinality, so that no recursion over the stream is needed; that every number
has its block is `Placed`.

**`JoinerProofs`** (assumptions: `HashJoinAssumption`, at least two slices in all, and no
more than 256 partitions of 32 slices each, for which `toutrow` has places; and
`JoinerAssumption`, at least one slice for the join by one build).
* `HashTableOfJoin` (`HashTableKept`, from `HashTableCorrect` about `HashJoin` alone), for
  all these partitions and slices. That a hash table is not replaced too early is in the
  wait list of the build; that it is the right one depends on everything before. `IInv` has,
  beside the types needed (`Types`, `Holding`), two parts. `Events`: an event has not been
  enqueued before the main thread has been there (`Fresh`), is in one state at a time
  (`Once`), and has started only after what it waits for (`Waited`), so that builds and
  probes happen in the order of their numbers (`Ordered`). `Buffers`: the build thread's
  queue is in order and what it copies is its head (`InOrder`, `Copying4`), and the host
  buffer, the device buffer and the hash table hold partition `n` from the end of the step
  that wrote it to the start of the step that overwrites it (`HostBufferKept`,
  `DeviceBufferKept`, `TableKept`).
* `JoinFindsMatches` (`MatchesOnce`), for either solution, with any number of slices in the join by one
  build. What the four buffers of a slice
  hold is the same fact four times: from the end of the step that writes a slice's rows to
  the end of the step that reads them, they are there (`RowsKept`, with `SliceBuffer`,
  `Reader` and `Held`; `OneKept` for `join_sol1`). A buffer's next writer is two slices
  later, and what it waits for includes that reader, directly or through the order of the
  events (`OthersRead`, `OneOthersRead`). Table C is then a sum: its rows are those found in
  the slices whose copy out is over, its pieces follow each other, and the offset for the
  next is the number of rows so far (`Pieces`, `AddsUp`, `Counts`; `OnePieces`, `OneCounts`),
  because the results come in the order of the slices (`OutInOrder`; `Taken`). That the
  slices of a partition are apart and cover it is arithmetic: `RowsApart`, `RowsCovered` and
  `RowsInTable`, the last only for partitions that pass the assertions in the code
  (`Asserted`): with them the slices before the last end inside the partition. The slices of `join_sol1`
  always cover the table, and stay in it if its rows are a multiple of them
  (`OneRowsCovered`, `OneRowsInTable`).
* `JoinLeavesNothing` (`NothingLeft`), for either solution. The main thread of `join_sol2`
  has waited for two copies out when it goes on. That these stand for all is in `EndInv`: all
  that the main thread has given away is queued, running or complete (`Counted`,
  `QueueKept`), a copy has had what it waits for (`CopyWaited`), and the copies out of even and
  of odd slices follow each other (`EveryOther`, `LastWaited`). For `join_sol1` it is in
  `OneInv`: the loop's round says which results have been taken (`Taken`), and a result
  taken implies its kernel and its transfers are over (`WaitedOfOne`). `JInv` is the one
  or the other.

**`PingPongProofs`** (assumption: `SectionsAssumption`, at least one section).
`PipeKeepsBuffers` and `PipeLeavesNoWork`: `BuffersKept` and `NoWorkLeft`, for any number
of sections and one or two lanes. Neither is inductive: that a buffer is kept follows
from the wait lists of all that write it and from the order in which events can be
complete, and that the last two copies stand for all from the order in which a thread
takes its sections. `IInv` is the conjunction of `PipeTypeOK`; `Events` (a command has
been enqueued before it runs, is in one state at a time, and is enqueued only when the
main thread has been there); `Waited` (what has started has what it waits for, so that the
sections go through each stage in order); `Queues` (a lane's queue holds its sections
in order, none is missing between what is complete and what the main thread has pushed);
`Buffers` (each of the four pairs holds a section from the end of the step that wrote it
to the start of the next that may); and `Over` (behind `"wait"` all copies are
complete, and a thread ends only then). One lemma per action shows the
preservation, and `OverStep` the part that the counting of the last copies needs. For the
modules that extend it, it also has lemmas about the results taken over so far
(`TakenOver`: no step but `OutDone` changes it, and that by one section at a time) and about
counting pairs of a section and a number.

**`PartitionPhaseProofs`, `AggrPhaseProofs`** (`PartitionAssumption`, up to 256 partitions;
`AggrAssumption`, up to 256 partitions, eight columns in and sixteen out: the sizes of the
code's arrays).
`PhaseImplementsPipe` and `AggrImplementsPipe`: both implement `PipeSpec`, as each step is
a step of the pipeline or leaves it alone. `PhaseKeepsBuffers`, `PhaseLeavesNoWork`,
`AggrKeepsBuffers` and `AggrLeavesNoWork` follow from the theorems about `PingPong`.

What the copy threads make of the results is right whichever of them comes first:
* `PhaseGathersRows` (`RowsGathered`): in `PInv` the offset of a partition is the number of
  rows of the sections that have claimed it (`Counted` over `Claimed(p)`: those taken over,
  and that of a thread past its `OutClaim` of that partition). With one thread, what it has
  read is still the offset when it adds to it (`ReadAndAdded`), and each section's rows are
  together in places of their own below what is filled (`InPlace`). With two, `ReadAndAdded`
  is false, which is finding 2.
* `AggrAddsUp` (`GroupsAddUp`: for columns of one width and no more sections than columns,
  so that `CopiedWhole` holds), `AggrCountsRows` (`RowsCounted`), `AggrAlignsRows`
  (`RowsAligned`): in `AInv` a kernel that is done has left its section's groups (`Made`), each
  map has the totals of the sections that its own thread has taken over (`Totalled`,
  `TakenBy`), the shared sum is the number of rows of the sections taken over (`Counted`),
  and, as long as the threads have not overlapped, the offset a thread has read is still
  the sum (`InTurn`), so that it writes behind all others (`Behind`) and at the same place in
  every column (`InPlace`, `Written`).

A sum over sections is stated as the number of pairs of a section and a row or unit:
cardinalities of finite sets can be reasoned about without an induction for each sum. The amounts are therefore taken as natural numbers, as they are unsigned in the code
(`gqe_aggr.cpp:510`); a wrap of the output's width is outside the model.

**Only model-checked.** All liveness (`EverybodyServed`, `AllSessionsEnd`, `Ends`,
`RoundTripEnds`), which is beyond TLAPS. Every safety property of a passing run is a theorem.

## What is not modelled, and why

* An OpenCL error: `OCL_CHECK` ends the process.
* A second frame after the missing notification: `ByteStream.NoLostWakeup` needs
  one frame per stream, which is how the libraries use it. With more, a producer
  that sleeps when the last item is dropped is woken only by the next drop.
* A second compression in one process: `LibLz4.cpp:97`, `LibSnappy.cpp:43` and
  `LibZstd.cpp:25` leave `compressionWorkShop` set; the programs compress once
  (`SessionsAssumption`).
* The checksum of the overlapped gzip function: the transfer of a chunk may carry
  an older register, so no property claims it. The libraries call the other
  function.
* Snappy: a stream that is only an identifier. LZ4: a content-size field (four of
  its eight bytes are popped), and blocks marked as not compressed that reach the
  kernel, are outside `Readable`.
* Zstd compression's kernel, `xilZstdCompressDataMover`: the loop around it waits for
  every command and is `WorkPop` and `WorkPush` of `CodecSessions`; what the kernel
  makes of a block is not modelled.
* An empty chunk for gzip: `xilMM2S.cpp:33` then counts to about 2^32. The drivers never
  send one.
* Header and footer bytes of the five formats: constants.
* The memory of the growing vectors of events and threads in the overlapped
  function.
* The database's `std::queue`s have no lock, which C++ leaves undefined. With up to
  four elements of about 264 bytes (one to a node of libstdc++'s deque, whose map
  begins with eight places) no push moves an element and the end is written last,
  and the operations are taken as atomic, in `HashJoin` too. With the test program's
  eight slices the queue of copies out may grow longer than that; what a thread
  then reads while the map is moved is not modelled.
* The width of a column in the join: a table is one column of four bytes. What is copied for
  a build, 64 bytes for 16 rows (`gqe_join.cpp:3172`), is the same for every column, so
  that of a wider column of table O half the rows of eight bytes would be missing.
* What a copy behind the end of an aggregation's buffer destroys (`CopiedWhole` above).
* More than 256 partitions, or more than 32 slices in the join of partitions: the counts of
  the slices then lie over each other (`gqe_join.cpp:1166`).
* A hash join with one slice in all or with one partition: `gqe_join.cpp:3317` and `3123`
  use events and lists that do not exist. Only the test program checks the number
  (`testJoin.cpp:175`).
* The direct solutions (`join_sol0`, `aggr_sol0`), which wait for every command; the
  strategies, which compute parameters (`JoinStrategyV1` may return no slices or an
  uninitialised `sec_l`); aggregates other than sums (`gqe_aggr.cpp:512` adds up partial
  minima too) and the widths of the output columns.
* The earlier engines: nothing calls them.
* DES, hashes, tables: straight calls without state between them.
* The inside of the kernels for partitions, join, aggregation, Snappy and LZ4, which string
  together operators of the Vitis libraries: one step of a module is what such a kernel
  leaves in its buffers. Of the AES kernels the register is modelled, the cipher is not.
* Data analytics: an empty file. Other kernels, components, backup copies, third party,
  build files: vendored or old. They are nearly all of the repository's lines: the host's
  own control is less than a tenth of them, so that the share of lines with a definition
  stays small however much of the control is modelled.

## Plan

The plan is done: every module it named is written, every run passes, and every safety
property the passing runs check is proved. What a next step could be:

| Module | What |
|---|---|
| a module for `join_sol0` and `aggr_sol0` | the direct solutions, next to the pipelines that they are to agree with |
| `CodecSessions` | a second compression in one process, once the libraries clear what they keep |
| the proofs modules | the liveness properties, if the prover comes to support fairness |
