--------------------------- MODULE ZstdDecompress ---------------------------
(***************************************************************************)
(* ZstdDecompressWorkshop::process (host/data_compression/src/               *)
(* ZstdDecompress.cpp): frame by frame, the thread pops the fields of a frame  *)
(* into inputBufferHost, starts xilS2MM, has xilMM2S send the frame, waits     *)
(* for both and pushes what came back.                                        *)
(*                                                                          *)
(* The input is a sequence of tokens, each a field, or fields that follow     *)
(* each other, of the Zstandard frame format.  Reading a field where another  *)
(* one is leaves the thread "lost", and so does a frame that does not fit      *)
(* inputBufferHost: what it does then depends on the bytes.                    *)
(***************************************************************************)
EXTENDS Movers, SequencesExt

CONSTANT BufferBlocks  (* the blocks that fit inputBufferHost                *)

VARIABLES
  file, read,    (* the input and how much of it has been popped            *)
  writer,        (* where the thread is                                     *)
  last,          (* what the last pop said                                  *)
  frame,         (* the header of the frame, and the blocks collected       *)
  restored       (* the items pushed                                        *)

token == file[read + 1]
More == read < Len(file)

NoFrame == [checksum |-> FALSE, lastBlock |-> FALSE, size |-> 0, blocks |-> <<>>]
Start ==
  /\ DeviceInit
  /\ read = 0 /\ writer = "magic" /\ last = FALSE /\ frame = NoFrame
  /\ restored = <<>>

(* A pop of a token. *)
Pop ==
  /\ More
  /\ read' = read + 1
  /\ last' = (read' = Len(file))
  /\ UNCHANGED <<file, restored, device>>

(* Any other magic number ends the process, that of a skippable frame too.   *)
Magic ==
  /\ writer = "magic" /\ Pop
  /\ writer' = IF token.t = "magic" THEN "header"
               ELSE IF token.t = "skippable" THEN "exit" ELSE "lost"
  /\ frame' = NoFrame

(* The descriptor and the fields it announces; of the two bits for the        *)
(* length of the dictionary's number one is read, as the length.              *)
Header ==
  /\ writer = "header" /\ Pop
  /\ writer' = IF token.t = "header" /\ token.dictionary \in {0, 1} THEN "block" ELSE "lost"
  /\ frame' = IF token.t = "header" THEN [frame EXCEPT !.checksum = token.checksum] ELSE frame

BlockHeader ==
  /\ writer = "block" /\ Pop
  /\ writer' = IF token.t = "block" THEN "payload" ELSE "lost"
  /\ frame' = IF token.t = "block"
              THEN [frame EXCEPT !.lastBlock = token.final, !.size = token.size] ELSE frame

AfterBlock ==
  IF ~frame.lastBlock THEN "block" ELSE IF frame.checksum THEN "checksum" ELSE "start"

(* As many bytes as the header says, of whatever kind the block is: that of   *)
(* one repeated byte is followed by one.                                      *)
Payload ==
  /\ writer = "payload" /\ frame.size > 0 /\ Pop
  /\ writer' = IF /\ token.t = "data" /\ token.size = frame.size
                  /\ Len(frame.blocks) < BufferBlocks
               THEN AfterBlock ELSE "lost"
  /\ frame' = IF token.t = "data"
              THEN [frame EXCEPT !.blocks = Append(@, [k |-> token.k, n |-> token.n])]
              ELSE frame

(* To pop nothing is not to be at the end. *)
EmptyPayload ==
  /\ writer = "payload" /\ frame.size = 0
  /\ last' = FALSE
  /\ writer' = AfterBlock
  /\ frame' = [frame EXCEPT !.blocks = Append(@, [k |-> 0, n |-> 0])]
  /\ UNCHANGED <<file, read, restored, device>>

Checksum ==
  /\ writer = "checksum" /\ Pop
  /\ writer' = IF token.t = "sum" THEN "start" ELSE "lost"
  /\ UNCHANGED frame

(* xilS2MM is enqueued, and then xilMM2S; mutated, its status is not set back. *)
StatusLeft == status
Status == 0
StartBoth ==
  /\ writer = "start"
  /\ StartS2MM(Status)
  /\ StartMM2S(frame.blocks, TRUE)
  /\ writer' = "write"
  /\ UNCHANGED <<file, read, last, frame, restored, inStream, engine, outStream>>

FinishWrite ==
  /\ writer = "write" /\ MM2SDone
  /\ writer' = "read"
  /\ UNCHANGED <<file, read, last, frame, restored, device>>

(* There is one run of xilS2MM for a frame, whatever status it leaves.       *)
Push ==
  /\ writer = "read" /\ S2MMDone
  /\ restored' = Append(restored, [units |-> s2mm.units, last |-> last])
  /\ writer' = IF last THEN "end" ELSE "magic"
  /\ UNCHANGED <<file, read, last, frame, device>>

Step ==
  \/ Magic \/ Header \/ BlockHeader \/ Payload \/ EmptyPayload \/ Checksum
  \/ StartBoth \/ FinishWrite \/ Push

-----------------------------------------------------------------------------
(* What the code can read: no skippable frame, no number of a dictionary of   *)
(* more than one byte, no block of one repeated byte, no frame that fills a   *)
(* buffer (be its last word one without content), and not an empty block as   *)
(* the last thing of the file.                                                *)
IsHeader(i) == file[i].t = "header"
UnitsAt(i) ==
  IF file[i].t = "data" THEN [j \in 1..file[i].n |-> <<file[i].k, j>>] ELSE <<>>
ContentTo(i) == FlattenSeq([h \in 1..i |-> UnitsAt(h)])
Units(i, j) == Len(ContentTo(j)) - Len(ContentTo(i))
InFrame(i, j) == \A h \in (i + 1)..j : ~IsHeader(h)
Blocks(i, j) == Cardinality({h \in i..j : file[h].t = "block"})
Readable ==
  /\ \A i \in 1..Len(file) :
       /\ file[i].t # "skippable"
       /\ IsHeader(i) => file[i].dictionary \in {0, 1}
       /\ file[i].t = "block" /\ file[i].size > 0 => file[i + 1].size = file[i].size
  /\ \A i \in {h \in 1..Len(file) : IsHeader(h)}, j \in 1..Len(file) :
       i <= j /\ InFrame(i, j) => Units(i, j) < OutUnits /\ Blocks(i, j) <= BufferBlocks
  /\ file # <<>> => file[Len(file)].t # "block"

(* The content of the file. *)
Content == ContentTo(Len(file))
=============================================================================
