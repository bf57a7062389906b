--------------------------- MODULE GzipDecompress ---------------------------
(***************************************************************************)
(* GzipZlibDecompressWorkshop::process (host/data_compression/src/           *)
(* GzipZlibDecompress.cpp): one thread pops chunks and has xilMM2S send them, *)
(* another has xilS2MM collect the content and pushes it, until the device    *)
(* says that this was the last.  Every command is finished before the next.   *)
(***************************************************************************)
EXTENDS Movers

CONSTANT InUnits  (* CHUNK_SIZE_IN_BYTE, in words                           *)

VARIABLES
  file, read,    (* the input and how much of it has been popped            *)
  writer,        (* where chunkWriter is                                    *)
  last,          (* what pop said to it                                     *)
  reader,        (* where chunkReader is                                    *)
  restored       (* the items pushed                                        *)

threads == <<writer, last, reader>>

Start ==
  /\ DeviceInit
  /\ read = 0 /\ writer = "pop" /\ last = FALSE /\ reader = "start"
  /\ restored = <<>>

WriterPop ==
  /\ writer = "pop"
  /\ read' = IF read + InUnits < Len(file) THEN read + InUnits ELSE Len(file)
  /\ last' = (read' = Len(file))
  /\ StartMM2S(SubSeq(file, read + 1, read'), last')
  /\ writer' = "finish"
  /\ UNCHANGED <<file, reader, restored, inStream, engine, outStream, s2mm, status>>

WriterFinish ==
  /\ writer = "finish" /\ MM2SDone
  /\ writer' = IF last THEN "end" ELSE "pop"
  /\ UNCHANGED <<file, read, last, reader, restored, device>>

(* The reader does not wait for the writer; mutated, it does.                *)
AfterWriter == writer = "end"
MayRead == TRUE
ReaderStart ==
  /\ reader = "start" /\ MayRead
  /\ StartS2MM(status)
  /\ reader' = "finish"
  /\ UNCHANGED <<file, read, writer, last, restored, mm2s, inStream, engine, outStream>>

ReaderPush ==
  /\ reader = "finish" /\ S2MMDone
  /\ restored' = Append(restored, [units |-> s2mm.units, last |-> status = 1])
  /\ reader' = IF status = 1 THEN "end" ELSE "start"
  /\ UNCHANGED <<file, read, writer, last, device>>

Writer == WriterPop \/ WriterFinish
Reader == ReaderStart \/ ReaderPush
(* process joins both. *)
Joined == writer = "end" /\ reader = "end"
=============================================================================
