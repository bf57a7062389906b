---------------------------- MODULE FrameChannel ----------------------------
(***************************************************************************)
(* What a Stream promises to the threads on its two sides: a lossless,      *)
(* ordered channel of bytes, cut into frames.  Bytes are numbered in the    *)
(* order in which they were written; a frame ends where a push carried      *)
(* last = true.  A reader never takes bytes of two frames in one step, and  *)
(* leaves a frame only by being told that it ended.                         *)
(*                                                                          *)
(* This is the abstract specification; ByteStream implements it.            *)
(***************************************************************************)
EXTENDS Integers, Sequences

VARIABLES
  written,  (* number of bytes written so far                              *)
  ends,     (* ends[f] is the position at which frame f ended              *)
  read,     (* number of bytes read so far                                 *)
  closed    (* number of frames whose end the readers have been told       *)

chan == <<written, ends, read, closed>>

Init ==
  /\ written = 0
  /\ ends = <<>>
  /\ read = 0
  /\ closed = 0

(* The position beyond which no reader may read yet. *)
Limit == IF closed < Len(ends) THEN ends[closed + 1] ELSE written

(* More bytes are written; they may complete a frame. *)
Write ==
  /\ written' \in Nat /\ written' >= written
  /\ ends' \in {ends, Append(ends, written')}
  /\ UNCHANGED <<read, closed>>

(* Some bytes of the current frame are read. *)
Read ==
  /\ read' \in read..Limit
  /\ UNCHANGED <<written, ends, closed>>

(* The rest of the current frame is read, and its end reported. *)
ReadEnd ==
  /\ closed < Len(ends)
  /\ read' = ends[closed + 1]
  /\ closed' = closed + 1
  /\ UNCHANGED <<written, ends>>

Next == Write \/ Read \/ ReadEnd

Spec == Init /\ [][Next]_chan
=============================================================================
