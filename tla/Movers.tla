------------------------------- MODULE Movers -------------------------------
(***************************************************************************)
(* The device of gzip's, zlib's and zstd's decompression: the kernel xilMM2S  *)
(* reads a buffer and sends its words to the engine, which has no host        *)
(* interface of its own, and the kernel xilS2MM collects the words that the   *)
(* engine sends (kernels/data_compression/src/xilMM2S.cpp, xilS2MM.cpp).      *)
(* Between them are streams of a few words, so that whoever writes to a full  *)
(* stream waits.                                                              *)
(*                                                                          *)
(* A word of the compressed data is [k, n]: its content is the n units        *)
(* <<k, 1>> to <<k, n>>.  One word a unit leaves the engine as.  A word       *)
(* without strobe, which carries none, is NoUnit.                             *)
(***************************************************************************)
EXTENDS Integers, Sequences

CONSTANTS
  Depth,      (* words that fit each of the streams                         *)
  OutUnits    (* outputBufferHost.size(), read_block_size                   *)

VARIABLES
  mm2s,        (* the words left to send, and the argument last             *)
  inStream,    (* words from xilMM2S to the engine                          *)
  engine,      (* what the engine has still to send                         *)
  outStream,   (* words from the engine to xilS2MM                          *)
  s2mm,        (* whether xilS2MM runs, the words it has read, its units    *)
  status       (* the buffer statusBuffer                                   *)

device == <<mm2s, inStream, engine, outStream, s2mm, status>>

NoUnit == <<0, 0>>
Word(x, last) == [x |-> x, last |-> last]

DeviceInit ==
  /\ mm2s = [words |-> <<>>, last |-> FALSE]
  /\ inStream = <<>> /\ engine = <<>> /\ outStream = <<>>
  /\ s2mm = [runs |-> FALSE, read |-> 0, units |-> <<>>]
  /\ status = 0

(* The host enqueues the kernels.  With status 1 xilS2MM reads nothing.      *)
StartMM2S(words, last) == mm2s' = [words |-> words, last |-> last]
StartS2MM(s) ==
  /\ status' = s
  /\ s2mm' = [runs |-> s = 0, read |-> 0, units |-> <<>>]

MM2SDone == mm2s.words = <<>>
S2MMDone == ~s2mm.runs

-----------------------------------------------------------------------------
Send ==
  /\ mm2s.words # <<>> /\ Len(inStream) < Depth
  /\ inStream' = Append(inStream,
       Word(Head(mm2s.words), mm2s.last /\ Len(mm2s.words) = 1))
  /\ mm2s' = [mm2s EXCEPT !.words = Tail(@)]
  /\ UNCHANGED <<engine, outStream, s2mm, status>>

(* The engine flags the last word for a last word, be it one without strobe.  *)
Plain(word) == [j \in 1..word.n |-> Word(<<word.k, j>>, FALSE)]
Flagged(word) ==
  {Append(Plain(word), Word(NoUnit, TRUE))} \cup
  {[Plain(word) EXCEPT ![n].last = TRUE] : n \in {word.n} \ {0}}
Decode ==
  /\ engine = <<>> /\ inStream # <<>>
  /\ engine' \in IF Head(inStream).last THEN Flagged(Head(inStream).x)
                 ELSE {Plain(Head(inStream).x)}
  /\ inStream' = Tail(inStream)
  /\ UNCHANGED <<mm2s, outStream, s2mm, status>>

Give ==
  /\ engine # <<>> /\ Len(outStream) < Depth
  /\ outStream' = Append(outStream, Head(engine))
  /\ engine' = Tail(engine)
  /\ UNCHANGED <<mm2s, inStream, s2mm, status>>

(* xilS2MM ends with the flagged word or when it has read its number of words. *)
Receive ==
  /\ s2mm.runs /\ outStream # <<>>
  /\ LET word == Head(outStream) IN
       /\ s2mm' = [runs |-> ~word.last /\ s2mm.read + 1 < OutUnits,
                   read |-> s2mm.read + 1,
                   units |-> IF word.x = NoUnit THEN s2mm.units
                             ELSE Append(s2mm.units, word.x)]
       /\ status' = IF word.last THEN 1 ELSE status
  /\ outStream' = Tail(outStream)
  /\ UNCHANGED <<mm2s, inStream, engine>>

Device == Send \/ Decode \/ Give \/ Receive
=============================================================================
