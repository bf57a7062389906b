--------------------------- MODULE MCLz4RoundTrip ---------------------------
(* Lz4RoundTrip with foreign files of one or two frames: a first frame of at   *)
(* most FrameBlocks blocks of every kind, and a second one that shows that    *)
(* the first has left nothing behind.                                         *)
EXTENDS Lz4RoundTrip

CONSTANT FrameBlocks  (* bound: blocks of the first frame                    *)

Kinds == {"full", "short", "raw", "full_raw"}

Size(bs, kind) == IF kind \in {"full", "full_raw"} THEN bs ELSE bs - 1

(* A block's tokens; a full block's bytes, if it is raw, do not fit its word. *)
BlockTokens(bs, sums, kind, k) ==
  LET raw == kind \in {"raw", "full_raw"}
      size == [t |-> "size", n |-> IF kind = "full_raw" THEN 0 ELSE bs, raw |-> raw]
      data == [t |-> "data", k |-> k, bytes |-> bs, units |-> Size(bs, kind), raw |-> raw,
               short |-> kind \notin {"full", "full_raw"}]
  IN IF sums THEN <<size, data, [t |-> "sum"]>> ELSE <<size, data>>

Frame(bs, sums, content, size, kinds, k) ==
  LET b[i \in 0..Len(kinds)] ==
        IF i = 0 THEN <<[t |-> "magic"],
                        [t |-> "descriptor", valid |-> TRUE, contentSize |-> size,
                         blockChecksum |-> sums, contentChecksum |-> content,
                         blockSize |-> bs]>>
        ELSE b[i - 1] \o BlockTokens(bs, sums, kinds[i], k + i)
  IN b[Len(kinds)] \o Footer \o (IF content THEN <<[t |-> "sum"]>> ELSE <<>>)

FirstFrames ==
  {Frame(bs, sums, content, FALSE, kinds, 0) :
     bs \in BlockSizes, sums \in BOOLEAN, content \in BOOLEAN,
     kinds \in UNION {[1..n -> Kinds] : n \in 0..FrameBlocks}}
Others ==
  {<<>>, <<[t |-> "skippable"]>>, <<[t |-> "unknown"]>>,
   <<[t |-> "magic"], D!NoFrame>>,
   Frame(2, FALSE, FALSE, TRUE, <<"full">>, 9),
   Frame(2, TRUE, FALSE, FALSE, <<"full", "short">>, 9)}

MCFiles == {f \o g : f \in FirstFrames, g \in Others} \cup (Others \ {<<>>})
=============================================================================
