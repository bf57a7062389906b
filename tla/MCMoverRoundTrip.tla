-------------------------- MODULE MCMoverRoundTrip --------------------------
(* Model values for the run of MoverRoundTrip: zstd files of one or two        *)
(* frames of one or two blocks.                                               *)
EXTENDS MoverRoundTrip

(* Blocks: of two units or one, empty, and of one repeated byte. *)
Kinds == {[size |-> 2, bytes |-> 2, n |-> 2], [size |-> 2, bytes |-> 2, n |-> 1],
          [size |-> 0, bytes |-> 0, n |-> 0], [size |-> 2, bytes |-> 1, n |-> 2]}

Block(kind, k, final) ==
  <<[t |-> "block", size |-> kind.size, final |-> final]>> \o
  (IF kind.size = 0 THEN <<>>
   ELSE <<[t |-> "data", size |-> kind.bytes, k |-> k, n |-> kind.n]>>)

Frame(dictionary, sum, kinds, k) ==
  <<[t |-> "magic"], [t |-> "header", dictionary |-> dictionary, checksum |-> sum]>> \o
  FlattenSeq([i \in 1..Len(kinds) |-> Block(kinds[i], k + i, i = Len(kinds))]) \o
  (IF sum THEN <<[t |-> "sum"]>> ELSE <<>>)

Frames(k) ==
  {Frame(1, sum, kinds, k) : sum \in BOOLEAN, kinds \in UNION {[1..n -> Kinds] : n \in 1..2}}
Plain == CHOOSE kind \in Kinds : kind.bytes = 2 /\ kind.n = 2

MCZstdFiles ==
  Frames(0) \cup {f \o g : f \in Frames(0), g \in Frames(2)} \cup
  {Frame(d, FALSE, <<Plain>>, 0) : d \in {0, 2, 3}} \cup
  {<<[t |-> "skippable"]>> \o Frame(0, FALSE, <<Plain>>, 0),
   Frame(0, FALSE, <<Plain, Plain, Plain>>, 0)}
=============================================================================
