------------------------- MODULE MCSnappyRoundTrip -------------------------
(* SnappyRoundTrip with every foreign stream of at most MaxForeign chunks.    *)
EXTENDS SnappyRoundTrip

CONSTANT MaxForeign

Kinds == {"compressed", "tiny", "raw", "identifier", "invalid"}
Id == [compressed |-> 0, tiny |-> 0, raw |-> 1, identifier |-> 255, invalid |-> 2]

MCStreams ==
  {[i \in DOMAIN kinds |->
      [id |-> Id[kinds[i]], data |-> i, tiny |-> kinds[i] = "tiny", size |-> i,
       last |-> i = Len(kinds)]] :
    kinds \in UNION {[1..n -> Kinds] : n \in 1..MaxForeign}}
=============================================================================
