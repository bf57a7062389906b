---------------------------- MODULE MCByteStream ----------------------------
(* Model values for the runs of ByteStream. *)
EXTENDS ByteStream

CONSTANTS p1, p2, c1

OneProducer == {p1}
TwoProducers == {p1, p2}
OneConsumer == {c1}

Sizes012 == {0, 1, 2}
Sizes013 == {0, 1, 3}
Sizes13 == {1, 3}
=============================================================================
