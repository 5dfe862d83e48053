---------------------------- MODULE MCAdapterLink ----------------------------
(* Instances of AdapterLink for TLC. *)
EXTENDS AdapterLink

\* ACK, SESSION COMPLETE, a VEND SUCCESS without an item, and an empty frame,
\* which the parser refuses.
SomePayloads == {<<0>>, <<19, 4, 23>>, <<19, 2, 21>>, <<>>}

\* STX, ETX and a digit.
SomeNoise == {2, 3, 49}
=============================================================================
