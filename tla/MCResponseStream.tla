------------------------- MODULE MCResponseStream -------------------------
(* Finite instances of ResponseStream for TLC.                             *)
EXTENDS ResponseStream

(* The first item begins with whitespace, the third is nothing else.       *)
SomeBlank == {<<1, 1>>, <<3, 1>>, <<3, 2>>}

=============================================================================
